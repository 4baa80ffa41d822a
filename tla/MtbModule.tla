----------------------------- MODULE MtbModule -----------------------------
(***************************************************************************)
(* One module on the MTBbus as the daemon keeps it: the members and the    *)
(* handlers of the class MtbModule.  The handlers of a derived class are   *)
(* in a module that extends this one.                                      *)
(*                                                                         *)
(* The record m holds the members of the object and everything it has      *)
(* under way: commands handed to MtbUsb::send (bus), single-shot timers    *)
(* (timers) and the responses written to the clients (replies).  A member  *)
(* function is an operator from such a record to the record it leaves,     *)
(* since most of them call others before they return; an action applies    *)
(* one to m.                                                               *)
(*                                                                         *)
(* std::optional without a value and a null function is None; Nobody is    *)
(* the null pointer of a request whose client left (or that the daemon     *)
(* made itself).                                                           *)
(***************************************************************************)
EXTENDS Integers, Sequences, FiniteSets, SequencesExt

CONSTANTS
    Requests,     \* the clients' requests, each made once
    Kind,         \* Kind[r] is the command of r
    Socket,       \* Socket[r] is the client that makes r
    Malformed,    \* the upgrade requests whose firmware does not parse
    Blocks,       \* the number of blocks of the firmware
    MTB_MODULE_ACTIVATIONS

None == "none"
Nobody == "nobody"

ModuleKinds == {"module_reboot", "module_upgrade_fw", "module_beacon"}

VARIABLES
    m,       \* the module object and what it has under way
    clients  \* the connected clients

\* The part of m that belongs to MtbModule, of a module nothing happened to.
NewModule ==
    [active |-> FALSE,
     activating |-> FALSE,
     activationsRemaining |-> 0,
     inBootloader |-> FALSE,        \* busModuleInfo.inBootloader()
     rebooting |-> FALSE,
     activatedByMtbUsb |-> FALSE,
     onReboot |-> None,             \* who onOk and onError belong to
     configWriting |-> None,
     fwUpgrading |-> None,
     data |-> 0,                    \* blocks in fwUpgrade.data
     toWrite |-> 0,                 \* blocks from toWrite to the end
     bus |-> <<>>,
     timers |-> [t \in {"fwUpgdReqAck", "reboot"} |-> 0],
     replies |-> [r \in Requests |-> <<>>],
     flash |-> {},                  \* blocks the module took (external)
     fault |-> None]                \* undefined behaviour that was reached

Send(s, cmd) == [s EXCEPT !.bus = Append(@, cmd)]

Cmd(kind) == [kind |-> kind]

Fault(s, what) == [s EXCEPT !.fault = what]

-----------------------------------------------------------------------------
(* Responses *)

\* server.send(socket, response): nothing is written to a client that left.
Reply(s, r, response) ==
    IF r # Nobody /\ Socket[r] \in clients
    THEN [s EXCEPT !.replies[r] = Append(@, response)]
    ELSE s

Ok == [status |-> "ok"]
Error == [status |-> "error"]

\* sendError(socket, request, ...) writes to *socket, whether it exists or not.
SendError(s, r) ==
    CASE r = Nobody -> s
      [] r # Nobody /\ Socket[r] \notin clients -> Fault(s, "deleted socket")
      [] OTHER -> Reply(s, r, Error)

-----------------------------------------------------------------------------
(* Activation *)

MtbBusLost(s) ==
    [s EXCEPT !.activating = FALSE,
              !.active = FALSE,
              !.activationsRemaining = 0]

\* The part of mtbBusActivate that every class of modules does.
ModuleActivate(s, bootloader) ==
    [s EXCEPT !.activationsRemaining = MTB_MODULE_ACTIVATIONS,
              !.inBootloader = bootloader,
              !.activatedByMtbUsb = TRUE]

\* Mutant: the module keeps counting as being activated.
ActivationErrorStillActivating(s) ==
    [s EXCEPT !.activationsRemaining = IF @ > 0 THEN @ - 1 ELSE 0]

ActivationError(s) ==
    [s EXCEPT !.activating = FALSE,
              !.activationsRemaining = IF @ > 0 THEN @ - 1 ELSE 0]

-----------------------------------------------------------------------------
(* Firmware upgrade and reboot *)

\* fwUpgrading.value() throws when no upgrade runs.
FwUpgdError(s) ==
    IF s.fwUpgrading = None
    THEN Fault(s, "no upgrade")
    ELSE [Reply(s, s.fwUpgrading, Error) EXCEPT !.fwUpgrading = None, !.data = 0]

Reboot(s, who) ==
    IF s.rebooting
    THEN s
    ELSE Send([MtbBusLost(s) EXCEPT !.rebooting = TRUE,
                                    !.onReboot = who,
                                    !.activatedByMtbUsb = FALSE],
              Cmd("Reboot"))

\* The reboot failed: rebooting.onError, of a client's request or of the upgrade.
RebootFailed(s) ==
    LET t == [s EXCEPT !.rebooting = FALSE]
    IN IF s.onReboot = "upgrade"
       THEN FwUpgdError(t)
       ELSE MtbBusLost(SendError(t, s.onReboot))

\* Mutant: a module that stayed in its bootloader counts as upgraded.
FwUpgdRebootedBlind(s) ==
    IF s.fwUpgrading = None
    THEN FwUpgdError(s)
    ELSE [Reply(s, s.fwUpgrading, Ok) EXCEPT !.fwUpgrading = None, !.data = 0]

FwUpgdRebooted(s) ==
    IF s.inBootloader \/ s.fwUpgrading = None
    THEN FwUpgdError(s)
    ELSE [Reply(s, s.fwUpgrading, Ok) EXCEPT !.fwUpgrading = None, !.data = 0]

FullyActivated(s) ==
    LET t == [s EXCEPT !.activating = FALSE,
                       !.activationsRemaining = 0,
                       !.active = TRUE,
                       !.rebooting = FALSE]
    IN CASE ~s.rebooting -> t
         [] s.rebooting /\ s.onReboot = "upgrade" -> FwUpgdRebooted(t)
         [] OTHER -> Reply(t, s.onReboot, Ok)

FwUpgdGetStatus(s) == Send(s, Cmd("FwWriteFlashStatusRequest"))

\* Mutant: the upgrade goes on after its error (a return is missing).
FwUpgdGotInfoGoesOn(s, bootloader) ==
    IF bootloader
    THEN FwUpgdGetStatus([s EXCEPT !.inBootloader = TRUE, !.toWrite = s.data])
    ELSE FwUpgdGetStatus(FwUpgdError([s EXCEPT !.inBootloader = FALSE]))

FwUpgdGotInfo(s, bootloader) ==
    IF bootloader
    THEN FwUpgdGetStatus([s EXCEPT !.inBootloader = TRUE, !.toWrite = s.data])
    ELSE FwUpgdError([s EXCEPT !.inBootloader = FALSE])

FwUpgdInit(s) ==
    IF s.inBootloader
    THEN FwUpgdGotInfo(s, TRUE)
    ELSE Send(s, Cmd("FwUpgradeReq"))

\* data.clear() left toWrite valid only where it was at the end.
FwUpgdGotStatus(s, writing) ==
    CASE writing -> FwUpgdGetStatus(s)
      [] ~writing /\ s.toWrite = 0 -> Reboot(s, "upgrade")
      [] ~writing /\ s.toWrite > 0 /\ s.data = 0 -> Fault(s, "toWrite")
      [] OTHER -> [Send(s, [kind |-> "FwWriteFlash", block |-> s.toWrite])
                      EXCEPT !.toWrite = @ - 1]

\* jsonUpgradeFw up to the point where derived classes differ.  The upgrade
\* counts as running before its firmware is parsed.
FwUpgradeAccepted(s, r) ==
    IF r \in Malformed
    THEN SendError([s EXCEPT !.fwUpgrading = r], r)
    ELSE [s EXCEPT !.fwUpgrading = r, !.data = Blocks, !.flash = {}]

-----------------------------------------------------------------------------
(* Clients *)

\* clientDisconnected: the request stays under way, but nobody is told.
ModuleClientDisconnected(s, socket) ==
    LET forget(r) == IF r \in Requests /\ Socket[r] = socket THEN Nobody ELSE r
    IN [s EXCEPT !.configWriting = forget(@), !.fwUpgrading = forget(@)]
=============================================================================
