------------------------------- MODULE MtbUni -------------------------------
(***************************************************************************)
(* An MTB-UNI module (class MtbUni) in a daemon that has no other module   *)
(* with outputs: the clients' requests, the answers of the bus, the timers *)
(* and what the daemon tells the object about the port and the module.     *)
(*                                                                         *)
(* MTB-UNIS and MTB-LED repeat this code line by line and differ in the    *)
(* bytes that they exchange (UnisCodec, LedCodec), so that what is shown   *)
(* here holds for them too; the lines are those of uni.cpp.                *)
(*                                                                         *)
(* MtbUsb promises (CmdService) that every command ends once, with its ok  *)
(* or its error callback; here in any order, since a command written again *)
(* is passed by younger ones.  A command sent through a closed port ends   *)
(* with an error inside send: no other step is taken before it.  A handler *)
(* runs to its end, so it is one step.                                     *)
(***************************************************************************)
EXTENDS MtbModule

CONSTANTS
    Ports,        \* the outputs of the module
    Values,       \* the states of an output; 0 is off
    Outputs,      \* Outputs[r] are the outputs that r sets, with their values
    Configs,      \* configurations of the module
    NewConfig,    \* NewConfig[r] is the configuration that r sets
    Safe,         \* Safe[c] is the state of the outputs that c calls safe
    InitConfigs,  \* what the daemon's file may say of the module at the start
    Events,       \* the events of the environment that happen
    InOrder,      \* do the commands end in the order in which they were sent
    ATTEMPTS,     \* how often the daemon asks a new module again
    MAX_BUS       \* bound: MTB-USB announces no module when so many commands
                  \* and timers to ask it again are under way

Kinds == ModuleKinds \cup
    {"module_set_outputs", "module_set_config", "module_set_address",
     "reset_my_outputs"}

ASSUME MtbUniAssumption ==
    /\ Kind \in [Requests -> Kinds]
    /\ Malformed \subseteq Requests
    /\ IsFiniteSet(Ports)
    /\ 0 \in Values
    /\ Safe \in [Configs -> [Ports -> Values]]
    /\ NewConfig \in [Requests -> Configs]
    /\ \A r \in Requests :
          /\ Socket[r] # Nobody
          /\ DOMAIN Outputs[r] \subseteq Ports
          /\ \A p \in DOMAIN Outputs[r] : Outputs[r][p] \in Values
    /\ None \notin Configs
    /\ InitConfigs \subseteq Configs \cup {None}
    /\ Blocks \in Nat
    /\ MTB_MODULE_ACTIVATIONS \in Nat \ {0}
    /\ InOrder \in BOOLEAN
    /\ ATTEMPTS \in Nat
    /\ MAX_BUS \in Nat

\* What stands for an absent value is no request.
ASSUME RequestNames == {None, Nobody, "upgrade"} \cap Requests = {}

VARIABLES
    port,   \* the port: "closed", "open", "closing" (spAboutToClose)
    listed, \* did the daemon get the list of modules through this port
    asked   \* the requests received, in their order

vars == <<m, clients, port, listed, asked>>

daemon == <<clients, port, listed, asked>>

Off == [p \in Ports |-> 0]

Unset == [p \in Ports |-> Nobody]

\* The part of m that belongs to MtbUni; attempts are the daemon's timers that
\* ask a new module again, moduleConfig is what the module itself holds.
NewUni(file, factory) ==
    [outputsWant |-> Off,
     outputsConfirmed |-> Off,
     whoSetOutput |-> Unset,
     setOutputsWaiting |-> <<>>,
     setOutputsSent |-> <<>>,
     config |-> file,
     configToWrite |-> None,
     attempts |-> [n \in 1 .. ATTEMPTS |-> 0],
     moduleConfig |-> factory]

Init ==
    /\ \E file \in InitConfigs, factory \in Configs :
          LET base == NewModule
              uni == NewUni(file, factory)
          IN m = [f \in DOMAIN base \cup DOMAIN uni |->
                     IF f \in DOMAIN base THEN base[f] ELSE uni[f]]
    /\ clients = {Socket[r] : r \in Requests}
    /\ port = "closed"
    /\ listed = FALSE
    /\ asked = <<>>

-----------------------------------------------------------------------------
(* Handlers of MtbUni *)

\* Mutant: the waiting requests are not taken off their list.
SetOutputsAgain(s) ==
    Send([s EXCEPT !.setOutputsSent = s.setOutputsWaiting],
         [kind |-> "SetOutput", outputs |-> s.outputsWant])

\* setOutputs overwrites the list of the requests that were sent.
SetOutputs(s) ==
    Send([s EXCEPT !.setOutputsSent = s.setOutputsWaiting,
                   !.setOutputsWaiting = <<>>],
         [kind |-> "SetOutput", outputs |-> s.outputsWant])

\* Mutant: the upgrade that waits is forgotten.
NextOutputsNoUpgrade(s) ==
    IF s.setOutputsWaiting # <<>> THEN SetOutputs(s) ELSE s

\* The tail of the callbacks of SetOutput: the next outputs, or the upgrade.
NextOutputs(s) ==
    CASE s.setOutputsWaiting # <<>> -> SetOutputs(s)
      [] s.setOutputsWaiting = <<>> /\ s.fwUpgrading # None -> FwUpgdInit(s)
      [] OTHER -> s

\* Mutant: the requests that were answered stay in their list.
ReplySentKept(s, response) ==
    LET told == {r \in ToSet(s.setOutputsSent) \ {Nobody} : Socket[r] \in clients}
    IN [s EXCEPT !.replies = [r \in Requests |->
            IF r \in told THEN Append(@[r], response) ELSE @[r]]]

\* A response to every request of setOutputsSent.
ReplySent(s, response) ==
    LET told == {r \in ToSet(s.setOutputsSent) \ {Nobody} : Socket[r] \in clients}
    IN [s EXCEPT !.setOutputsSent = <<>>,
                 !.replies = [r \in Requests |->
                    IF r \in told THEN Append(@[r], response) ELSE @[r]]]

OutputsOk(outputs) == [status |-> "ok", outputs |-> outputs]

\* Mutant: the clients are told before the outputs are stored.
MtbBusOutputsSetTooEarly(s, outputs) ==
    NextOutputs([ReplySent(s, OutputsOk(s.outputsConfirmed))
                    EXCEPT !.outputsConfirmed = outputs])

MtbBusOutputsSet(s, outputs) ==
    NextOutputs(ReplySent([s EXCEPT !.outputsConfirmed = outputs],
                          OutputsOk(outputs)))

\* Mutant: outputs that could not be set stay wanted and not confirmed.
MtbBusOutputsNotSetKept(s) == NextOutputs(ReplySent(s, Error))

MtbBusOutputsNotSet(s) ==
    NextOutputs([ReplySent(s, Error) EXCEPT !.outputsConfirmed = s.outputsWant])

\* Mutant: the outputs still belong to the client that left.
ResetOutputsOfClientKept(s, socket) ==
    LET mine == {p \in Ports : s.config # None /\ s.whoSetOutput[p] = socket}
        t == [s EXCEPT
                !.outputsWant = [p \in Ports |->
                    IF p \in mine THEN Safe[s.config][p] ELSE @[p]],
                !.setOutputsWaiting = Append(@, Nobody)]
    IN CASE mine = {} -> s
         [] mine # {} /\ s.setOutputsSent = <<>> -> SetOutputs(t)
         [] OTHER -> t

\* The outputs of the client are wanted safe; they are sent only if nothing is.
ResetOutputsOfClient(s, socket) ==
    LET mine == {p \in Ports : s.config # None /\ s.whoSetOutput[p] = socket}
        t == [s EXCEPT
                !.outputsWant = [p \in Ports |->
                    IF p \in mine THEN Safe[s.config][p] ELSE @[p]],
                !.whoSetOutput = [p \in Ports |->
                    IF p \in mine THEN Nobody ELSE @[p]],
                !.setOutputsWaiting = Append(@, Nobody)]
    IN CASE mine = {} -> s
         [] mine # {} /\ s.setOutputsSent = <<>> -> SetOutputs(t)
         [] OTHER -> t

\* Mutant: off instead of the safe state.
AllOutputsOff(s) ==
    [s EXCEPT !.outputsWant = Off,
              !.outputsConfirmed = Off,
              !.whoSetOutput = Unset]

\* allOutputsReset; outputsReset does the same before it activates the module.
AllOutputsReset(s) ==
    LET safe == IF s.config = None THEN Off ELSE Safe[s.config]
    IN [s EXCEPT !.outputsWant = safe,
                 !.outputsConfirmed = safe,
                 !.whoSetOutput = Unset]

OutputsReset(s) == FullyActivated(AllOutputsReset(s))

Activate(s) ==
    Send([s EXCEPT !.activating = TRUE],
         IF s.config = None
         THEN Cmd("activate: GetConfig")
         ELSE [kind |-> "activate: SetConfig", config |-> s.config])

MtbBusActivate(s, bootloader) ==
    LET t == ModuleActivate(s, bootloader)
    IN IF bootloader THEN OutputsReset(t) ELSE Activate(t)

\* The end of a write of the configuration starts an upgrade that waited for it.
ConfigDone(s, response) ==
    LET t == [Reply(s, s.configWriting, response) EXCEPT !.configWriting = None]
    IN IF t.fwUpgrading = None THEN t ELSE FwUpgdInit(t)

MtbBusConfigWritten(s) ==
    ConfigDone([s EXCEPT !.config = s.configToWrite], Ok)

\* clientResetOutputs of the daemon, for a request or (Nobody) a client that left.
ClientResetOutputs(s, socket, r) ==
    LET setters == {s.whoSetOutput[p] : p \in Ports} \ {Nobody}
    IN CASE Cardinality(setters) >= 2 ->
              Reply(ResetOutputsOfClient(s, socket), r, Ok)
         [] setters = {socket} ->
              Send(AllOutputsReset(s), [kind |-> "ResetOutputs", request |-> r])
         [] OTHER -> Reply(s, r, Ok)

-----------------------------------------------------------------------------
(* The clients' requests *)

\* Nothing is called while the port is closed and a command has to end first.
\* Without the event "early", nothing comes between the opening of the port and
\* the list of modules.
Ready ==
    /\ m.fault = None
    /\ port # "closing"
    /\ port = "closed" => m.bus = <<>>
    /\ port = "open" => listed \/ "early" \in Events

Receive(r, kind) ==
    /\ Ready
    /\ r \notin ToSet(asked)
    /\ Kind[r] = kind
    /\ Socket[r] \in clients
    /\ asked' = Append(asked, r)
    /\ UNCHANGED <<port, listed, clients>>

Upgrading == m.fwUpgrading # None

ActivationCommands == {"activate: SetConfig", "activate: GetConfig",
                       "activate: GetInputs", "activate: ResetOutputs"}

\* The daemon has started to activate the module, or will.
ActivationUnderWay ==
    \/ m.activating
    \/ m.activationsRemaining > 0
    \/ \E i \in DOMAIN m.bus : m.bus[i].kind \in {"ModuleInfo"} \cup ActivationCommands
    \/ \E n \in DOMAIN m.attempts : m.attempts[n] > 0

\* Without the event "overlap", nobody asks for an upgrade or a reboot of a
\* module that is being activated (the code takes such a request).
NoOverlap == ActivationUnderWay => "overlap" \in Events

JsonSetOutput(r) ==
    /\ Receive(r, "module_set_outputs")
    /\ LET refused == \/ ~m.active
                      \/ Upgrading
                      \/ m.inBootloader
                      \/ m.configWriting # None
           new == [p \in Ports |-> IF p \in DOMAIN Outputs[r] THEN Outputs[r][p]
                                   ELSE m.outputsWant[p]]
           waits == [m EXCEPT
                        !.outputsWant = new,
                        !.whoSetOutput = [p \in Ports |->
                            IF new[p] = m.outputsWant[p] THEN @[p] ELSE Socket[r]],
                        !.setOutputsWaiting = Append(@, r)]
       IN m' = CASE refused -> SendError(m, r)
                 [] ~refused /\ new = m.outputsWant ->
                        Reply(m, r, OutputsOk(m.outputsConfirmed))
                 [] ~refused /\ new # m.outputsWant
                    /\ m.outputsWant = m.outputsConfirmed -> SetOutputs(waits)
                 [] OTHER -> waits

JsonSetConfig(r) ==
    /\ Receive(r, "module_set_config")
    /\ LET refused == m.configWriting # None \/ Upgrading \/ m.inBootloader
           t == [m EXCEPT !.configToWrite = NewConfig[r], !.configWriting = r]
       IN m' = CASE refused -> SendError(m, r)
                 [] ~refused /\ m.active /\ m.configToWrite # NewConfig[r] ->
                        Send(t, [kind |-> "SetConfig", config |-> NewConfig[r]])
                 [] OTHER -> MtbBusConfigWritten(t)

\* Mutant: the upgrade does not wait for the outputs that were sent.
JsonUpgradeFwAtOnce(r) ==
    /\ Receive(r, "module_upgrade_fw")
    /\ NoOverlap
    /\ m' = IF Upgrading THEN SendError(m, r) ELSE FwUpgdInit(FwUpgradeAccepted(m, r))

JsonUpgradeFw(r) ==
    /\ Receive(r, "module_upgrade_fw")
    /\ NoOverlap
    /\ LET t == FwUpgradeAccepted(m, r)
       IN m' = CASE Upgrading -> SendError(m, r)
                 [] ~Upgrading /\ r \notin Malformed /\ m.configWriting = None
                    /\ m.setOutputsSent = <<>> -> FwUpgdInit(t)
                 [] OTHER -> t

JsonReboot(r) ==
    /\ Receive(r, "module_reboot")
    /\ NoOverlap
    /\ m' = IF m.rebooting THEN SendError(m, r) ELSE Reboot(m, r)

JsonSetAddress(r) ==
    /\ Receive(r, "module_set_address")
    /\ m' = IF Upgrading \/ m.inBootloader \/ m.configWriting # None
            THEN SendError(m, r)
            ELSE Send(m, [kind |-> "Forward", request |-> r])

\* jsonBeacon; jsonGetDiag and jsonSpecificCommand have the same shape.
JsonBeacon(r) ==
    /\ Receive(r, "module_beacon")
    /\ m' = Send(m, [kind |-> "Forward", request |-> r])

ResetMyOutputs(r) ==
    /\ Receive(r, "reset_my_outputs")
    /\ m' = ClientResetOutputs(m, Socket[r], r)

Request(r) ==
    \/ JsonSetOutput(r)
    \/ JsonSetConfig(r)
    \/ JsonUpgradeFw(r)
    \/ JsonReboot(r)
    \/ JsonSetAddress(r)
    \/ JsonBeacon(r)
    \/ ResetMyOutputs(r)

ClientDisconnected(socket) ==
    /\ "leave" \in Events
    /\ Ready
    /\ socket \in clients
    /\ clients' = clients \ {socket}
    /\ m' = ClientResetOutputs(ModuleClientDisconnected(m, socket), socket, Nobody)
    /\ UNCHANGED <<port, listed, asked>>

-----------------------------------------------------------------------------
(* The ends of the commands *)

Ends(i, kind) ==
    /\ m.fault = None
    /\ i \in DOMAIN m.bus
    /\ InOrder => i = 1
    /\ m.bus[i].kind = kind
    /\ UNCHANGED daemon

\* The ok callback of the command at position i, only through an open port.
Succeeds(i, kind) == Ends(i, kind) /\ port = "open"

Rest(i) == [m EXCEPT !.bus = RemoveAt(@, i)]

OutputsSet(i) ==
    /\ Succeeds(i, "SetOutput")
    /\ m' = MtbBusOutputsSet(Rest(i), m.bus[i].outputs)

OutputsNotSet(i) ==
    /\ Ends(i, "SetOutput")
    /\ m' = MtbBusOutputsNotSet(Rest(i))

ConfigWritten(i) ==
    /\ Succeeds(i, "SetConfig")
    /\ m' = MtbBusConfigWritten([Rest(i) EXCEPT !.moduleConfig = m.bus[i].config])

\* Mutant: the error callback does what the ok callback does.
ConfigNotWrittenOk(i) ==
    /\ Ends(i, "SetConfig")
    /\ m' = MtbBusConfigWritten(Rest(i))

\* The module may have taken the configuration though no answer came.
ConfigNotWritten(i) ==
    /\ Ends(i, "SetConfig")
    /\ \E held \in {m.moduleConfig, m.bus[i].config} :
          m' = ConfigDone([Rest(i) EXCEPT !.moduleConfig = held], Error)

ForwardOk(i) ==
    /\ Succeeds(i, "Forward")
    /\ m' = Reply(Rest(i), m.bus[i].request, Ok)

ForwardFailed(i) ==
    /\ Ends(i, "Forward")
    /\ m' = SendError(Rest(i), m.bus[i].request)

OutputsResetOk(i) ==
    /\ Succeeds(i, "ResetOutputs")
    /\ m' = Reply(Rest(i), m.bus[i].request, Ok)

OutputsResetFailed(i) ==
    /\ Ends(i, "ResetOutputs")
    /\ m' = SendError(Rest(i), m.bus[i].request)

\* Activation: the configuration, then the inputs, then the outputs.
ActivationStep(i) ==
    \/ /\ Succeeds(i, "activate: SetConfig")
       /\ m' = Send([Rest(i) EXCEPT !.moduleConfig = m.bus[i].config],
                    Cmd("activate: GetInputs"))
    \/ /\ Succeeds(i, "activate: GetConfig")
       /\ m' = Send([Rest(i) EXCEPT !.config = m.moduleConfig],
                    Cmd("activate: GetInputs"))
    \/ /\ Succeeds(i, "activate: GetInputs")
       /\ m' = Send(Rest(i), Cmd("activate: ResetOutputs"))
    \/ /\ Succeeds(i, "activate: ResetOutputs")
       /\ m' = OutputsReset(Rest(i))

ActivationFailed(i) ==
    /\ \E kind \in ActivationCommands : Ends(i, kind)
    /\ \E held \in {m.moduleConfig} \cup
            (IF m.bus[i].kind = "activate: SetConfig" THEN {m.bus[i].config} ELSE {}) :
          m' = ActivationError([Rest(i) EXCEPT !.moduleConfig = held])

RebootAck(i) ==
    /\ Succeeds(i, "Reboot")
    /\ m' = [Rest(i) EXCEPT !.timers["reboot"] = @ + 1]

RebootGotInfo(i, bootloader) ==
    /\ Succeeds(i, "reboot: ModuleInfo")
    /\ m' = MtbBusActivate(Rest(i), bootloader)

RebootError(i) ==
    /\ Ends(i, "Reboot") \/ Ends(i, "reboot: ModuleInfo")
    /\ m' = RebootFailed(Rest(i))

FwUpgdReqAck(i) ==
    /\ Succeeds(i, "FwUpgradeReq")
    /\ m' = [Rest(i) EXCEPT !.timers["fwUpgdReqAck"] = @ + 1]

FwUpgdInfo(i, bootloader) ==
    /\ Succeeds(i, "fw: ModuleInfo")
    /\ m' = FwUpgdGotInfo(Rest(i), bootloader)

FwUpgdStatus(i, writing) ==
    /\ Succeeds(i, "FwWriteFlashStatusRequest")
    /\ m' = FwUpgdGotStatus(Rest(i), writing)

FwUpgdWritten(i) ==
    /\ Succeeds(i, "FwWriteFlash")
    /\ m' = FwUpgdGetStatus([Rest(i) EXCEPT !.flash = @ \cup {m.bus[i].block}])

FwUpgdFailed(i) ==
    /\ \E kind \in {"FwUpgradeReq", "fw: ModuleInfo", "FwWriteFlash",
                    "FwWriteFlashStatusRequest"} : Ends(i, kind)
    /\ m' = FwUpgdError(Rest(i))

Callback(i) ==
    \/ OutputsSet(i) \/ OutputsNotSet(i)
    \/ ConfigWritten(i) \/ ConfigNotWritten(i)
    \/ ForwardOk(i) \/ ForwardFailed(i)
    \/ OutputsResetOk(i) \/ OutputsResetFailed(i)
    \/ ActivationStep(i) \/ ActivationFailed(i)
    \/ RebootAck(i) \/ RebootError(i)
    \/ FwUpgdReqAck(i) \/ FwUpgdWritten(i) \/ FwUpgdFailed(i)
    \/ \E b \in BOOLEAN : \/ RebootGotInfo(i, b)
                          \/ FwUpgdInfo(i, b)
                          \/ FwUpgdStatus(i, b)

-----------------------------------------------------------------------------
(* Timers *)

Expires(timer) ==
    /\ Ready
    /\ m.timers[timer] > 0
    /\ UNCHANGED daemon

Expired(timer) == [m EXCEPT !.timers[timer] = @ - 1]

FwUpgdReqTimer ==
    /\ Expires("fwUpgdReqAck")
    /\ m' = Send(Expired("fwUpgdReqAck"), Cmd("fw: ModuleInfo"))

RebootTimer ==
    /\ Expires("reboot")
    /\ m' = IF m.activatedByMtbUsb
            THEN Expired("reboot")
            ELSE Send(Expired("reboot"), Cmd("reboot: ModuleInfo"))

\* tReactivateTick and reactivateCheck, when they have something to do.
ReactivateTick ==
    /\ Ready /\ port = "open"
    /\ ~m.activating /\ m.activationsRemaining > 0 /\ ~m.active
    /\ m' = Activate(m)
    /\ UNCHANGED daemon

-----------------------------------------------------------------------------
(* The daemon and the port *)

\* activateModule(addr, attemptsRemaining)
ActivateModule(s, attempts) ==
    Send(s, [kind |-> "ModuleInfo", attempts |-> attempts])

Busy == Len(m.bus) + FoldFunction(+, 0, m.attempts)

\* mtbUsbGotModules: the list of active modules has the module, or has not.
MtbUsbGotModules ==
    /\ m.fault = None
    /\ port = "open" /\ ~listed
    /\ Busy < MAX_BUS
    /\ listed' = TRUE
    /\ m' \in {m, ActivateModule(m, ATTEMPTS)}
    /\ UNCHANGED <<clients, port, asked>>

\* MTB-USB says that the module appeared.
MtbUsbOnNewModule ==
    /\ "new" \in Events
    /\ Ready /\ port = "open"
    /\ Busy < MAX_BUS
    /\ ~m.active /\ ~m.rebooting /\ ~Upgrading
    /\ m' = ActivateModule(m, ATTEMPTS)
    /\ UNCHANGED daemon

ModuleGotInfo(i, bootloader) ==
    /\ Succeeds(i, "ModuleInfo")
    /\ m' = MtbBusActivate(Rest(i), bootloader)

ModuleNoInfo(i) ==
    /\ Ends(i, "ModuleInfo")
    /\ LET n == m.bus[i].attempts
       IN m' = IF n > 0 THEN [Rest(i) EXCEPT !.attempts[n] = @ + 1] ELSE Rest(i)

\* The timer of activateModule, 500 ms after no information came.
AttemptTimer(n) ==
    /\ Ready
    /\ m.attempts[n] > 0
    /\ LET t == [m EXCEPT !.attempts[n] = @ - 1]
       IN m' = IF port = "open" /\ ~m.active /\ ~m.activating
               THEN ActivateModule(t, n - 1)
               ELSE t
    /\ UNCHANGED daemon

MtbUsbOnModuleFail ==
    /\ "fail" \in Events
    /\ Ready /\ port = "open"
    /\ ~Upgrading /\ ~m.rebooting
    /\ m' = MtbBusLost(m)
    /\ UNCHANGED daemon

Connect ==
    /\ Ready /\ port = "closed"
    /\ listed => "replug" \in Events
    /\ port' = "open"
    /\ listed' = FALSE
    /\ UNCHANGED <<m, clients, asked>>

\* spAboutToClose ends every command, and those that their callbacks send.
Disconnect ==
    /\ "unplug" \in Events
    /\ Ready /\ port = "open"
    /\ port' = "closing"
    /\ UNCHANGED <<m, clients, listed, asked>>

MtbUsbDisconnected ==
    /\ m.fault = None
    /\ port = "closing" /\ m.bus = <<>>
    /\ port' = "closed"
    /\ m' = AllOutputsReset([m EXCEPT !.active = FALSE])
    /\ UNCHANGED <<clients, listed, asked>>

\* What the program does after undefined behaviour is not modelled.
Faulty == m.fault # None /\ UNCHANGED vars

Daemon ==
    \/ MtbUsbGotModules
    \/ MtbUsbOnNewModule
    \/ \E n \in 1 .. ATTEMPTS : AttemptTimer(n)
    \/ MtbUsbOnModuleFail
    \/ Connect
    \/ Disconnect
    \/ MtbUsbDisconnected

Next ==
    \/ \E r \in Requests : Request(r)
    \/ \E socket \in clients : ClientDisconnected(socket)
    \/ \E i \in DOMAIN m.bus :
          \/ Callback(i)
          \/ \E b \in BOOLEAN : ModuleGotInfo(i, b)
          \/ ModuleNoInfo(i)
    \/ FwUpgdReqTimer \/ RebootTimer \/ ReactivateTick
    \/ Daemon
    \/ Faulty

Spec == Init /\ [][Next]_vars

-----------------------------------------------------------------------------
(* Properties *)

BusCommands ==
    [kind : {"SetOutput"}, outputs : [Ports -> Values]]
        \cup [kind : {"SetConfig", "activate: SetConfig"}, config : Configs]
        \cup [kind : {"Forward", "ResetOutputs"}, request : Requests \cup {Nobody}]
        \cup [kind : {"FwWriteFlash"}, block : 1 .. Blocks]
        \cup [kind : {"ModuleInfo"}, attempts : 0 .. ATTEMPTS]
        \cup [kind : {"activate: GetConfig", "activate: GetInputs",
                      "activate: ResetOutputs", "Reboot", "reboot: ModuleInfo",
                      "FwUpgradeReq", "fw: ModuleInfo",
                      "FwWriteFlashStatusRequest"}]

Responses == [status : {"ok", "error"}] \cup
             [status : {"ok"}, outputs : [Ports -> Values]]

\* The members of the object, and what it has under way.
Objects ==
    [active : BOOLEAN, activating : BOOLEAN,
     activationsRemaining : 0 .. MTB_MODULE_ACTIVATIONS,
     inBootloader : BOOLEAN, rebooting : BOOLEAN,
     activatedByMtbUsb : BOOLEAN,
     onReboot : Requests \cup {None, "upgrade"},
     configWriting : Requests \cup {None, Nobody},
     fwUpgrading : Requests \cup {None, Nobody},
     data : 0 .. Blocks, toWrite : 0 .. Blocks,
     bus : Seq(BusCommands),
     timers : [{"fwUpgdReqAck", "reboot"} -> Nat],
     replies : [Requests -> Seq(Responses)],
     flash : SUBSET (1 .. Blocks),
     fault : {None, "no upgrade", "deleted socket", "toWrite"},
     outputsWant : [Ports -> Values],
     outputsConfirmed : [Ports -> Values],
     whoSetOutput : [Ports -> {Socket[r] : r \in Requests} \cup {Nobody}],
     setOutputsWaiting : Seq(Requests \cup {Nobody}),
     setOutputsSent : Seq(Requests \cup {Nobody}),
     config : Configs \cup {None}, configToWrite : Configs \cup {None},
     attempts : [1 .. ATTEMPTS -> Nat],
     moduleConfig : Configs]

\* Every variable, and every member of the object, has its type.
TypeOK ==
    /\ m \in Objects
    /\ port \in {"closed", "open", "closing"}
    /\ listed \in BOOLEAN
    /\ asked \in Seq(Requests)

\* Nothing that the daemon started by itself is under way.
Quiet ==
    /\ Ready
    /\ m.bus = <<>>
    /\ \A t \in DOMAIN m.timers : m.timers[t] = 0
    /\ \A n \in DOMAIN m.attempts : m.attempts[n] = 0
    /\ ~ENABLED ReactivateTick

\* Requests without a response, of clients that are still there.
LeftOver ==
    {r \in ToSet(asked) : Socket[r] \in clients /\ m.replies[r] = <<>>}

\* "Client send requests, server responds to to requests with responses"
\* (tcp-protocol/README.md): no request is left without a response when nothing
\* is under way that could bring it.
EveryRequestAnswered == Quiet => LeftOver = {}

\* Every request has one response: none has two, and once nothing is under way
\* only that one has none which waits for a reboot after which the module could
\* not be activated.
AnsweredOnce ==
    /\ \A r \in Requests : Len(m.replies[r]) <= 1
    /\ Quiet => \A r \in LeftOver :
          /\ m.rebooting /\ ~m.active /\ m.activatedByMtbUsb
          /\ r = IF m.onReboot = "upgrade" THEN m.fwUpgrading ELSE m.onReboot

\* A request gets at most one response, whatever it overlaps with, though the
\* sets of outputs wait in two lists, an upgrade is begun from three places and
\* what a client asked for outlives its connection.  Not so a reboot and an
\* upgrade with firmware that does not parse: an activation that was under way
\* answers the one, and the other counts as running after its error.
OneResponse ==
    \A r \in Requests \ Malformed :
        Kind[r] # "module_reboot" => Len(m.replies[r]) <= 1

\* Once every command ended, the object believes that the outputs are as wanted.
OutputsAgree == Quiet /\ m.active => m.outputsConfirmed = m.outputsWant

\* The response to a set of outputs shows the outputs as the client asked, or
\* as a request asked that came later.
AnswerShowsOutputs ==
    \A i \in DOMAIN asked :
        LET r == asked[i]
        IN Kind[r] = "module_set_outputs" =>
            \A k \in DOMAIN m.replies[r] :
                LET a == m.replies[r][k]
                IN a.status = "ok" =>
                    \A p \in DOMAIN Outputs[r] :
                        \/ a.outputs[p] = Outputs[r][p]
                        \/ \E j \in (i + 1) .. Len(asked) :
                              p \in DOMAIN Outputs[asked[j]]

\* An upgrade that is answered "ok" wrote every block, and the module runs the
\* firmware, not the bootloader.
UpgradeOkIsComplete ==
    [][ \A r \in Requests :
          Kind[r] = "module_upgrade_fw" /\ Ok \in ToSet(m'.replies[r])
              /\ m.replies[r] = <<>>
            => m'.flash = 1 .. Blocks /\ m'.active /\ ~m'.inBootloader ]_vars

UpgradeCommands == {"FwUpgradeReq", "fw: ModuleInfo", "FwWriteFlash",
                    "FwWriteFlashStatusRequest"}

\* The module gets no client's outputs or configuration while it is upgraded,
\* and the blocks are written one after another.
UpgradeAlone ==
    LET chain == {i \in DOMAIN m.bus : m.bus[i].kind \in UpgradeCommands}
        others == {i \in DOMAIN m.bus : m.bus[i].kind \in {"SetOutput", "SetConfig"}}
    IN /\ Cardinality(chain) + m.timers["fwUpgdReqAck"] <= 1
       /\ chain # {} => others = {}

\* A response "ok" to a new configuration of an active module means that the
\* module holds it.
ConfigOkIsInModule ==
    [][ \A r \in Requests :
          Kind[r] = "module_set_config" /\ m.active /\ m.replies[r] = <<>>
              /\ Ok \in ToSet(m'.replies[r])
            => m'.moduleConfig = NewConfig[r] ]_vars

\* A module that counts as being activated has a command under way that ends
\* the activation: otherwise reactivateCheck would never activate it again.
ActivatingIsUnderWay ==
    m.activating => \E i \in DOMAIN m.bus : m.bus[i].kind \in ActivationCommands

\* The outputs belong to clients that are there, never to one that left
\* (whoSetOutput holds pointers to their sockets).
NoDanglingSetter == \A p \in Ports : m.whoSetOutput[p] \in clients \cup {Nobody}

\* An output that belongs to nobody is wanted safe: what a client set is undone
\* when it leaves or gives its outputs up.
UnsetIsSafe ==
    m.config # None /\ m.active =>
        \A p \in Ports : m.whoSetOutput[p] = Nobody =>
            m.outputsWant[p] = Safe[m.config][p]

\* When every request for a configuration was answered "ok", an active module
\* holds the configuration that the daemon tells its clients.
ConfigAgrees ==
    Quiet /\ m.active /\ ~m.inBootloader
        /\ (\A r \in ToSet(asked) : Kind[r] = "module_set_config" =>
                m.replies[r] = <<Ok>>)
    => m.config = m.moduleConfig

\* "When disconnect event occurs, error responses to affected pending commands
\* are sent" (tcp-protocol/messages.md): a closed port leaves no request without
\* a response.
DisconnectAnswers == port = "closed" /\ Quiet => LeftOver = {}

\* "Prevent disconnected clients who started an ongoing operation (e.g. module
\* reboot) to crash the server" (server.cpp): nothing is written to a client
\* that left.
NoDeletedSocket == m.fault # "deleted socket"

\* No undefined behaviour is reached, and no exception where none is caught.
NoFault == m.fault = None

\* "When connection with MTB-USB fails, daemon reports this event to clients and
\* keeps running" (README.md): the error callbacks of the commands that were
\* under way throw nothing, for nothing would catch it.
ClosingKeepsRunning == port # "open" => m.fault = None
=============================================================================
