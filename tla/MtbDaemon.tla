----------------------------- MODULE MtbDaemon -----------------------------
(***************************************************************************)
(* The daemon between MTB-USB, the modules and the clients (class          *)
(* DaemonCoreApplication): the chain of requests after the port was        *)
(* opened, the reconnection, the activation of every module that MTB-USB   *)
(* lists, the objects of the modules that come and go meanwhile, changes   *)
(* of the speed of MTBbus, and what clients hear of MTB-USB.               *)
(*                                                                         *)
(* The record d holds the members of the application, of MtbUsb as far as  *)
(* they are used here, and what is under way: commands handed to           *)
(* MtbUsb::send (bus, a service in the sense of CmdService: each ends once,*)
(* ok or with an error) and single-shot timers (retries and the two flags  *)
(* of pending events).  A member function is an operator from such a       *)
(* record to the record it leaves; an action is a whole handler.           *)
(*                                                                         *)
(* A module is an object of MtbRc, whose activation is one command, or of  *)
(* the base class (a type that the daemon does not know), which is never   *)
(* activated.  Reboots and upgrades are in MtbUni.  Every client has write *)
(* access and stays connected, and the ping is switched off ("keepAlive"). *)
(***************************************************************************)
EXTENDS Integers, Sequences, FiniteSets, SequencesExt

CONSTANTS
    Addr,         \* addresses of modules
    Types,        \* types of modules
    RcTypes,      \* those that newModule makes an MtbRc of
    Speeds,       \* speeds of MTBbus
    Clients,
    Requests,     \* the clients' requests to change the speed, each made once
    NewSpeed,     \* NewSpeed[r] is the speed that r asks for
    Files,        \* configuration files: [modules, speed]
    ATTEMPTS,     \* attemptsRemaining of a new activation
    MTB_MODULE_ACTIVATIONS,
    MAX_CHAINS,   \* bound: activations of one module at the same time
    Events,       \* what else may happen, see the actions
    Null          \* the null pointer; also: a client that was told nothing yet

None == "none"    \* no type: no module at the address
Unset == 0        \* a file without a speed

VARIABLES
    d,    \* the daemon
    usb   \* MTB-USB and the modules (external)

vars == <<d, usb>>

\* What an object of a module has in MtbModule, of which the members of reboots
\* and upgrades never change here.
Owns ==
    [active : BOOLEAN, activating : BOOLEAN, activationsRemaining : Nat,
     inBootloader : BOOLEAN, activatedByMtbUsb : BOOLEAN,
     rebooting : {FALSE}, onReboot : {None},
     configWriting : {None}, fwUpgrading : {None}, data : {0}, toWrite : {0},
     bus : {<<>>}, timers : {[t \in {"fwUpgdReqAck", "reboot"} |-> 0]},
     replies : {<<>>}, flash : {{}}, fault : {None}]

Objects == [type : Types, class : {"MtbRc", "MtbModule"}, own : Owns]

\* Whose callbacks a command carries that no client asked for.
Callers == {"daemon", "object", "deleted", "connect", "nobody"}

ASSUME MtbDaemonAssumption ==
    /\ IsFiniteSet(Addr)
    /\ RcTypes \subseteq Types
    /\ None \notin Types
    /\ Null \notin Objects
    /\ Requests \cap Callers = {}
    /\ Speeds \subseteq Nat \ {Unset}
    /\ NewSpeed \in [Requests -> Speeds]
    /\ Files \subseteq [modules : [Addr -> Types \cup {None}],
                        speed : Speeds \cup {Unset}]
    /\ ATTEMPTS \in Nat
    /\ MTB_MODULE_ACTIVATIONS \in Nat \ {0}
    /\ 0 \notin Addr

\* What every class of modules does, from MtbModule.
Mod == INSTANCE MtbModule WITH m <- d, clients <- Clients, Requests <- {},
           Kind <- <<>>, Socket <- <<>>, Malformed <- {}, Blocks <- 0

ClassOf(type) == IF type \in RcTypes THEN "MtbRc" ELSE "MtbModule"

\* newModule, and the type that its callers store in the object at once.
NewObject(type) ==
    [type |-> type, class |-> ClassOf(type), own |-> Mod!NewModule]

\* A command: its class; the module it goes to, or 0 for MTB-USB and
\* broadcasts; a speed or the attempts that remain; whose callbacks it carries.
Cmd(kind, to, arg, who) == [kind |-> kind, to |-> to, arg |-> arg, who |-> who]

Init ==
    /\ d = [alive |-> TRUE,
            open |-> FALSE,
            tReconnect |-> TRUE,
            known |-> {},            \* which of the two below have a value
            speed |-> Unset,         \* m_mtbUsbInfo.speed
            activeModules |-> {},
            fileSpeed |-> Unset,     \* config["mtb-usb"]["speed"]
            modules |-> [a \in Addr |-> Null],
            bus |-> <<>>,
            retries |-> [a \in Addr |-> [n \in 1 .. ATTEMPTS |-> 0]],
            newTimerPending |-> FALSE,
            failTimerPending |-> FALSE,
            topoSubscribes |-> {},
            asked |-> {},
            replies |-> [r \in Requests |-> <<>>],
            \* history: what a client heard last since it subscribed, the
            \* modules that are left alone, a change of the speed that failed
            told |-> [c \in Clients |-> Null],
            gaveUp |-> {},
            speedFailed |-> FALSE]
    /\ \E s \in Speeds, p \in [Addr -> Types \cup {None}] :
          usb = [present |-> p, list |-> {}, speed |-> s, busSpeed |-> s]

Send(s, cmd) == [s EXCEPT !.bus = Append(@, cmd)]

Own(s, a) == s.modules[a].own

IsActive(s, a) == s.modules[a] # Null /\ Own(s, a).active

IsActivating(s, a) == s.modules[a] # Null /\ Own(s, a).activating

\* The object of a is destroyed; commands may still point to it.
Orphaned(bus, a) ==
    [i \in DOMAIN bus |->
        IF bus[i].kind = "Inputs" /\ bus[i].to = a
        THEN [bus[i] EXCEPT !.who = "deleted"]
        ELSE bus[i]]

-----------------------------------------------------------------------------
(* What clients hear *)

\* mtbUsbJson without the constant members and the speed.
MtbUsbJson(s) ==
    IF s.open /\ s.known = {"info", "modules"}
    THEN [connected |-> TRUE, active_modules |-> s.activeModules]
    ELSE [connected |-> FALSE, active_modules |-> {}]

\* server.send of mtbUsbEvent to some clients, of whom those that subscribed to
\* the topology are of interest.
Tell(s, clients) ==
    [s EXCEPT !.told = [c \in Clients |->
        IF c \in clients \cap s.topoSubscribes THEN MtbUsbJson(s) ELSE @[c]]]

Reply(s, r, status) == [s EXCEPT !.replies[r] = Append(@, status)]

-----------------------------------------------------------------------------
(* Activation of modules *)

ActivateModule(s, a, attemptsRemaining) ==
    [Send(s, Cmd("Info", a, attemptsRemaining, "daemon"))
        EXCEPT !.gaveUp = IF attemptsRemaining = ATTEMPTS THEN @ \ {a} ELSE @]

\* What reactivateCheck looks for; the base class never activates.
Reactivates(s, a) ==
    /\ s.modules[a] # Null
    /\ s.modules[a].class = "MtbRc"
    /\ ~Own(s, a).activating
    /\ Own(s, a).activationsRemaining > 0
    /\ ~Own(s, a).active

\* MtbRc::activate
Activate(s, a) ==
    [Send(s, Cmd("Inputs", a, 0, "object"))
        EXCEPT !.modules[a].own.activating = TRUE]

\* moduleGotInfo and mtbBusActivate of the class of the object.
ModuleGotInfo(s, a, type, bootloader) ==
    LET old == s.modules[a]
        mismatch == old # Null /\ old.type # type
        object == IF old = Null \/ mismatch THEN NewObject(type) ELSE old
        t == [s EXCEPT !.modules[a] =
                          [object EXCEPT !.own = Mod!ModuleActivate(@, bootloader)],
                       !.bus = IF mismatch THEN Orphaned(@, a) ELSE @]
    IN CASE object.class # "MtbRc" -> t
         [] object.class = "MtbRc" /\ bootloader ->
              [t EXCEPT !.modules[a].own.active = TRUE]
         [] OTHER -> Activate(t, a)

\* The error callback of the request for the information of a module.
NoInfo(s, a, attemptsRemaining) ==
    IF attemptsRemaining > 0
    THEN [s EXCEPT !.retries[a][attemptsRemaining] = @ + 1]
    ELSE [s EXCEPT !.gaveUp = @ \cup {a}]

\* The error callback of MtbRc::activate.
NoInputs(s, a) ==
    [s EXCEPT !.modules[a].own = Mod!ActivationError(@),
              !.gaveUp = IF Own(s, a).activationsRemaining = 1
                         THEN @ \cup {a} ELSE @]

-----------------------------------------------------------------------------
(* Speed of MTBbus *)

\* Mutants, bugs that the properties have to notice, stand before what they
\* replace; here: MTB-USB follows without waiting for the broadcasts.
ChangeSpeedAtOnce(s, speed, who) ==
    IF s.open /\ "info" \in s.known
    THEN Send(Send(s, Cmd("BusSpeed", 0, speed, "nobody")),
              Cmd("UsbSpeed", 0, speed, who))
    ELSE s

\* MtbUsb::changeSpeed: modules first, then MTB-USB in the ok callback of the
\* third broadcast.
ChangeSpeed(s, speed, who) ==
    IF s.open /\ "info" \in s.known
    THEN Send(Send(Send(s, Cmd("BusSpeed", 0, speed, "nobody")),
                   Cmd("BusSpeed", 0, speed, "nobody")),
              Cmd("BusSpeed", 0, speed, who))
    ELSE s

SpeedCmds == {"BusSpeed", "UsbSpeed"}

SpeedChanges(s) == \E i \in DOMAIN s.bus : s.bus[i].kind \in SpeedCmds

MtbUsbProperSpeedSet(s) == Send(s, Cmd("UsbModules", 0, 0, "connect"))

MtbUsbGotInfo(s) ==
    IF s.fileSpeed \in {Unset, s.speed}
    THEN MtbUsbProperSpeedSet(s)
    ELSE ChangeSpeed(s, s.fileSpeed, "connect")

\* The ok callbacks of a change of MTB-USB's own speed.
UsbSpeedSet(s, speed, who) ==
    LET t == [s EXCEPT !.speed = speed]
    IN IF who = "connect" THEN MtbUsbProperSpeedSet(t) ELSE Reply(t, who, "ok")

-----------------------------------------------------------------------------
(* The port *)

\* mtbUsbGotModules: activateModule of every module that MTB-USB lists.
MtbUsbGotModules(s) ==
    LET q == SetToSeq(s.activeModules)
    IN [Tell(s, Clients) EXCEPT
           !.bus = @ \o [i \in DOMAIN q |-> Cmd("Info", q[i], ATTEMPTS, "daemon")],
           !.gaveUp = @ \ s.activeModules]

\* mtbUsbConnect, of a port that can be opened, and mtbUsbOnConnect.
MtbUsbConnect(s) ==
    Send([s EXCEPT !.open = TRUE], Cmd("UsbInfo", 0, 0, "connect"))

\* Commands whose error callback calls disconnect.
Fatal(cmd) == cmd.who = "connect"

\* Mutant: the third broadcast has no error callback, as the first two.
CallErrorOfUsbOnly(s, cmd) ==
    CASE cmd.who = "deleted" -> [s EXCEPT !.alive = FALSE]
      [] cmd.kind = "Info" -> NoInfo(s, cmd.to, cmd.arg)
      [] cmd.kind = "Inputs" /\ cmd.who = "object" -> NoInputs(s, cmd.to)
      [] cmd.kind = "UsbSpeed" ->
           [Reply(s, cmd.who, "error") EXCEPT !.speedFailed = TRUE]
      [] OTHER -> s

\* The error callback of a command that is not fatal.  A callback into a deleted
\* object is undefined; here the process ends.
CallError(s, cmd) ==
    CASE cmd.who = "deleted" -> [s EXCEPT !.alive = FALSE]
      [] cmd.kind = "Info" -> NoInfo(s, cmd.to, cmd.arg)
      [] cmd.kind = "Inputs" /\ cmd.who = "object" -> NoInputs(s, cmd.to)
      [] cmd.kind \in SpeedCmds /\ cmd.who \in Requests ->
           [Reply(s, cmd.who, "error") EXCEPT !.speedFailed = TRUE]
      [] OTHER -> s

\* mtbUsbOnDisconnect
MtbUsbOnDisconnect(s) ==
    [Tell(s, Clients) EXCEPT
        !.modules = [a \in Addr |->
            IF @[a] = Null THEN Null ELSE [@[a] EXCEPT !.own.active = FALSE]],
        !.tReconnect = TRUE]

\* MtbUsb::disconnect.  A fatal command among those that wait closes the port
\* again from within, without end.
Disconnect(s) ==
    IF \E i \in DOMAIN s.bus : Fatal(s.bus[i])
    THEN [s EXCEPT !.alive = FALSE]
    ELSE MtbUsbOnDisconnect(
            [FoldLeft(CallError, s, s.bus)
                EXCEPT !.bus = <<>>, !.known = {}, !.open = FALSE,
                       !.speed = Unset, !.activeModules = {}])

-----------------------------------------------------------------------------
(* Ends of commands *)

\* Answers come in the order of the commands to the same module; those of
\* MTB-USB and of broadcasts in the order of all of these.
IsNext(i) ==
    /\ i \in DOMAIN d.bus
    /\ \A j \in 1 .. (i - 1) : d.bus[j].to # d.bus[i].to

Without(i) == [d EXCEPT !.bus = RemoveAt(@, i)]

\* The device carries out a command (external): modules hear broadcasts of
\* their own speed.
CarriedOut(cmd) ==
    CASE cmd.kind = "BusSpeed" /\ usb.busSpeed = usb.speed ->
           [usb EXCEPT !.busSpeed = cmd.arg]
      [] cmd.kind = "UsbSpeed" -> [usb EXCEPT !.speed = cmd.arg]
      [] OTHER -> usb

Hears(a) == usb.present[a] # None /\ usb.busSpeed = usb.speed

\* MTB-USB's own answers, with their ok callbacks.
UsbAnswers(i) ==
    /\ d.alive
    /\ IsNext(i) /\ d.bus[i].to = 0
    /\ usb' = CarriedOut(d.bus[i])
    /\ LET cmd == d.bus[i]
           s == Without(i)
       IN d' = CASE cmd.kind = "UsbInfo" ->
                      MtbUsbGotInfo([s EXCEPT !.known = @ \cup {"info"},
                                              !.speed = usb.speed])
                 [] cmd.kind = "UsbModules" ->
                      MtbUsbGotModules([s EXCEPT !.known = @ \cup {"modules"},
                                                 !.activeModules = usb.list])
                 [] cmd.kind = "BusSpeed" /\ cmd.who # "nobody" ->
                      Send(s, Cmd("UsbSpeed", 0, cmd.arg, cmd.who))
                 [] cmd.kind = "UsbSpeed" -> UsbSpeedSet(s, cmd.arg, cmd.who)
                 [] OTHER -> s

\* A module's information.
ModuleInfo(i) ==
    /\ d.alive
    /\ IsNext(i) /\ d.bus[i].kind = "Info"
    /\ Hears(d.bus[i].to)
    /\ \E bootloader \in IF "bootloader" \in Events THEN BOOLEAN ELSE {FALSE} :
          d' = ModuleGotInfo(Without(i), d.bus[i].to,
                             usb.present[d.bus[i].to], bootloader)
    /\ UNCHANGED usb

\* MtbRc::inputsRead
InputsRead(i) ==
    /\ d.alive
    /\ IsNext(i) /\ d.bus[i].kind = "Inputs"
    /\ Hears(d.bus[i].to)
    /\ d' = IF d.bus[i].who = "deleted"
            THEN [d EXCEPT !.alive = FALSE]
            ELSE [Without(i) EXCEPT !.modules[d.bus[i].to].own =
                                        Mod!FullyActivated(@)]
    /\ UNCHANGED usb

\* A command ends with an error; the device may have carried it out.
CmdFails(i) ==
    /\ d.alive
    /\ IsNext(i)
    /\ usb' \in {usb, CarriedOut(d.bus[i])}
    /\ d' = IF Fatal(d.bus[i])
            THEN Disconnect([Without(i) EXCEPT
                    !.speedFailed = @ \/ d.bus[i].kind \in SpeedCmds])
            ELSE CallError(Without(i), d.bus[i])

-----------------------------------------------------------------------------
(* Timers *)

\* Single-shot timers run 500 ms.
NoSingleShot ==
    /\ \A a \in Addr, n \in 1 .. ATTEMPTS : d.retries[a][n] = 0
    /\ ~d.newTimerPending /\ ~d.failTimerPending

\* Mutant: the timer is stopped by the next tick only.
TReconnectTickRunsOn ==
    /\ d.alive
    /\ d.tReconnect /\ NoSingleShot
    /\ d' = IF d.open
            THEN Disconnect([d EXCEPT !.tReconnect = FALSE])
            ELSE MtbUsbConnect(d)
    /\ UNCHANGED usb

\* tReconnectTick, when a port is found and can be opened; otherwise it changes
\* nothing.  Opening an open port is an error of the port, which closes it.
\* The tick comes 1 s after the port was closed: what was started before fired.
TReconnectTick ==
    /\ d.alive
    /\ d.tReconnect /\ NoSingleShot
    /\ LET s == [d EXCEPT !.tReconnect = FALSE]
       IN d' = IF d.open THEN Disconnect(s) ELSE MtbUsbConnect(s)
    /\ UNCHANGED usb

\* tReactivateTick: MtbRc::activate of every module that reactivateCheck finds.
TReactivateTick ==
    LET again == {a \in Addr : Reactivates(d, a)}
        q == SetToSeq(again)
    IN /\ d.alive /\ d.open /\ again # {}
       /\ d' = [d EXCEPT
                 !.bus = @ \o [i \in DOMAIN q |-> Cmd("Inputs", q[i], 0, "object")],
                 !.modules = [a \in Addr |-> IF a \in again
                                             THEN [@[a] EXCEPT !.own.activating = TRUE]
                                             ELSE @[a]]]
       /\ UNCHANGED usb

\* The timer that a failed request for the information of a started, 500 ms.
Retry(a, n) ==
    /\ d.alive
    /\ d.retries[a][n] > 0
    /\ LET s == [d EXCEPT !.retries[a][n] = @ - 1]
       IN d' = IF d.open /\ ~IsActive(d, a) /\ ~IsActivating(d, a)
               THEN ActivateModule(s, a, n - 1)
               ELSE s
    /\ UNCHANGED usb

\* The two timers of mtbUsbOnNewModule and mtbUsbOnModuleFail.
NewTimer ==
    /\ d.alive
    /\ d.newTimerPending
    /\ d' = Tell([d EXCEPT !.newTimerPending = FALSE], d.topoSubscribes)
    /\ UNCHANGED usb

FailTimer ==
    /\ d.alive
    /\ d.failTimerPending
    /\ d' = Tell([d EXCEPT !.failTimerPending = FALSE], d.topoSubscribes)
    /\ UNCHANGED usb

-----------------------------------------------------------------------------
(* What MTB-USB announces *)

\* Mutant: a module that has an object counts as known.
MtbUsbOnNewModuleOnce(s, a) ==
    [IF s.modules[a] # Null THEN s ELSE ActivateModule(s, a, ATTEMPTS)
        EXCEPT !.newTimerPending = TRUE]

MtbUsbOnNewModule(s, a) ==
    [IF IsActive(s, a) THEN s ELSE ActivateModule(s, a, ATTEMPTS)
        EXCEPT !.newTimerPending = TRUE]

\* Mutant: the event is left out with the object.
MtbUsbOnModuleFailOfObject(s, a) ==
    IF s.modules[a] = Null
    THEN s
    ELSE [s EXCEPT !.failTimerPending = TRUE, !.modules[a].own = Mod!MtbBusLost(@)]

MtbUsbOnModuleFail(s, a) ==
    LET t == [s EXCEPT !.failTimerPending = TRUE]
    IN IF t.modules[a] = Null
       THEN t
       ELSE [t EXCEPT !.modules[a].own = Mod!MtbBusLost(@)]

\* Activations of a that are under way.
Chains(a) ==
    Cardinality({i \in DOMAIN d.bus : d.bus[i].to = a})
    + FoldFunction(+, 0, d.retries[a])

\* MTB-USB found a module.  Announcements are ignored until its list is known.
NewModule(a) ==
    /\ d.alive
    /\ usb.present[a] # None /\ a \notin usb.list
    /\ Chains(a) < MAX_CHAINS
    /\ usb' = [usb EXCEPT !.list = @ \cup {a}]
    /\ d' = IF "modules" \in d.known
            THEN MtbUsbOnNewModule(
                    [d EXCEPT !.activeModules = @ \cup {a}], a)
            ELSE d

\* MTB-USB lost a module, which may still be there ("noise").
ModuleFailed(a) ==
    /\ d.alive
    /\ "fail" \in Events
    /\ a \in usb.list
    /\ usb' = [usb EXCEPT !.list = @ \ {a}]
    /\ d' = IF "modules" \in d.known
            THEN MtbUsbOnModuleFail([d EXCEPT !.activeModules = @ \ {a}], a)
            ELSE d

\* Somebody exchanges a module that failed: that takes longer than all attempts
\* to activate it and than late answers.
Exchange(a, type) ==
    /\ d.alive
    /\ "exchange" \in Events
    /\ a \notin usb.list /\ usb.present[a] # type
    /\ \A i \in DOMAIN d.bus : d.bus[i].to # a
    /\ \A n \in 1 .. ATTEMPTS : d.retries[a][n] = 0
    /\ ~Reactivates(d, a) /\ ~IsActive(d, a)
    /\ usb' = [usb EXCEPT !.present[a] = type]
    /\ UNCHANGED d

\* spHandleError: the port failed.
SpHandleError ==
    /\ d.alive
    /\ "unplug" \in Events
    /\ d.open
    /\ d' = Disconnect(d)
    /\ UNCHANGED usb

-----------------------------------------------------------------------------
(* Requests of clients *)

ServerCmdMtbusb(c) ==
    /\ d.alive
    /\ c \in d.topoSubscribes
    /\ d' = [d EXCEPT !.told[c] = MtbUsbJson(d)]
    /\ UNCHANGED usb

\* The same command with a speed.  Only the event "overlap"
\* allows two changes at the same time.
ServerCmdMtbusbSpeed(r) ==
    /\ d.alive
    /\ r \notin d.asked
    /\ "overlap" \in Events \/ ~SpeedChanges(d)
    /\ LET s == [d EXCEPT !.asked = @ \cup {r}]
       IN d' = CASE "info" \notin d.known -> Reply(s, r, "error")
                 [] "info" \in d.known /\ d.speed = NewSpeed[r] -> Reply(s, r, "ok")
                 [] OTHER -> ChangeSpeed(s, NewSpeed[r], r)
    /\ UNCHANGED usb

ServerCmdTopoSubscribe(c) ==
    /\ d.alive
    /\ d' = [d EXCEPT !.topoSubscribes = @ \cup {c}]
    /\ UNCHANGED usb

ServerCmdTopoUnsubscribe(c) ==
    /\ d.alive
    /\ d' = [d EXCEPT !.topoSubscribes = @ \ {c}, !.told[c] = Null]
    /\ UNCHANGED usb

\* module_set_config with a type.  An object keeps its class when its type
\* changes, which the event "retype" allows.
ServerCmdModuleSetConfig(a, type) ==
    /\ d.alive
    /\ "config" \in Events
    /\ d.modules[a] = Null \/ "retype" \in Events
    /\ ~IsActive(d, a)
    /\ d' = [d EXCEPT !.modules[a] =
                 IF @ = Null THEN NewObject(type) ELSE [@ EXCEPT !.type = type]]
    /\ UNCHANGED usb

\* Mutant: a file replaces an object of another type.
LoadConfigReplaces(s, file) ==
    LET replaced == {a \in Addr : /\ file.modules[a] # None
                                  /\ \/ s.modules[a] = Null
                                     \/ s.modules[a].type # file.modules[a]}
    IN [s EXCEPT !.fileSpeed = file.speed,
                 !.modules = [a \in Addr |->
                     IF a \in replaced THEN NewObject(file.modules[a]) ELSE @[a]],
                 !.bus = [i \in DOMAIN @ |->
                     IF @[i].kind = "Inputs" /\ @[i].to \in replaced
                     THEN [@[i] EXCEPT !.who = "deleted"] ELSE @[i]]]

\* loadConfig: an object that exists keeps its type.
LoadConfig(s, file) ==
    [s EXCEPT !.fileSpeed = file.speed,
              !.modules = [a \in Addr |->
                  IF @[a] = Null /\ file.modules[a] # None
                  THEN NewObject(file.modules[a])
                  ELSE @[a]]]

\* load_config of a file that can be read; also what the constructor reads.
ServerCmdLoadConfig(file) ==
    /\ d.alive
    /\ "config" \in Events
    /\ d' = LoadConfig(d, file)
    /\ UNCHANGED usb

\* module_delete.  The event "pending" allows it while a callback points to the
\* object.
ServerCmdModuleDelete(a) ==
    /\ d.alive
    /\ "delete" \in Events
    /\ d.modules[a] # Null
    /\ ~IsActive(d, a) /\ ~IsActivating(d, a)
    /\ "pending" \in Events \/ Orphaned(d.bus, a) = d.bus
    /\ d' = [d EXCEPT !.modules[a] = Null,
                      !.bus = Orphaned(@, a),
                      !.gaveUp = @ \cup {a}]
    /\ UNCHANGED usb

-----------------------------------------------------------------------------

Next ==
    \/ \E i \in DOMAIN d.bus :
          UsbAnswers(i) \/ ModuleInfo(i) \/ InputsRead(i) \/ CmdFails(i)
    \/ TReconnectTick \/ TReactivateTick \/ NewTimer \/ FailTimer
    \/ \E a \in Addr, n \in 1 .. ATTEMPTS : Retry(a, n)
    \/ \E a \in Addr : NewModule(a) \/ ModuleFailed(a) \/ ServerCmdModuleDelete(a)
    \/ \E a \in Addr, t \in Types : ServerCmdModuleSetConfig(a, t)
    \/ \E a \in Addr, t \in Types \cup {None} : Exchange(a, t)
    \/ SpHandleError
    \/ \E c \in Clients : \/ ServerCmdMtbusb(c)
                         \/ ServerCmdTopoSubscribe(c)
                         \/ ServerCmdTopoUnsubscribe(c)
    \/ \E r \in Requests : ServerCmdMtbusbSpeed(r)
    \/ \E f \in Files : ServerCmdLoadConfig(f)
    \/ ~d.alive /\ UNCHANGED vars  \* the process ended

Spec == Init /\ [][Next]_vars

-----------------------------------------------------------------------------
(* Properties *)

\* The daemon looks for the port exactly while it is closed: it neither stops
\* looking (README.md: it "keeps running") nor opens an open port, which would
\* close it (mtbUsbOnDisconnect, tReconnectTick).
ReconnectsWhileClosed == d.alive => (d.tReconnect <=> ~d.open)

\* A module that MTB-USB lists is active, of a type nobody can activate, or its
\* activation goes on by a command, a timer or the next tick - until its
\* attempts are used up or a client deletes it.
ListedIsLookedAfter ==
    d.alive => \A a \in d.activeModules \ d.gaveUp :
        \/ IsActive(d, a)
        \/ \E i \in DOMAIN d.bus : d.bus[i].to = a
        \/ \E n \in 1 .. ATTEMPTS : d.retries[a][n] > 0
        \/ /\ d.modules[a] # Null
           /\ d.modules[a].class = "MtbRc" => Reactivates(d, a)

\* No command has its callbacks in an object that was destroyed: "there could
\* be MTBbus command with 'this' pointer pending. Destroying module in this
\* situation would cause segfault" (main.cpp, loadConfig).
NoDeletedModule == \A i \in DOMAIN d.bus : d.bus[i].who # "deleted"

\* Who subscribed to the topology, and knew the modules once, knows them still
\* or will be told by a timer that runs.
SubscribersKnow ==
    d.alive => \A c \in d.topoSubscribes :
        \/ d.told[c] \in {Null, MtbUsbJson(d)}
        \/ d.newTimerPending \/ d.failTimerPending

\* A request to change the speed has one response as soon as none of its
\* commands is under way, and none before.
SpeedAnswered ==
    d.alive => \A r \in Requests :
        Len(d.replies[r]) =
            IF r \in d.asked /\ (\A i \in DOMAIN d.bus : d.bus[i].who # r)
            THEN 1 ELSE 0

\* After changes of the speed that all went well, MTB-USB, the modules and the
\* daemon's idea of them agree.
SpeedsAgree ==
    d.alive /\ ~d.speedFailed /\ ~SpeedChanges(d) =>
        /\ usb.busSpeed = usb.speed
        /\ "info" \in d.known => d.speed = usb.speed
=============================================================================
