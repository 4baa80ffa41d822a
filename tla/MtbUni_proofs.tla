---------------------------- MODULE MtbUni_proofs ----------------------------
(***************************************************************************)
(* Theorems of MtbUni, for any requests, outputs and configurations.       *)
(*                                                                         *)
(* A handler is a chain of operators from an object to the object it       *)
(* leaves.  Most of them only carry on (CarriesOn): what is under way      *)
(* stays so, no output gets an owner, and no activation begins.  One lemma *)
(* per operator says so; the few that do more have lemmas of their own.    *)
(***************************************************************************)
EXTENDS MtbUni, SequenceFacts, FiniteSetTheorems

Fields ==
    {"active", "activating", "activationsRemaining", "inBootloader",
     "rebooting", "activatedByMtbUsb", "onReboot", "configWriting",
     "fwUpgrading", "data", "toWrite", "bus", "timers", "replies", "flash",
     "fault", "outputsWant", "outputsConfirmed", "whoSetOutput",
     "setOutputsWaiting", "setOutputsSent", "config", "configToWrite",
     "attempts", "moduleConfig"}

\* A record with these fields, and each field of its type: Objects in pieces
\* that the provers can handle.
Shaped(s) == s = [f \in Fields |-> s[f]]

Typed(s) ==
    /\ s.active \in BOOLEAN
    /\ s.activating \in BOOLEAN
    /\ s.activationsRemaining \in 0 .. MTB_MODULE_ACTIVATIONS
    /\ s.inBootloader \in BOOLEAN
    /\ s.rebooting \in BOOLEAN
    /\ s.activatedByMtbUsb \in BOOLEAN
    /\ s.onReboot \in Requests \cup {None, "upgrade"}
    /\ s.configWriting \in Requests \cup {None, Nobody}
    /\ s.fwUpgrading \in Requests \cup {None, Nobody}
    /\ s.data \in 0 .. Blocks
    /\ s.toWrite \in 0 .. Blocks
    /\ s.bus \in Seq(BusCommands)
    /\ s.timers \in [{"fwUpgdReqAck", "reboot"} -> Nat]
    /\ s.replies \in [Requests -> Seq(Responses)]
    /\ s.flash \in SUBSET (1 .. Blocks)
    /\ s.fault \in {None, "no upgrade", "deleted socket", "toWrite"}
    /\ s.outputsWant \in [Ports -> Values]
    /\ s.outputsConfirmed \in [Ports -> Values]
    /\ s.whoSetOutput \in [Ports -> {Socket[r] : r \in Requests} \cup {Nobody}]
    /\ s.setOutputsWaiting \in Seq(Requests \cup {Nobody})
    /\ s.setOutputsSent \in Seq(Requests \cup {Nobody})
    /\ s.config \in Configs \cup {None}
    /\ s.configToWrite \in Configs \cup {None}
    /\ s.attempts \in [1 .. ATTEMPTS -> Nat]
    /\ s.moduleConfig \in Configs

LEMMA ObjectType ==
  ASSUME NEW s, Shaped(s), Typed(s)
  PROVE  s \in Objects
<1>1. s = [outputsWant |-> s.outputsWant,
           outputsConfirmed |-> s.outputsConfirmed,
           whoSetOutput |-> s.whoSetOutput,
           setOutputsWaiting |-> s.setOutputsWaiting,
           setOutputsSent |-> s.setOutputsSent,
           config |-> s.config,
           configToWrite |-> s.configToWrite,
           attempts |-> s.attempts,
           moduleConfig |-> s.moduleConfig,
           active |-> s.active,
           activating |-> s.activating,
           activationsRemaining |-> s.activationsRemaining,
           inBootloader |-> s.inBootloader,
           rebooting |-> s.rebooting,
           activatedByMtbUsb |-> s.activatedByMtbUsb,
           onReboot |-> s.onReboot,
           configWriting |-> s.configWriting,
           fwUpgrading |-> s.fwUpgrading,
           data |-> s.data,
           toWrite |-> s.toWrite,
           bus |-> s.bus,
           timers |-> s.timers,
           replies |-> s.replies,
           flash |-> s.flash,
           fault |-> s.fault]
  BY SMTT(60) DEF Shaped, Fields
<1>. DEFINE Counts == 0 .. MTB_MODULE_ACTIVATIONS
            Rebooters == Requests \cup {None, "upgrade"}
            Writers == Requests \cup {None, Nobody}
            Positions == 0 .. Blocks
            Buses == Seq(BusCommands)
            Timers == [{"fwUpgdReqAck", "reboot"} -> Nat]
            Replies == [Requests -> Seq(Responses)]
            Flashes == SUBSET (1 .. Blocks)
            Faults == {None, "no upgrade", "deleted socket", "toWrite"}
            States == [Ports -> Values]
            Owners == [Ports -> {Socket[r] : r \in Requests} \cup {Nobody}]
            Lists == Seq(Requests \cup {Nobody})
            Optionals == Configs \cup {None}
            Attempts == [1 .. ATTEMPTS -> Nat]
<1>2. Objects =
        [active : BOOLEAN,
         activating : BOOLEAN,
         activationsRemaining : Counts,
         inBootloader : BOOLEAN,
         rebooting : BOOLEAN,
         activatedByMtbUsb : BOOLEAN,
         onReboot : Rebooters,
         configWriting : Writers,
         fwUpgrading : Writers,
         data : Positions,
         toWrite : Positions,
         bus : Buses,
         timers : Timers,
         replies : Replies,
         flash : Flashes,
         fault : Faults,
         outputsWant : States,
         outputsConfirmed : States,
         whoSetOutput : Owners,
         setOutputsWaiting : Lists,
         setOutputsSent : Lists,
         config : Optionals,
         configToWrite : Optionals,
         attempts : Attempts,
         moduleConfig : Configs]
  BY DEF Objects
<1>3. /\ s.active \in BOOLEAN
      /\ s.activating \in BOOLEAN
      /\ s.activationsRemaining \in Counts
      /\ s.inBootloader \in BOOLEAN
      /\ s.rebooting \in BOOLEAN
      /\ s.activatedByMtbUsb \in BOOLEAN
      /\ s.onReboot \in Rebooters
      /\ s.configWriting \in Writers
      /\ s.fwUpgrading \in Writers
      /\ s.data \in Positions
      /\ s.toWrite \in Positions
      /\ s.bus \in Buses
      /\ s.timers \in Timers
      /\ s.replies \in Replies
      /\ s.flash \in Flashes
      /\ s.fault \in Faults
      /\ s.outputsWant \in States
      /\ s.outputsConfirmed \in States
      /\ s.whoSetOutput \in Owners
      /\ s.setOutputsWaiting \in Lists
      /\ s.setOutputsSent \in Lists
      /\ s.config \in Optionals
      /\ s.configToWrite \in Optionals
      /\ s.attempts \in Attempts
      /\ s.moduleConfig \in Configs
  BY DEF Typed
<1>. HIDE DEF Counts, Rebooters, Writers, Positions, Buses, Timers, Replies, Flashes, Faults, States, Owners, Lists, Optionals, Attempts
<1>. QED BY <1>1, <1>2, <1>3, SMTT(60)

LEMMA ObjectShape ==
  ASSUME NEW s \in Objects
  PROVE  Shaped(s)
BY DEF Objects, Shaped, Fields

-----------------------------------------------------------------------------
(* Carrying on *)

\* What belongs to nobody is wanted safe, as the configuration of s says.
UnsetSafe(s) ==
    \A p \in Ports : s.whoSetOutput[p] = Nobody =>
        s.outputsWant[p] = Safe[s.config][p]

SafeWhileActive(s) == s.active => UnsetSafe(s)

\* From s to t the commands under way stay so and no configuration is written
\* or asked for, no activation begins, outputs only lose their owners, and what
\* belongs to nobody stays safe.
Onward(s, t) ==
    /\ \A i \in DOMAIN s.bus : i \in DOMAIN t.bus /\ t.bus[i] = s.bus[i]
    /\ \A i \in DOMAIN t.bus :
          t.bus[i].kind \in {"SetConfig", "activate: GetConfig"} =>
              i \in DOMAIN s.bus
    /\ t.activating => s.activating
    /\ t.config = s.config
    /\ t.configToWrite = s.configToWrite
    /\ \A p \in Ports : t.whoSetOutput[p] \in {s.whoSetOutput[p], Nobody}
    /\ s.config # None /\ SafeWhileActive(s) => SafeWhileActive(t)

CarriesOn(s, t) == t \in Objects /\ Onward(s, t)

LEMMA OnwardRefl ==
  ASSUME NEW s \in Objects
  PROVE  CarriesOn(s, s)
BY DEF CarriesOn, Onward

LEMMA OnwardTrans ==
  ASSUME NEW s, NEW t, NEW u, CarriesOn(s, t), CarriesOn(t, u)
  PROVE  CarriesOn(s, u)
BY DEF CarriesOn, Onward

\* What is sent comes last; nothing else changes.
LEMMA SentFacts ==
  ASSUME NEW s \in Objects, NEW c \in BusCommands
  PROVE  LET t == Send(s, c)
         IN /\ t \in Objects
            /\ DOMAIN t.bus = DOMAIN s.bus \cup {Len(s.bus) + 1}
            /\ \A i \in DOMAIN s.bus : t.bus[i] = s.bus[i]
            /\ t.bus[Len(s.bus) + 1] = c
            /\ t.active = s.active
            /\ t.activating = s.activating
            /\ t.config = s.config
            /\ t.configToWrite = s.configToWrite
            /\ t.whoSetOutput = s.whoSetOutput
            /\ t.outputsWant = s.outputsWant
<1>. DEFINE t == Send(s, c)
<1>. s.bus \in Seq(BusCommands) BY DEF Objects
<1>1. /\ Append(s.bus, c) \in Seq(BusCommands)
      /\ DOMAIN Append(s.bus, c) = DOMAIN s.bus \cup {Len(s.bus) + 1}
      /\ \A i \in DOMAIN s.bus : Append(s.bus, c)[i] = s.bus[i]
      /\ Append(s.bus, c)[Len(s.bus) + 1] = c
  OBVIOUS
<1>2. Shaped(t) BY ObjectShape, Zenon DEF Shaped, Send
<1>3. Typed(t) BY <1>1 DEF Typed, Objects, Send
<1>4. /\ t.bus = Append(s.bus, c)
      /\ t.active = s.active
      /\ t.activating = s.activating
      /\ t.config = s.config
      /\ t.configToWrite = s.configToWrite
      /\ t.whoSetOutput = s.whoSetOutput
      /\ t.outputsWant = s.outputsWant
  BY DEF Objects, Send
<1>. HIDE DEF t
<1>5. t \in Objects BY <1>2, <1>3, ObjectType
<1>. QED BY <1>1, <1>4, <1>5 DEF t

LEMMA SendFacts ==
  ASSUME NEW s \in Objects, NEW c \in BusCommands,
         c.kind \notin {"SetConfig", "activate: GetConfig"}
  PROVE  CarriesOn(s, Send(s, c))
<1>. DEFINE t == Send(s, c)
            n == Len(s.bus) + 1
<1>1. /\ t \in Objects
      /\ DOMAIN t.bus = DOMAIN s.bus \cup {n}
      /\ \A i \in DOMAIN s.bus : t.bus[i] = s.bus[i]
      /\ t.bus[n] = c
      /\ t.active = s.active
      /\ t.activating = s.activating
      /\ t.config = s.config
      /\ t.configToWrite = s.configToWrite
      /\ t.whoSetOutput = s.whoSetOutput
      /\ t.outputsWant = s.outputsWant
  BY SentFacts
<1>. HIDE DEF t, n
<1>2. SafeWhileActive(s) => SafeWhileActive(t)
  BY <1>1, Zenon DEF SafeWhileActive, UnsetSafe
<1>. QED BY <1>1, <1>2 DEF CarriesOn, Onward, t

\* What most operators do: they leave the bus, the configurations and the
\* outputs that are wanted, with their owners, alone.
LEMMA SameBus ==
  ASSUME NEW s \in Objects, NEW t, Shaped(t), Typed(t),
         t.bus = s.bus, t.activating => s.activating, t.config = s.config,
         t.configToWrite = s.configToWrite, t.whoSetOutput = s.whoSetOutput,
         t.active => s.active, t.outputsWant = s.outputsWant
  PROVE  CarriesOn(s, t)
<1>1. t \in Objects BY ObjectType
<1>2. SafeWhileActive(s) => SafeWhileActive(t)
  BY Zenon DEF SafeWhileActive, UnsetSafe
<1>. QED BY <1>1, <1>2 DEF CarriesOn, Onward

LEMMA FaultFacts ==
  ASSUME NEW s \in Objects, NEW what \in {"no upgrade", "deleted socket", "toWrite"}
  PROVE  CarriesOn(s, Fault(s, what))
<1>. DEFINE t == Fault(s, what)
<1>1. Shaped(t) BY ObjectShape, Zenon DEF Shaped, Fault
<1>2. Typed(t) BY DEF Typed, Objects, Fault
<1>3. /\ t.bus = s.bus
      /\ t.activating = s.activating
      /\ t.config = s.config
      /\ t.configToWrite = s.configToWrite
      /\ t.whoSetOutput = s.whoSetOutput
      /\ t.active => s.active
      /\ t.outputsWant = s.outputsWant
  BY DEF Objects, Fault
<1>. QED BY <1>1, <1>2, <1>3, SameBus

LEMMA ReplyFacts ==
  ASSUME NEW s \in Objects, NEW r, NEW response \in Responses
  PROVE  CarriesOn(s, Reply(s, r, response))
<1>1. CASE r # Nobody /\ Socket[r] \in clients
  <2>. DEFINE t == [s EXCEPT !.replies[r] = Append(@, response)]
  <2>1. t = Reply(s, r, response) BY <1>1 DEF Reply
  <2>2. Shaped(t) BY ObjectShape, Zenon DEF Shaped
  <2>3. s.replies \in [Requests -> Seq(Responses)] BY DEF Objects
  <2>4. [s.replies EXCEPT ![r] = Append(@, response)] \in [Requests -> Seq(Responses)]
    <3>1. CASE r \in Requests
      <4>. Append(s.replies[r], response) \in Seq(Responses) BY <2>3, <3>1
      <4>. QED BY <2>3, <3>1
    <3>2. CASE r \notin Requests
      <4>. [s.replies EXCEPT ![r] = Append(@, response)] = s.replies
        BY <2>3, <3>2
      <4>. QED BY <2>3
    <3>. QED BY <3>1, <3>2
  <2>5. Typed(t) BY <2>4 DEF Typed, Objects
  <2>6. /\ t.bus = s.bus
        /\ t.activating = s.activating
        /\ t.config = s.config
        /\ t.configToWrite = s.configToWrite
        /\ t.whoSetOutput = s.whoSetOutput
        /\ t.active => s.active
        /\ t.outputsWant = s.outputsWant
    BY DEF Objects
  <2>. HIDE DEF t
  <2>. QED BY <2>1, <2>2, <2>5, <2>6, SameBus
<1>2. CASE ~(r # Nobody /\ Socket[r] \in clients)
  BY <1>2, OnwardRefl DEF Reply
<1>. QED BY <1>1, <1>2

LEMMA MtbBusLostFacts ==
  ASSUME NEW s \in Objects
  PROVE  CarriesOn(s, MtbBusLost(s))
<1>. DEFINE t == MtbBusLost(s)
<1>1. Shaped(t) BY ObjectShape, Zenon DEF Shaped, MtbBusLost
<1>. 0 \in 0 .. MTB_MODULE_ACTIVATIONS BY MtbUniAssumption
<1>2. Typed(t) BY DEF Typed, Objects, MtbBusLost
<1>3. /\ t.bus = s.bus
      /\ t.activating => s.activating
      /\ t.config = s.config
      /\ t.configToWrite = s.configToWrite
      /\ t.whoSetOutput = s.whoSetOutput
      /\ t.active => s.active
      /\ t.outputsWant = s.outputsWant
  BY DEF Objects, MtbBusLost
<1>. QED BY <1>1, <1>2, <1>3, SameBus

LEMMA Limits ==
  /\ MTB_MODULE_ACTIVATIONS \in Nat
  /\ Blocks \in Nat
  /\ \A s \in Objects : /\ s.activationsRemaining \in 0 .. MTB_MODULE_ACTIVATIONS
                       /\ s.data \in 0 .. Blocks
                       /\ s.toWrite \in 0 .. Blocks
<1>1. MTB_MODULE_ACTIVATIONS \in Nat /\ Blocks \in Nat BY MtbUniAssumption
<1>. QED BY <1>1 DEF Objects

LEMMA ModuleActivateFacts ==
  ASSUME NEW s \in Objects, NEW b \in BOOLEAN
  PROVE  CarriesOn(s, ModuleActivate(s, b))
<1>. DEFINE t == ModuleActivate(s, b)
<1>. MTB_MODULE_ACTIVATIONS \in 0 .. MTB_MODULE_ACTIVATIONS BY MtbUniAssumption
<1>1. Shaped(t) BY ObjectShape, Zenon DEF Shaped, ModuleActivate
<1>2. Typed(t) BY DEF Typed, Objects, ModuleActivate
<1>3. /\ t.bus = s.bus
      /\ t.activating => s.activating
      /\ t.config = s.config
      /\ t.configToWrite = s.configToWrite
      /\ t.whoSetOutput = s.whoSetOutput
      /\ t.active => s.active
      /\ t.outputsWant = s.outputsWant
  BY DEF Objects, ModuleActivate
<1>4. CarriesOn(s, t)
  <2>. HIDE DEF t
  <2>. QED BY <1>1, <1>2, <1>3, SameBus
<1>. QED BY <1>4

LEMMA ActivationErrorFacts ==
  ASSUME NEW s \in Objects
  PROVE  CarriesOn(s, ActivationError(s))
<1>. DEFINE t == ActivationError(s)
<1>. (IF s.activationsRemaining > 0 THEN s.activationsRemaining - 1 ELSE 0)
       \in 0 .. MTB_MODULE_ACTIVATIONS
  BY Limits
<1>1. Shaped(t) BY ObjectShape, Zenon DEF Shaped, ActivationError
<1>2. Typed(t) BY DEF Typed, Objects, ActivationError
<1>3. /\ t.bus = s.bus
      /\ t.activating => s.activating
      /\ t.config = s.config
      /\ t.configToWrite = s.configToWrite
      /\ t.whoSetOutput = s.whoSetOutput
      /\ t.active => s.active
      /\ t.outputsWant = s.outputsWant
  BY DEF Objects, ActivationError
<1>4. CarriesOn(s, t)
  <2>. HIDE DEF t
  <2>. QED BY <1>1, <1>2, <1>3, SameBus
<1>. QED BY <1>4

-----------------------------------------------------------------------------
(* Firmware upgrade and reboot *)

LEMMA ResponseTypes ==
  /\ Ok \in Responses
  /\ Error \in Responses
  /\ \A o \in [Ports -> Values] : OutputsOk(o) \in Responses
BY DEF Ok, Error, OutputsOk, Responses

LEMMA CommandTypes ==
  /\ \A k \in {"activate: GetConfig", "activate: GetInputs",
              "activate: ResetOutputs", "Reboot", "reboot: ModuleInfo",
              "FwUpgradeReq", "fw: ModuleInfo", "FwWriteFlashStatusRequest"} :
        Cmd(k) \in BusCommands /\ Cmd(k).kind = k
BY DEF Cmd, BusCommands

LEMMA SendErrorFacts ==
  ASSUME NEW s \in Objects, NEW r
  PROVE  CarriesOn(s, SendError(s, r))
BY OnwardRefl, FaultFacts, ReplyFacts, ResponseTypes DEF SendError

LEMMA UpgradeEndFacts ==
  ASSUME NEW s \in Objects
  PROVE  CarriesOn(s, [s EXCEPT !.fwUpgrading = None, !.data = 0])
<1>. DEFINE t == [s EXCEPT !.fwUpgrading = None, !.data = 0]
<1>. 0 \in 0 .. Blocks BY MtbUniAssumption
<1>1. Shaped(t) BY ObjectShape, Zenon DEF Shaped
<1>2. Typed(t) BY DEF Typed, Objects
<1>3. /\ t.bus = s.bus
      /\ t.activating => s.activating
      /\ t.config = s.config
      /\ t.configToWrite = s.configToWrite
      /\ t.whoSetOutput = s.whoSetOutput
      /\ t.active => s.active
      /\ t.outputsWant = s.outputsWant
  BY DEF Objects
<1>4. CarriesOn(s, t)
  <2>. HIDE DEF t
  <2>. QED BY <1>1, <1>2, <1>3, SameBus
<1>. QED BY <1>4

LEMMA FwUpgdErrorFacts ==
  ASSUME NEW s \in Objects
  PROVE  CarriesOn(s, FwUpgdError(s))
<1>1. CASE s.fwUpgrading = None
  BY <1>1, FaultFacts DEF FwUpgdError
<1>2. CASE s.fwUpgrading # None
  <2>. DEFINE t == Reply(s, s.fwUpgrading, Error)
  <2>1. CarriesOn(s, t) BY ReplyFacts, ResponseTypes
  <2>2. CarriesOn(t, [t EXCEPT !.fwUpgrading = None, !.data = 0])
    BY <2>1, UpgradeEndFacts DEF CarriesOn
  <2>. QED BY <1>2, <2>1, <2>2, OnwardTrans DEF FwUpgdError
<1>. QED BY <1>1, <1>2

LEMMA FwUpgdRebootedFacts ==
  ASSUME NEW s \in Objects
  PROVE  CarriesOn(s, FwUpgdRebooted(s))
<1>1. CASE s.inBootloader \/ s.fwUpgrading = None
  BY <1>1, FwUpgdErrorFacts DEF FwUpgdRebooted
<1>2. CASE ~(s.inBootloader \/ s.fwUpgrading = None)
  <2>. DEFINE t == Reply(s, s.fwUpgrading, Ok)
  <2>1. CarriesOn(s, t) BY ReplyFacts, ResponseTypes
  <2>2. CarriesOn(t, [t EXCEPT !.fwUpgrading = None, !.data = 0])
    BY <2>1, UpgradeEndFacts DEF CarriesOn
  <2>. QED BY <1>2, <2>1, <2>2, OnwardTrans DEF FwUpgdRebooted
<1>. QED BY <1>1, <1>2

LEMMA RebootBeginsFacts ==
  ASSUME NEW s \in Objects, NEW who \in Requests \cup {"upgrade"}
  PROVE  CarriesOn(s, [s EXCEPT !.rebooting = TRUE, !.onReboot = who,
                            !.activatedByMtbUsb = FALSE])
<1>. DEFINE t == [s EXCEPT !.rebooting = TRUE, !.onReboot = who,
                            !.activatedByMtbUsb = FALSE]
<1>1. Shaped(t) BY ObjectShape, Zenon DEF Shaped
<1>2. Typed(t) BY DEF Typed, Objects
<1>3. /\ t.bus = s.bus
      /\ t.activating => s.activating
      /\ t.config = s.config
      /\ t.configToWrite = s.configToWrite
      /\ t.whoSetOutput = s.whoSetOutput
      /\ t.active => s.active
      /\ t.outputsWant = s.outputsWant
  BY DEF Objects
<1>4. CarriesOn(s, t)
  <2>. HIDE DEF t
  <2>. QED BY <1>1, <1>2, <1>3, SameBus
<1>. QED BY <1>4

LEMMA RebootFacts ==
  ASSUME NEW s \in Objects, NEW who \in Requests \cup {"upgrade"}
  PROVE  CarriesOn(s, Reboot(s, who))
<1>1. CASE s.rebooting
  BY <1>1, OnwardRefl DEF Reboot
<1>2. CASE ~s.rebooting
  <2>. DEFINE t == MtbBusLost(s)
              u == [t EXCEPT !.rebooting = TRUE, !.onReboot = who,
                             !.activatedByMtbUsb = FALSE]
  <2>1. CarriesOn(s, t) BY MtbBusLostFacts
  <2>2. CarriesOn(t, u) BY <2>1, RebootBeginsFacts DEF CarriesOn
  <2>3. CarriesOn(u, Send(u, Cmd("Reboot")))
    BY <2>2, SendFacts, CommandTypes DEF CarriesOn
  <2>4. Reboot(s, who) = Send(u, Cmd("Reboot")) BY <1>2 DEF Reboot
  <2>. HIDE DEF t, u
  <2>. QED BY <2>1, <2>2, <2>3, <2>4, OnwardTrans
<1>. QED BY <1>1, <1>2

LEMMA NotRebootingFacts ==
  ASSUME NEW s \in Objects
  PROVE  CarriesOn(s, [s EXCEPT !.rebooting = FALSE])
<1>. DEFINE t == [s EXCEPT !.rebooting = FALSE]
<1>1. Shaped(t) BY ObjectShape, Zenon DEF Shaped
<1>2. Typed(t) BY DEF Typed, Objects
<1>3. /\ t.bus = s.bus
      /\ t.activating => s.activating
      /\ t.config = s.config
      /\ t.configToWrite = s.configToWrite
      /\ t.whoSetOutput = s.whoSetOutput
      /\ t.active => s.active
      /\ t.outputsWant = s.outputsWant
  BY DEF Objects
<1>4. CarriesOn(s, t)
  <2>. HIDE DEF t
  <2>. QED BY <1>1, <1>2, <1>3, SameBus
<1>. QED BY <1>4

LEMMA RebootFailedFacts ==
  ASSUME NEW s \in Objects
  PROVE  CarriesOn(s, RebootFailed(s))
<1>. DEFINE t == [s EXCEPT !.rebooting = FALSE]
            u == SendError(t, s.onReboot)
<1>1. CarriesOn(s, t) BY NotRebootingFacts
<1>. HIDE DEF t
<1>. t \in Objects BY <1>1 DEF CarriesOn
<1>2. CarriesOn(t, FwUpgdError(t)) BY FwUpgdErrorFacts
<1>3. CarriesOn(t, u) BY SendErrorFacts
<1>4. CarriesOn(u, MtbBusLost(u)) BY <1>3, MtbBusLostFacts DEF CarriesOn
<1>5. RebootFailed(s) = IF s.onReboot = "upgrade" THEN FwUpgdError(t) ELSE MtbBusLost(u)
  BY DEF RebootFailed, t
<1>. HIDE DEF u
<1>. QED BY <1>1, <1>2, <1>3, <1>4, <1>5, OnwardTrans

LEMMA ActivatedFacts ==
  ASSUME NEW s \in Objects, s.config # None => UnsetSafe(s)
  PROVE  CarriesOn(s, [s EXCEPT !.activating = FALSE, !.activationsRemaining = 0,
                            !.active = TRUE, !.rebooting = FALSE])
<1>. DEFINE t == [s EXCEPT !.activating = FALSE, !.activationsRemaining = 0,
                            !.active = TRUE, !.rebooting = FALSE]
<1>. 0 \in 0 .. MTB_MODULE_ACTIVATIONS BY MtbUniAssumption
<1>1. Shaped(t) BY ObjectShape, Zenon DEF Shaped
<1>2. Typed(t) BY DEF Typed, Objects
<1>3. /\ t.bus = s.bus
      /\ ~t.activating
      /\ t.config = s.config
      /\ t.configToWrite = s.configToWrite
      /\ t.whoSetOutput = s.whoSetOutput
      /\ t.outputsWant = s.outputsWant
  BY DEF Objects
<1>4. CarriesOn(s, t)
  <2>. HIDE DEF t
  <2>1. t \in Objects BY <1>1, <1>2, ObjectType
  <2>2. s.config # None => SafeWhileActive(t)
    BY <1>3, Zenon DEF SafeWhileActive, UnsetSafe
  <2>. QED BY <1>3, <2>1, <2>2 DEF CarriesOn, Onward
<1>. QED BY <1>4

\* The end of an activation, whoever it tells; the outputs were reset before.
LEMMA FullyActivatedFacts ==
  ASSUME NEW s \in Objects, s.config # None => UnsetSafe(s)
  PROVE  /\ CarriesOn(s, FullyActivated(s))
         /\ ~FullyActivated(s).activating
<1>. DEFINE t == [s EXCEPT !.activating = FALSE, !.activationsRemaining = 0,
                           !.active = TRUE, !.rebooting = FALSE]
<1>1. CarriesOn(s, t) BY ActivatedFacts
<1>2. ~t.activating BY DEF Objects
<1>3. FullyActivated(s) \in {t, FwUpgdRebooted(t), Reply(t, s.onReboot, Ok)}
  BY DEF FullyActivated
<1>. HIDE DEF t
<1>. t \in Objects BY <1>1 DEF CarriesOn
<1>4. CarriesOn(t, FullyActivated(s))
  BY <1>3, OnwardRefl, FwUpgdRebootedFacts, ReplyFacts, ResponseTypes
<1>5. CarriesOn(s, FullyActivated(s)) BY <1>1, <1>4, OnwardTrans, Zenon
<1>6. FullyActivated(s).activating => t.activating
  BY <1>4, Zenon DEF CarriesOn, Onward
<1>. QED BY <1>2, <1>5, <1>6, Zenon

LEMMA FwUpgdGetStatusFacts ==
  ASSUME NEW s \in Objects
  PROVE  CarriesOn(s, FwUpgdGetStatus(s))
BY SendFacts, CommandTypes DEF FwUpgdGetStatus

LEMMA InBootloaderFacts ==
  ASSUME NEW s \in Objects
  PROVE  CarriesOn(s, [s EXCEPT !.inBootloader = TRUE, !.toWrite = s.data])
<1>. DEFINE t == [s EXCEPT !.inBootloader = TRUE, !.toWrite = s.data]
<1>1. Shaped(t) BY ObjectShape, Zenon DEF Shaped
<1>2. Typed(t) BY DEF Typed, Objects
<1>3. /\ t.bus = s.bus
      /\ t.activating => s.activating
      /\ t.config = s.config
      /\ t.configToWrite = s.configToWrite
      /\ t.whoSetOutput = s.whoSetOutput
      /\ t.active => s.active
      /\ t.outputsWant = s.outputsWant
  BY DEF Objects
<1>4. CarriesOn(s, t)
  <2>. HIDE DEF t
  <2>. QED BY <1>1, <1>2, <1>3, SameBus
<1>. QED BY <1>4

LEMMA NoBootloaderFacts ==
  ASSUME NEW s \in Objects
  PROVE  CarriesOn(s, [s EXCEPT !.inBootloader = FALSE])
<1>. DEFINE t == [s EXCEPT !.inBootloader = FALSE]
<1>1. Shaped(t) BY ObjectShape, Zenon DEF Shaped
<1>2. Typed(t) BY DEF Typed, Objects
<1>3. /\ t.bus = s.bus
      /\ t.activating => s.activating
      /\ t.config = s.config
      /\ t.configToWrite = s.configToWrite
      /\ t.whoSetOutput = s.whoSetOutput
      /\ t.active => s.active
      /\ t.outputsWant = s.outputsWant
  BY DEF Objects
<1>4. CarriesOn(s, t)
  <2>. HIDE DEF t
  <2>. QED BY <1>1, <1>2, <1>3, SameBus
<1>. QED BY <1>4

LEMMA FwUpgdGotInfoFacts ==
  ASSUME NEW s \in Objects, NEW b \in BOOLEAN
  PROVE  CarriesOn(s, FwUpgdGotInfo(s, b))
<1>. DEFINE t == [s EXCEPT !.inBootloader = TRUE, !.toWrite = s.data]
            u == [s EXCEPT !.inBootloader = FALSE]
<1>1. CarriesOn(s, t) /\ CarriesOn(s, u)
  BY InBootloaderFacts, NoBootloaderFacts
<1>2. FwUpgdGotInfo(s, b) = IF b THEN FwUpgdGetStatus(t) ELSE FwUpgdError(u)
  BY DEF FwUpgdGotInfo
<1>. HIDE DEF t, u
<1>3. CarriesOn(t, FwUpgdGetStatus(t)) /\ CarriesOn(u, FwUpgdError(u))
  BY <1>1, FwUpgdGetStatusFacts, FwUpgdErrorFacts DEF CarriesOn
<1>. QED BY <1>1, <1>2, <1>3, OnwardTrans

LEMMA FwUpgdInitFacts ==
  ASSUME NEW s \in Objects
  PROVE  CarriesOn(s, FwUpgdInit(s))
<1>1. CarriesOn(s, FwUpgdGotInfo(s, TRUE)) BY FwUpgdGotInfoFacts
<1>2. CarriesOn(s, Send(s, Cmd("FwUpgradeReq"))) BY SendFacts, CommandTypes
<1>. QED BY <1>1, <1>2 DEF FwUpgdInit

LEMMA NextBlockFacts ==
  ASSUME NEW s \in Objects, s.toWrite > 0
  PROVE  CarriesOn(s, [s EXCEPT !.toWrite = @ - 1])
<1>. DEFINE t == [s EXCEPT !.toWrite = @ - 1]
<1>. s.toWrite - 1 \in 0 .. Blocks BY Limits
<1>1. Shaped(t) BY ObjectShape, Zenon DEF Shaped
<1>2. Typed(t) BY DEF Typed, Objects
<1>3. /\ t.bus = s.bus
      /\ t.activating => s.activating
      /\ t.config = s.config
      /\ t.configToWrite = s.configToWrite
      /\ t.whoSetOutput = s.whoSetOutput
      /\ t.active => s.active
      /\ t.outputsWant = s.outputsWant
  BY DEF Objects
<1>4. CarriesOn(s, t)
  <2>. HIDE DEF t
  <2>. QED BY <1>1, <1>2, <1>3, SameBus
<1>. QED BY <1>4

LEMMA FwUpgdGotStatusFacts ==
  ASSUME NEW s \in Objects, NEW b \in BOOLEAN
  PROVE  CarriesOn(s, FwUpgdGotStatus(s, b))
<1>. s.toWrite \in 0 .. Blocks /\ Blocks \in Nat BY Limits
<1>1. CASE b
  BY <1>1, FwUpgdGetStatusFacts DEF FwUpgdGotStatus
<1>2. CASE ~b /\ s.toWrite = 0
  BY <1>2, RebootFacts DEF FwUpgdGotStatus
<1>3. CASE ~b /\ s.toWrite > 0 /\ s.data = 0
  <2>1. CarriesOn(s, Fault(s, "toWrite")) BY FaultFacts
  <2>. QED BY <1>3, <2>1 DEF FwUpgdGotStatus
<1>4. CASE ~b /\ s.toWrite > 0 /\ s.data # 0
  <2>. DEFINE c == [kind |-> "FwWriteFlash", block |-> s.toWrite]
              t == Send(s, c)
  <2>0. s.toWrite \in 1 .. Blocks BY <1>4
  <2>1. c \in BusCommands /\ c.kind \notin {"SetConfig", "activate: GetConfig"} BY <2>0 DEF BusCommands
  <2>2. CarriesOn(s, t) BY <2>1, SendFacts
  <2>3. t.toWrite = s.toWrite BY DEF Objects, Send
  <2>4. FwUpgdGotStatus(s, b) = [t EXCEPT !.toWrite = @ - 1]
    BY <1>4 DEF FwUpgdGotStatus
  <2>. HIDE DEF c, t
  <2>5. CarriesOn(t, [t EXCEPT !.toWrite = @ - 1])
    BY <1>4, <2>2, <2>3, NextBlockFacts DEF CarriesOn
  <2>. QED BY <2>2, <2>4, <2>5, OnwardTrans
<1>. QED BY <1>1, <1>2, <1>3, <1>4

LEMMA AcceptedFacts ==
  ASSUME NEW s \in Objects, NEW r \in Requests
  PROVE  CarriesOn(s, [s EXCEPT !.fwUpgrading = r, !.data = Blocks, !.flash = {}])
<1>. DEFINE t == [s EXCEPT !.fwUpgrading = r, !.data = Blocks, !.flash = {}]
<1>. Blocks \in 0 .. Blocks BY MtbUniAssumption
<1>1. Shaped(t) BY ObjectShape, Zenon DEF Shaped
<1>2. Typed(t) BY DEF Typed, Objects
<1>3. /\ t.bus = s.bus
      /\ t.activating => s.activating
      /\ t.config = s.config
      /\ t.configToWrite = s.configToWrite
      /\ t.whoSetOutput = s.whoSetOutput
      /\ t.active => s.active
      /\ t.outputsWant = s.outputsWant
  BY DEF Objects
<1>4. CarriesOn(s, t)
  <2>. HIDE DEF t
  <2>. QED BY <1>1, <1>2, <1>3, SameBus
<1>. QED BY <1>4

LEMMA UpgradeOfFacts ==
  ASSUME NEW s \in Objects, NEW r \in Requests
  PROVE  CarriesOn(s, [s EXCEPT !.fwUpgrading = r])
<1>. DEFINE t == [s EXCEPT !.fwUpgrading = r]
<1>1. Shaped(t) BY ObjectShape, Zenon DEF Shaped
<1>2. Typed(t) BY DEF Typed, Objects
<1>3. /\ t.bus = s.bus
      /\ t.activating => s.activating
      /\ t.config = s.config
      /\ t.configToWrite = s.configToWrite
      /\ t.whoSetOutput = s.whoSetOutput
      /\ t.active => s.active
      /\ t.outputsWant = s.outputsWant
  BY DEF Objects
<1>4. CarriesOn(s, t)
  <2>. HIDE DEF t
  <2>. QED BY <1>1, <1>2, <1>3, SameBus
<1>. QED BY <1>4

LEMMA FwUpgradeAcceptedFacts ==
  ASSUME NEW s \in Objects, NEW r \in Requests
  PROVE  CarriesOn(s, FwUpgradeAccepted(s, r))
<1>. DEFINE t == [s EXCEPT !.fwUpgrading = r]
<1>1. CarriesOn(s, t) BY UpgradeOfFacts
<1>. HIDE DEF t
<1>2. CarriesOn(t, SendError(t, r)) BY <1>1, SendErrorFacts DEF CarriesOn
<1>3. CarriesOn(s, SendError(t, r)) BY <1>1, <1>2, OnwardTrans
<1>. QED BY <1>3, AcceptedFacts DEF FwUpgradeAccepted, t

LEMMA ModuleClientDisconnectedFacts ==
  ASSUME NEW s \in Objects, NEW socket
  PROVE  CarriesOn(s, ModuleClientDisconnected(s, socket))
<1>. DEFINE forget(r) == IF r \in Requests /\ Socket[r] = socket THEN Nobody ELSE r
            t == [s EXCEPT !.configWriting = forget(@), !.fwUpgrading = forget(@)]
<1>0. t = ModuleClientDisconnected(s, socket) BY DEF ModuleClientDisconnected
<1>1. Shaped(t) BY ObjectShape, Zenon DEF Shaped
<1>2. Typed(t) BY DEF Typed, Objects
<1>3. /\ t.bus = s.bus
      /\ t.activating => s.activating
      /\ t.config = s.config
      /\ t.configToWrite = s.configToWrite
      /\ t.whoSetOutput = s.whoSetOutput
      /\ t.active => s.active
      /\ t.outputsWant = s.outputsWant
  BY DEF Objects
<1>4. CarriesOn(s, t)
  <2>. HIDE DEF t
  <2>. QED BY <1>1, <1>2, <1>3, SameBus
<1>. QED BY <1>0, <1>4

-----------------------------------------------------------------------------
(* Outputs and configuration *)

LEMMA NothingSentFacts ==
  ASSUME NEW s \in Objects
  PROVE  CarriesOn(s, [s EXCEPT !.setOutputsSent = s.setOutputsWaiting, !.setOutputsWaiting = <<>>])
<1>. DEFINE t == [s EXCEPT !.setOutputsSent = s.setOutputsWaiting, !.setOutputsWaiting = <<>>]
<1>. <<>> \in Seq(Requests \cup {Nobody}) OBVIOUS
<1>1. Shaped(t) BY ObjectShape, Zenon DEF Shaped
<1>2. Typed(t) BY DEF Typed, Objects
<1>3. /\ t.bus = s.bus
      /\ t.activating => s.activating
      /\ t.config = s.config
      /\ t.configToWrite = s.configToWrite
      /\ t.whoSetOutput = s.whoSetOutput
      /\ t.active => s.active
      /\ t.outputsWant = s.outputsWant
  BY DEF Objects
<1>4. CarriesOn(s, t)
  <2>. HIDE DEF t
  <2>. QED BY <1>1, <1>2, <1>3, SameBus
<1>. QED BY <1>4

LEMMA SetOutputsFacts ==
  ASSUME NEW s \in Objects
  PROVE  CarriesOn(s, SetOutputs(s))
<1>. DEFINE t == [s EXCEPT !.setOutputsSent = s.setOutputsWaiting,
                           !.setOutputsWaiting = <<>>]
            c == [kind |-> "SetOutput", outputs |-> s.outputsWant]
<1>1. CarriesOn(s, t) BY NothingSentFacts
<1>2. c \in BusCommands /\ c.kind \notin {"SetConfig", "activate: GetConfig"} BY DEF Objects, BusCommands
<1>3. SetOutputs(s) = Send(t, c) BY DEF SetOutputs
<1>. HIDE DEF t, c
<1>4. CarriesOn(t, Send(t, c)) BY <1>1, <1>2, SendFacts DEF CarriesOn
<1>. QED BY <1>1, <1>3, <1>4, OnwardTrans

LEMMA NextOutputsFacts ==
  ASSUME NEW s \in Objects
  PROVE  CarriesOn(s, NextOutputs(s))
BY SetOutputsFacts, FwUpgdInitFacts, OnwardRefl DEF NextOutputs

LEMMA ReplySentFacts ==
  ASSUME NEW s \in Objects, NEW response \in Responses
  PROVE  CarriesOn(s, ReplySent(s, response))
<1>. DEFINE told == {r \in ToSet(s.setOutputsSent) \ {Nobody} : Socket[r] \in clients}
            all == [r \in Requests |->
                       IF r \in told THEN Append(s.replies[r], response)
                       ELSE s.replies[r]]
            t == [s EXCEPT !.setOutputsSent = <<>>, !.replies = all]
<1>1. t = ReplySent(s, response) BY DEF ReplySent
<1>2. all \in [Requests -> Seq(Responses)]
  <2>1. s.replies \in [Requests -> Seq(Responses)] BY DEF Objects
  <2>. HIDE DEF told
  <2>. QED BY <2>1
<1>. <<>> \in Seq(Requests \cup {Nobody}) OBVIOUS
<1>. HIDE DEF all
<1>3. Shaped(t) BY ObjectShape, Zenon DEF Shaped
<1>4. Typed(t) BY <1>2 DEF Typed, Objects
<1>5. /\ t.bus = s.bus
      /\ t.activating => s.activating
      /\ t.config = s.config
      /\ t.configToWrite = s.configToWrite
      /\ t.whoSetOutput = s.whoSetOutput
      /\ t.active => s.active
      /\ t.outputsWant = s.outputsWant
  BY DEF Objects
<1>6. CarriesOn(s, t)
  <2>. HIDE DEF t
  <2>. QED BY <1>3, <1>4, <1>5, SameBus
<1>. QED BY <1>1, <1>6

LEMMA ConfirmedFacts ==
  ASSUME NEW s \in Objects, NEW outputs \in [Ports -> Values]
  PROVE  CarriesOn(s, [s EXCEPT !.outputsConfirmed = outputs])
<1>. DEFINE t == [s EXCEPT !.outputsConfirmed = outputs]
<1>1. Shaped(t) BY ObjectShape, Zenon DEF Shaped
<1>2. Typed(t) BY DEF Typed, Objects
<1>3. /\ t.bus = s.bus
      /\ t.activating => s.activating
      /\ t.config = s.config
      /\ t.configToWrite = s.configToWrite
      /\ t.whoSetOutput = s.whoSetOutput
      /\ t.active => s.active
      /\ t.outputsWant = s.outputsWant
  BY DEF Objects
<1>4. CarriesOn(s, t)
  <2>. HIDE DEF t
  <2>. QED BY <1>1, <1>2, <1>3, SameBus
<1>. QED BY <1>4

LEMMA MtbBusOutputsSetFacts ==
  ASSUME NEW s \in Objects, NEW outputs \in [Ports -> Values]
  PROVE  CarriesOn(s, MtbBusOutputsSet(s, outputs))
<1>. DEFINE t == [s EXCEPT !.outputsConfirmed = outputs]
            u == ReplySent(t, OutputsOk(outputs))
<1>1. CarriesOn(s, t) BY ConfirmedFacts
<1>2. MtbBusOutputsSet(s, outputs) = NextOutputs(u) BY DEF MtbBusOutputsSet
<1>. HIDE DEF t
<1>3. CarriesOn(t, u) BY <1>1, ReplySentFacts, ResponseTypes DEF CarriesOn
<1>. HIDE DEF u
<1>4. CarriesOn(u, NextOutputs(u)) BY <1>3, NextOutputsFacts DEF CarriesOn
<1>. QED BY <1>1, <1>2, <1>3, <1>4, OnwardTrans

LEMMA MtbBusOutputsNotSetFacts ==
  ASSUME NEW s \in Objects
  PROVE  CarriesOn(s, MtbBusOutputsNotSet(s))
<1>. DEFINE t == ReplySent(s, Error)
            u == [t EXCEPT !.outputsConfirmed = s.outputsWant]
<1>0. s.outputsWant \in [Ports -> Values] BY DEF Objects
<1>1. CarriesOn(s, t) BY ReplySentFacts, ResponseTypes
<1>2. MtbBusOutputsNotSet(s) = NextOutputs(u) BY DEF MtbBusOutputsNotSet
<1>. HIDE DEF t
<1>3. CarriesOn(t, u) BY <1>0, <1>1, ConfirmedFacts DEF CarriesOn
<1>. HIDE DEF u
<1>4. CarriesOn(u, NextOutputs(u)) BY <1>3, NextOutputsFacts DEF CarriesOn
<1>. QED BY <1>1, <1>2, <1>3, <1>4, OnwardTrans

LEMMA SafeType ==
  ASSUME NEW s \in Objects, s.config # None
  PROVE  Safe[s.config] \in [Ports -> Values]
<1>1. s.config \in Configs BY DEF Objects
<1>. QED BY <1>1, MtbUniAssumption

\* Outputs may lose their owners, if they are wanted safe then.
LEMMA Disowned ==
  ASSUME NEW s \in Objects, NEW t, Shaped(t), Typed(t),
         t.bus = s.bus, t.activating = s.activating, t.config = s.config,
         t.configToWrite = s.configToWrite,
         \A p \in Ports : t.whoSetOutput[p] \in {s.whoSetOutput[p], Nobody},
         s.config # None /\ SafeWhileActive(s) => SafeWhileActive(t)
  PROVE  CarriesOn(s, t)
<1>1. t \in Objects BY ObjectType
<1>. QED BY <1>1 DEF CarriesOn, Onward

LEMMA ResetOutputsOfClientFacts ==
  ASSUME NEW s \in Objects, NEW socket
  PROVE  /\ CarriesOn(s, ResetOutputsOfClient(s, socket))
         /\ s.config # None => \A p \in Ports :
               ResetOutputsOfClient(s, socket).whoSetOutput[p] = socket
                 => socket = Nobody
<1>. DEFINE mine == {p \in Ports : s.config # None /\ s.whoSetOutput[p] = socket}
            want == [p \in Ports |-> IF p \in mine THEN Safe[s.config][p]
                                     ELSE s.outputsWant[p]]
            who == [p \in Ports |-> IF p \in mine THEN Nobody
                                    ELSE s.whoSetOutput[p]]
            wait == Append(s.setOutputsWaiting, Nobody)
            t == [s EXCEPT !.outputsWant = want, !.whoSetOutput = who,
                           !.setOutputsWaiting = wait]
<1>1. ResetOutputsOfClient(s, socket) =
        CASE mine = {} -> s
          [] mine # {} /\ s.setOutputsSent = <<>> -> SetOutputs(t)
          [] OTHER -> t
  BY DEF ResetOutputsOfClient
<1>2. want \in [Ports -> Values]
  <2>1. s.outputsWant \in [Ports -> Values] BY DEF Objects
  <2>2. \A p \in mine : Safe[s.config] \in [Ports -> Values] BY SafeType
  <2>. QED BY <2>1, <2>2
<1>3. /\ who \in [Ports -> {Socket[r] : r \in Requests} \cup {Nobody}]
      /\ \A p \in Ports : who[p] \in {s.whoSetOutput[p], Nobody}
  <2>1. s.whoSetOutput \in [Ports -> {Socket[r] : r \in Requests} \cup {Nobody}]
    BY DEF Objects
  <2>. QED BY <2>1
<1>4. wait \in Seq(Requests \cup {Nobody})
  <2>1. s.setOutputsWaiting \in Seq(Requests \cup {Nobody}) BY DEF Objects
  <2>. QED BY <2>1
<1>5. \A p \in Ports : s.config # None /\ who[p] = socket => socket = Nobody
  OBVIOUS
<1>12. s.config # None => \A p \in Ports : who[p] = Nobody =>
         \/ want[p] = Safe[s.config][p]
         \/ s.whoSetOutput[p] = Nobody /\ want[p] = s.outputsWant[p]
  OBVIOUS
<1>6. CarriesOn(s, t) /\ t.whoSetOutput = who
  <2>. HIDE DEF want, who, wait
  <2>1. Shaped(t) BY ObjectShape, Zenon DEF Shaped
  <2>2. Typed(t) BY <1>2, <1>3, <1>4 DEF Typed, Objects
  <2>3. /\ t.bus = s.bus
        /\ t.activating = s.activating
        /\ t.config = s.config
        /\ t.configToWrite = s.configToWrite
        /\ t.whoSetOutput = who
        /\ t.active = s.active
        /\ t.outputsWant = want
    BY DEF Objects
  <2>. HIDE DEF t
  <2>4. s.config # None /\ SafeWhileActive(s) => SafeWhileActive(t)
    BY <1>12, <2>3, Zenon DEF SafeWhileActive, UnsetSafe
  <2>. QED BY <1>3, <2>1, <2>2, <2>3, <2>4, Disowned
<1>7. mine = {} /\ s.config # None => \A p \in Ports : s.whoSetOutput[p] # socket
  OBVIOUS
<1>. HIDE DEF mine, want, who, wait, t
<1>8. CarriesOn(t, SetOutputs(t)) BY <1>6, SetOutputsFacts DEF CarriesOn
<1>9. \A p \in Ports : SetOutputs(t).whoSetOutput[p] \in {who[p], Nobody}
  BY <1>6, <1>8 DEF CarriesOn, Onward
<1>10. CASE mine = {}
  BY <1>1, <1>7, <1>10, OnwardRefl
<1>11. CASE mine # {}
  <2>1. ResetOutputsOfClient(s, socket) \in {SetOutputs(t), t} BY <1>1, <1>11
  <2>2. CarriesOn(s, SetOutputs(t)) BY <1>6, <1>8, OnwardTrans
  <2>. QED BY <2>1, <2>2, <1>5, <1>6, <1>9
<1>. QED BY <1>10, <1>11

LEMMA AllOutputsResetFacts ==
  ASSUME NEW s \in Objects
  PROVE  /\ CarriesOn(s, AllOutputsReset(s))
         /\ AllOutputsReset(s).whoSetOutput = Unset
         /\ s.config # None => UnsetSafe(AllOutputsReset(s))
         /\ AllOutputsReset(s).config = s.config
<1>. DEFINE safe == IF s.config = None THEN Off ELSE Safe[s.config]
            t == [s EXCEPT !.outputsWant = safe, !.outputsConfirmed = safe,
                           !.whoSetOutput = Unset]
<1>1. t = AllOutputsReset(s) BY DEF AllOutputsReset
<1>2. safe \in [Ports -> Values]
  <2>1. Off \in [Ports -> Values] BY MtbUniAssumption DEF Off
  <2>. QED BY <2>1, SafeType
<1>3. /\ Unset \in [Ports -> {Socket[r] : r \in Requests} \cup {Nobody}]
      /\ \A p \in Ports : Unset[p] = Nobody
  BY DEF Unset
<1>8. s.config # None => safe = Safe[s.config] OBVIOUS
<1>. HIDE DEF safe
<1>4. Shaped(t) BY ObjectShape, Zenon DEF Shaped
<1>5. Typed(t) BY <1>2, <1>3 DEF Typed, Objects
<1>6. /\ t.bus = s.bus
      /\ t.activating = s.activating
      /\ t.config = s.config
      /\ t.configToWrite = s.configToWrite
      /\ t.whoSetOutput = Unset
      /\ t.outputsWant = safe
  BY DEF Objects
<1>. HIDE DEF t
<1>9. s.config # None => UnsetSafe(t) BY <1>6, <1>8, Zenon DEF UnsetSafe
<1>7. CarriesOn(s, t)
  BY <1>3, <1>4, <1>5, <1>6, <1>9, Disowned DEF SafeWhileActive
<1>. QED BY <1>1, <1>6, <1>7, <1>9 DEF t

LEMMA OutputsResetFacts ==
  ASSUME NEW s \in Objects
  PROVE  CarriesOn(s, OutputsReset(s)) /\ ~OutputsReset(s).activating
<1>. DEFINE t == AllOutputsReset(s)
<1>1. CarriesOn(s, t) /\ (t.config # None => UnsetSafe(t))
  BY AllOutputsResetFacts, Zenon
<1>. HIDE DEF t
<1>2. CarriesOn(t, FullyActivated(t)) /\ ~FullyActivated(t).activating
  BY <1>1, FullyActivatedFacts DEF CarriesOn
<1>. QED BY <1>1, <1>2, OnwardTrans DEF OutputsReset, t

LEMMA NotWritingFacts ==
  ASSUME NEW s \in Objects
  PROVE  CarriesOn(s, [s EXCEPT !.configWriting = None])
<1>. DEFINE t == [s EXCEPT !.configWriting = None]
<1>1. Shaped(t) BY ObjectShape, Zenon DEF Shaped
<1>2. Typed(t) BY DEF Typed, Objects
<1>3. /\ t.bus = s.bus
      /\ t.activating => s.activating
      /\ t.config = s.config
      /\ t.configToWrite = s.configToWrite
      /\ t.whoSetOutput = s.whoSetOutput
      /\ t.active => s.active
      /\ t.outputsWant = s.outputsWant
  BY DEF Objects
<1>4. CarriesOn(s, t)
  <2>. HIDE DEF t
  <2>. QED BY <1>1, <1>2, <1>3, SameBus
<1>. QED BY <1>4

LEMMA ConfigDoneFacts ==
  ASSUME NEW s \in Objects, NEW response \in Responses
  PROVE  CarriesOn(s, ConfigDone(s, response))
<1>. DEFINE t == Reply(s, s.configWriting, response)
            u == [t EXCEPT !.configWriting = None]
<1>1. CarriesOn(s, t) BY ReplyFacts
<1>2. ConfigDone(s, response) \in {u, FwUpgdInit(u)} BY DEF ConfigDone
<1>. HIDE DEF t
<1>3. CarriesOn(t, u) BY <1>1, NotWritingFacts DEF CarriesOn
<1>. HIDE DEF u
<1>4. CarriesOn(u, u) /\ CarriesOn(u, FwUpgdInit(u))
  BY <1>3, FwUpgdInitFacts, OnwardRefl DEF CarriesOn
<1>. QED BY <1>1, <1>2, <1>3, <1>4, OnwardTrans

LEMMA FiniteOwners ==
  ASSUME NEW s \in Objects
  PROVE  IsFiniteSet({s.whoSetOutput[p] : p \in Ports})
<1>. DEFINE f == s.whoSetOutput
            T == {f[p] : p \in Ports}
<1>1. f \in [Ports -> {Socket[r] : r \in Requests} \cup {Nobody}] BY DEF Objects
<1>2. IsFiniteSet(Ports) BY MtbUniAssumption
<1>. HIDE DEF f
<1>3. f \in Surjection(Ports, T) BY <1>1 DEF Surjection
<1>4. IsFiniteSet(T) BY <1>2, <1>3, FS_Surjection
<1>. QED BY <1>4 DEF f

LEMMA ClientResetOutputsFacts ==
  ASSUME NEW s \in Objects, NEW socket, NEW r \in Requests \cup {Nobody}
  PROVE  /\ CarriesOn(s, ClientResetOutputs(s, socket, r))
         /\ s.config # None => \A p \in Ports :
               ClientResetOutputs(s, socket, r).whoSetOutput[p] = socket
                 => socket = Nobody
<1>. DEFINE owners == {s.whoSetOutput[p] : p \in Ports}
            setters == owners \ {Nobody}
            t == ResetOutputsOfClient(s, socket)
            u == AllOutputsReset(s)
            c == [kind |-> "ResetOutputs", request |-> r]
<1>1. CASE Cardinality(setters) >= 2
  <2>1. ClientResetOutputs(s, socket, r) = Reply(t, r, Ok)
    <3>0. Cardinality({socket}) = 1 BY FS_Singleton
    <3>1. setters # {socket}
      <4>. HIDE DEF setters
      <4>. QED BY <1>1, <3>0
    <3>. QED BY <1>1, <3>1, Zenon DEF ClientResetOutputs
  <2>2. CarriesOn(s, t) BY ResetOutputsOfClientFacts
  <2>3. s.config # None => \A p \in Ports : t.whoSetOutput[p] = socket => socket = Nobody
    BY ResetOutputsOfClientFacts
  <2>. HIDE DEF t
  <2>4. CarriesOn(t, Reply(t, r, Ok)) BY <2>2, ReplyFacts, ResponseTypes DEF CarriesOn
  <2>5. \A p \in Ports : Reply(t, r, Ok).whoSetOutput[p] \in {t.whoSetOutput[p], Nobody}
    BY <2>4 DEF CarriesOn, Onward
  <2>. QED BY <2>1, <2>2, <2>3, <2>4, <2>5, OnwardTrans
<1>2. CASE ~(Cardinality(setters) >= 2) /\ setters = {socket}
  <2>1. ClientResetOutputs(s, socket, r) = Send(u, c)
    BY <1>2 DEF ClientResetOutputs
  <2>2. CarriesOn(s, u) /\ u.whoSetOutput = Unset BY AllOutputsResetFacts
  <2>3. c \in BusCommands /\ c.kind \notin {"SetConfig", "activate: GetConfig"} BY DEF BusCommands
  <2>. HIDE DEF u, c
  <2>4. CarriesOn(u, Send(u, c)) BY <2>2, <2>3, SendFacts DEF CarriesOn
  <2>5. \A p \in Ports : Send(u, c).whoSetOutput[p] = Nobody
    BY <2>2, <2>4 DEF CarriesOn, Onward, Unset
  <2>. QED BY <2>1, <2>2, <2>4, <2>5, OnwardTrans
<1>3. CASE ~(Cardinality(setters) >= 2) /\ setters # {socket}
  <2>1. ClientResetOutputs(s, socket, r) = Reply(s, r, Ok)
    BY <1>3 DEF ClientResetOutputs
  <2>2. CarriesOn(s, Reply(s, r, Ok)) BY ReplyFacts, ResponseTypes
  <2>3. socket \notin setters
    <3>1. IsFiniteSet(setters)
      <4>1. IsFiniteSet(owners) BY FiniteOwners
      <4>. QED BY <4>1, FS_Subset, Zenon
    <3>. HIDE DEF setters
    <3>2. Cardinality(setters) \in Nat BY <3>1, FS_CardinalityType
    <3>3. Cardinality(setters) = 0 => setters = {} BY <3>1, FS_EmptySet
    <3>4. Cardinality(setters) = 1 => \E x : setters = {x} BY <3>1, FS_Singleton
    <3>. QED BY <1>3, <3>2, <3>3, <3>4
  <2>4. \A p \in Ports : s.whoSetOutput[p] = socket => socket = Nobody
    BY <2>3
  <2>. QED BY <2>1, <2>2, <2>4 DEF CarriesOn, Onward
<1>. QED BY <1>1, <1>2, <1>3

-----------------------------------------------------------------------------
(* The invariant *)

\* Where the module is known: its configuration is never asked for, and its
\* outputs belong to clients of the set C.
KnownModule(s, C) ==
    /\ s.config # None
    /\ \A i \in DOMAIN s.bus : s.bus[i].kind # "activate: GetConfig"
    /\ \A p \in Ports : s.whoSetOutput[p] \in C \cup {Nobody}

\* The daemon's file knows the module, and no client asks for other safe states.
SafeStatesStay ==
    /\ None \notin InitConfigs
    /\ \A c \in InitConfigs, r \in Requests :
          Kind[r] = "module_set_config" => Safe[NewConfig[r]] = Safe[c]

\* The safe states of the file are those of the configuration that the object
\* has, and of the one that it writes.
SafeAsInFile(s) ==
    \E c \in InitConfigs :
        /\ Safe[s.config] = Safe[c]
        /\ s.configToWrite # None => Safe[s.configToWrite] = Safe[c]

\* What stays true of the object: a write of the configuration has one to write,
\* and what the daemon's file, and the clients' requests, allow besides.
Kept(s, C) ==
    /\ s \in Objects
    /\ \A i \in DOMAIN s.bus :
          s.bus[i].kind = "SetConfig" => s.configToWrite # None
    /\ None \notin InitConfigs => KnownModule(s, C)
    /\ SafeStatesStay => SafeAsInFile(s) /\ SafeWhileActive(s)

HasActivation(s) ==
    s.activating => \E i \in DOMAIN s.bus : s.bus[i].kind \in ActivationCommands

Sound(s, C) == Kept(s, C) /\ HasActivation(s)

UniIInv ==
    /\ Sound(m, clients)
    /\ port \in {"closed", "open", "closing"}
    /\ listed \in BOOLEAN
    /\ asked \in Seq(Requests)

LEMMA CarriesKept ==
  ASSUME NEW C, NEW s, NEW t, Kept(s, C), CarriesOn(s, t)
  PROVE  Kept(t, C)
<1>1. t \in Objects BY DEF CarriesOn
<1>2. \A i \in DOMAIN t.bus : t.bus[i].kind = "SetConfig" => t.configToWrite # None
  BY DEF Kept, CarriesOn, Onward
<1>3. None \notin InitConfigs => KnownModule(t, C)
  <2>. SUFFICES ASSUME None \notin InitConfigs PROVE KnownModule(t, C)
    OBVIOUS
  <2>1. KnownModule(s, C) BY DEF Kept
  <2>2. t.config # None BY <2>1 DEF KnownModule, CarriesOn, Onward
  <2>3. \A k \in DOMAIN t.bus : t.bus[k].kind # "activate: GetConfig"
    BY <2>1 DEF KnownModule, CarriesOn, Onward
  <2>4. \A p \in Ports : t.whoSetOutput[p] \in {s.whoSetOutput[p], Nobody}
    BY DEF CarriesOn, Onward
  <2>. QED BY <2>1, <2>2, <2>3, <2>4 DEF KnownModule
<1>4. SafeStatesStay => SafeAsInFile(t) /\ SafeWhileActive(t)
  <2>. SUFFICES ASSUME SafeStatesStay
                PROVE  SafeAsInFile(t) /\ SafeWhileActive(t)
    OBVIOUS
  <2>1. SafeAsInFile(s) /\ SafeWhileActive(s) BY DEF Kept
  <2>2. s.config # None BY DEF Kept, KnownModule, SafeStatesStay
  <2>3. t.config = s.config /\ t.configToWrite = s.configToWrite
    BY DEF CarriesOn, Onward
  <2>4. SafeWhileActive(t) BY <2>1, <2>2 DEF CarriesOn, Onward
  <2>. QED BY <2>1, <2>3, <2>4, Zenon DEF SafeAsInFile
<1>. QED BY <1>1, <1>2, <1>3, <1>4 DEF Kept

LEMMA CarriesSound ==
  ASSUME NEW C, NEW s, NEW t, Sound(s, C), CarriesOn(s, t)
  PROVE  Sound(t, C)
<1>1. HasActivation(t)
  <2> SUFFICES ASSUME t.activating
               PROVE  \E i \in DOMAIN t.bus : t.bus[i].kind \in ActivationCommands
    BY DEF HasActivation
  <2>1. s.activating BY DEF CarriesOn, Onward
  <2>2. PICK i \in DOMAIN s.bus : s.bus[i].kind \in ActivationCommands
    BY <2>1 DEF Sound, HasActivation
  <2>3. i \in DOMAIN t.bus /\ t.bus[i] = s.bus[i] BY DEF CarriesOn, Onward
  <2>. QED BY <2>2, <2>3
<1>. QED BY <1>1, CarriesKept DEF Sound

\* What an object has to keep beside its type.
LEMMA SameKept ==
  ASSUME NEW C, NEW s, Kept(s, C), NEW t \in Objects,
         \A i \in DOMAIN t.bus : t.bus[i].kind = "SetConfig" => t.configToWrite # None,
         None \notin InitConfigs =>
            \A i \in DOMAIN t.bus : t.bus[i].kind # "activate: GetConfig",
         t.config = s.config, t.configToWrite = s.configToWrite,
         t.whoSetOutput = s.whoSetOutput, t.outputsWant = s.outputsWant,
         t.active = s.active
  PROVE  Kept(t, C)
<1>1. None \notin InitConfigs => KnownModule(t, C)
  BY Zenon DEF Kept, KnownModule
<1>2. SafeStatesStay => SafeAsInFile(t) /\ SafeWhileActive(t)
  BY Zenon DEF Kept, SafeAsInFile, SafeWhileActive, UnsetSafe
<1>. QED BY <1>1, <1>2 DEF Kept

\* A command to activate the module is on its way.
LEMMA ActivationSent ==
  ASSUME NEW C, NEW s, Kept(s, C), NEW c \in BusCommands,
         c.kind \in ActivationCommands,
         None \notin InitConfigs => c.kind # "activate: GetConfig"
  PROVE  Sound(Send(s, c), C)
<1>. DEFINE t == Send(s, c)
            n == Len(s.bus) + 1
<1>0. s \in Objects BY DEF Kept
<1>1. /\ t \in Objects
      /\ DOMAIN t.bus = DOMAIN s.bus \cup {n}
      /\ \A i \in DOMAIN s.bus : t.bus[i] = s.bus[i]
      /\ t.bus[n] = c
      /\ t.active = s.active
      /\ t.config = s.config
      /\ t.configToWrite = s.configToWrite
      /\ t.whoSetOutput = s.whoSetOutput
      /\ t.outputsWant = s.outputsWant
  BY <1>0, SentFacts
<1>. HIDE DEF t, n
<1>2. c.kind # "SetConfig" BY DEF ActivationCommands
<1>3. \A i \in DOMAIN t.bus : t.bus[i].kind = "SetConfig" => t.configToWrite # None
  BY <1>1, <1>2 DEF Kept
<1>4. None \notin InitConfigs =>
        \A i \in DOMAIN t.bus : t.bus[i].kind # "activate: GetConfig"
  BY <1>1 DEF Kept, KnownModule
<1>5. Kept(t, C) BY <1>1, <1>3, <1>4, SameKept
<1>. QED BY <1>1, <1>5 DEF Sound, HasActivation, t

LEMMA ActivateFacts ==
  ASSUME NEW C, NEW s, Kept(s, C)
  PROVE  Sound(Activate(s), C)
<1>. DEFINE t == [s EXCEPT !.activating = TRUE]
            c == IF s.config = None THEN Cmd("activate: GetConfig")
                 ELSE [kind |-> "activate: SetConfig", config |-> s.config]
<1>0. s \in Objects BY DEF Kept
<1>1. /\ c \in BusCommands
      /\ c.kind \in ActivationCommands
      /\ s.config # None => c.kind # "activate: GetConfig"
  <2>1. CASE s.config = None
    BY <2>1, CommandTypes DEF ActivationCommands
  <2>2. CASE s.config # None
    <3>1. s.config \in Configs BY <1>0, <2>2 DEF Objects
    <3>. QED BY <2>2, <3>1 DEF BusCommands, ActivationCommands
  <2>. QED BY <2>1, <2>2
<1>2. Activate(s) = Send(t, c) BY DEF Activate
<1>3. None \notin InitConfigs => s.config # None BY DEF Kept, KnownModule
<1>4. Kept(t, C)
  <2>1. Shaped(t) BY <1>0, ObjectShape, Zenon DEF Shaped
  <2>2. Typed(t) BY <1>0 DEF Typed, Objects
  <2>3. /\ t.bus = s.bus
        /\ t.active = s.active
        /\ t.config = s.config
        /\ t.configToWrite = s.configToWrite
        /\ t.whoSetOutput = s.whoSetOutput
        /\ t.outputsWant = s.outputsWant
    BY <1>0 DEF Objects
  <2>. HIDE DEF t
  <2>4. t \in Objects BY <2>1, <2>2, ObjectType
  <2>5. \A i \in DOMAIN t.bus : t.bus[i].kind = "SetConfig" => t.configToWrite # None
    BY <2>3, Zenon DEF Kept
  <2>6. None \notin InitConfigs =>
          \A i \in DOMAIN t.bus : t.bus[i].kind # "activate: GetConfig"
    BY <2>3, Zenon DEF Kept, KnownModule
  <2>. QED BY <2>3, <2>4, <2>5, <2>6, SameKept
<1>. HIDE DEF t, c
<1>. QED BY <1>1, <1>2, <1>3, <1>4, ActivationSent

LEMMA MtbBusActivateFacts ==
  ASSUME NEW C, NEW s, Kept(s, C), NEW b \in BOOLEAN
  PROVE  Sound(MtbBusActivate(s, b), C)
<1>. DEFINE t == ModuleActivate(s, b)
<1>0. s \in Objects BY DEF Kept
<1>1. CarriesOn(s, t) BY <1>0, ModuleActivateFacts
<1>2. Kept(t, C) /\ t \in Objects BY <1>1, CarriesKept DEF CarriesOn
<1>3. MtbBusActivate(s, b) = IF b THEN OutputsReset(t) ELSE Activate(t)
  BY DEF MtbBusActivate
<1>. HIDE DEF t
<1>4. Sound(Activate(t), C) BY <1>2, ActivateFacts
<1>5. Sound(OutputsReset(t), C)
  BY <1>2, OutputsResetFacts, CarriesKept DEF Sound, HasActivation
<1>. QED BY <1>3, <1>4, <1>5

LEMMA MtbBusConfigWrittenFacts ==
  ASSUME NEW C, NEW s, Sound(s, C), s.configToWrite # None
  PROVE  Sound(MtbBusConfigWritten(s), C)
<1>. DEFINE t == [s EXCEPT !.config = s.configToWrite]
<1>0. s \in Objects BY DEF Sound, Kept
<1>1. Sound(t, C)
  <2>1. Shaped(t) BY <1>0, ObjectShape, Zenon DEF Shaped
  <2>2. Typed(t) BY <1>0 DEF Typed, Objects
  <2>3. /\ t.bus = s.bus
        /\ t.activating = s.activating
        /\ t.config = s.configToWrite
        /\ t.configToWrite = s.configToWrite
        /\ t.whoSetOutput = s.whoSetOutput
        /\ t.active = s.active
        /\ t.outputsWant = s.outputsWant
    BY <1>0 DEF Objects
  <2>. HIDE DEF t
  <2>4. t \in Objects BY <2>1, <2>2, ObjectType
  <2>5. None \notin InitConfigs => KnownModule(t, C)
    BY <2>3, Zenon DEF Sound, Kept, KnownModule
  <2>6. SafeStatesStay => SafeAsInFile(t) /\ SafeWhileActive(t)
    <3>. SUFFICES ASSUME SafeStatesStay
                  PROVE  SafeAsInFile(t) /\ SafeWhileActive(t)
      OBVIOUS
    <3>1. SafeAsInFile(s) /\ SafeWhileActive(s) BY DEF Sound, Kept
    <3>2. Safe[s.configToWrite] = Safe[s.config] /\ SafeAsInFile(t)
      BY <2>3, <3>1, Zenon DEF SafeAsInFile
    <3>3. SafeWhileActive(t)
      BY <2>3, <3>1, <3>2, Zenon DEF SafeWhileActive, UnsetSafe
    <3>. QED BY <3>2, <3>3
  <2>7. Kept(t, C)
    BY <2>3, <2>4, <2>5, <2>6, Zenon DEF Sound, Kept
  <2>. QED BY <2>3, <2>7 DEF Sound, HasActivation
<1>2. MtbBusConfigWritten(s) = ConfigDone(t, Ok) BY DEF MtbBusConfigWritten
<1>. HIDE DEF t
<1>3. CarriesOn(t, ConfigDone(t, Ok))
  BY <1>1, ConfigDoneFacts, ResponseTypes DEF Sound, Kept
<1>. QED BY <1>1, <1>2, <1>3, CarriesSound

-----------------------------------------------------------------------------
(* Commands that end *)

\* Once a command was taken from the bus, all is as it was but for the command.
LEMMA RestFacts ==
  ASSUME UniIInv, NEW i \in DOMAIN m.bus
  PROVE  /\ m.bus[i] \in BusCommands
         /\ Kept(Rest(i), clients)
         /\ m.bus[i].kind \notin ActivationCommands => Sound(Rest(i), clients)
         /\ Rest(i).configToWrite = m.configToWrite
<1>. DEFINE q == RemoveAt(m.bus, i)
            t == [m EXCEPT !.bus = q]
<1>. m \in Objects /\ m.bus \in Seq(BusCommands)
  BY DEF UniIInv, Sound, Kept, Objects
<1>0. m.bus[i] \in BusCommands OBVIOUS
<1>1. /\ q \in Seq(BusCommands)
      /\ DOMAIN q = 1 .. (Len(m.bus) - 1)
      /\ \A j \in 1 .. (Len(m.bus) - 1) :
            q[j] = IF j < i THEN m.bus[j] ELSE m.bus[j + 1]
  BY RemoveAtPlaces
<1>2. DOMAIN m.bus = 1 .. Len(m.bus) /\ Len(m.bus) \in Nat OBVIOUS
<1>3. t = Rest(i) BY DEF Rest
<1>. HIDE DEF q
<1>4. \A j \in DOMAIN q : \E k \in DOMAIN m.bus : q[j] = m.bus[k]
  <2> SUFFICES ASSUME NEW j \in DOMAIN q
               PROVE  \E k \in DOMAIN m.bus : q[j] = m.bus[k]
    OBVIOUS
  <2>1. j \in DOMAIN m.bus /\ j + 1 \in DOMAIN m.bus BY <1>1, <1>2
  <2>. QED BY <1>1, <2>1
<1>5. \A k \in DOMAIN m.bus : k # i => \E j \in DOMAIN q : q[j] = m.bus[k]
  <2> SUFFICES ASSUME NEW k \in DOMAIN m.bus, k # i
               PROVE  \E j \in DOMAIN q : q[j] = m.bus[k]
    OBVIOUS
  <2>1. CASE k < i
    BY <1>1, <1>2, <2>1
  <2>2. CASE k > i
    <3>1. k - 1 \in DOMAIN q /\ q[k - 1] = m.bus[k] BY <1>1, <1>2, <2>2
    <3>. QED BY <3>1
  <2>. QED BY <1>2, <2>1, <2>2
<1>6. Shaped(t) BY ObjectShape, Zenon DEF Shaped
<1>7. Typed(t) BY <1>1 DEF Typed, Objects
<1>8. /\ t.bus = q
      /\ t.activating = m.activating
      /\ t.config = m.config
      /\ t.configToWrite = m.configToWrite
      /\ t.whoSetOutput = m.whoSetOutput
      /\ t.outputsWant = m.outputsWant
      /\ t.active = m.active
  BY DEF Objects
<1>. HIDE DEF t
<1>9. Kept(t, clients)
  <2>0. Kept(m, clients) BY DEF UniIInv, Sound
  <2>1. \A j \in DOMAIN t.bus : t.bus[j].kind = "SetConfig" => t.configToWrite # None
    BY <1>4, <1>8, <2>0 DEF Kept
  <2>2. None \notin InitConfigs =>
          \A j \in DOMAIN t.bus : t.bus[j].kind # "activate: GetConfig"
    BY <1>4, <1>8, <2>0 DEF Kept, KnownModule
  <2>3. t \in Objects BY <1>6, <1>7, ObjectType
  <2>. QED BY <1>8, <2>0, <2>1, <2>2, <2>3, SameKept
<1>10. m.bus[i].kind \notin ActivationCommands => HasActivation(t)
  BY <1>5, <1>8 DEF UniIInv, Sound, HasActivation
<1>. QED BY <1>0, <1>3, <1>8, <1>9, <1>10 DEF Sound

LEMMA CommandFacts ==
  ASSUME NEW c \in BusCommands
  PROVE  /\ c.kind = "SetOutput" => c.outputs \in [Ports -> Values]
         /\ c.kind \in {"SetConfig", "activate: SetConfig"} => c.config \in Configs
         /\ c.kind \in {"Forward", "ResetOutputs"} =>
               c.request \in Requests \cup {Nobody}
         /\ c.kind = "FwWriteFlash" => c.block \in 1 .. Blocks
         /\ c.kind = "ModuleInfo" => c.attempts \in 0 .. ATTEMPTS
BY DEF BusCommands

\* Sound is about the object and the clients only.
LEMMA SoundNext ==
  ASSUME Sound(m', clients')
  PROVE  Sound(m, clients)'
BY DEF Sound, Kept, KnownModule, SafeStatesStay, SafeAsInFile, SafeWhileActive,
       UnsetSafe, HasActivation, Objects, BusCommands, Responses,
       ActivationCommands

\* A step that leaves the daemon's variables alone.
LEMMA ObjectStep ==
  ASSUME UniIInv, UNCHANGED daemon, Sound(m', clients)
  PROVE  UniIInv'
<1>1. /\ clients' = clients
      /\ port' = port
      /\ listed' = listed
      /\ asked' = asked
  BY DEF daemon
<1>2. Sound(m, clients)' BY <1>1, SoundNext
<1>. QED BY <1>1, <1>2 DEF UniIInv

-----------------------------------------------------------------------------
(* The ends of the commands *)

LEMMA RestIsObject ==
  ASSUME UniIInv, NEW i \in DOMAIN m.bus
  PROVE  Rest(i) \in Objects
BY RestFacts DEF Kept

LEMMA OutputsStep ==
  ASSUME UniIInv, NEW i \in DOMAIN m.bus, OutputsSet(i) \/ OutputsNotSet(i)
  PROVE  UniIInv'
<1>. DEFINE s == Rest(i)
<1>1. UNCHANGED daemon /\ m.bus[i].kind = "SetOutput"
  BY DEF OutputsSet, OutputsNotSet, Succeeds, Ends
<1>2. Sound(s, clients) /\ s \in Objects
  BY <1>1, RestFacts, RestIsObject DEF ActivationCommands
<1>3. m.bus[i].outputs \in [Ports -> Values] BY <1>1, RestFacts, CommandFacts
<1>4. m' = MtbBusOutputsSet(s, m.bus[i].outputs) \/ m' = MtbBusOutputsNotSet(s)
  BY DEF OutputsSet, OutputsNotSet
<1>. HIDE DEF s
<1>5. CarriesOn(s, m')
  BY <1>2, <1>3, <1>4, MtbBusOutputsSetFacts, MtbBusOutputsNotSetFacts
<1>. QED BY <1>1, <1>2, <1>5, CarriesSound, ObjectStep

\* What the module holds is not what the invariant is about.
LEMMA HeldFacts ==
  ASSUME NEW s \in Objects, NEW c \in Configs
  PROVE  CarriesOn(s, [s EXCEPT !.moduleConfig = c])
<1>. DEFINE t == [s EXCEPT !.moduleConfig = c]
<1>1. Shaped(t) BY ObjectShape, Zenon DEF Shaped
<1>2. Typed(t) BY DEF Typed, Objects
<1>3. /\ t.bus = s.bus
      /\ t.activating => s.activating
      /\ t.config = s.config
      /\ t.configToWrite = s.configToWrite
      /\ t.whoSetOutput = s.whoSetOutput
      /\ t.active => s.active
      /\ t.outputsWant = s.outputsWant
  BY DEF Objects
<1>4. CarriesOn(s, t)
  <2>. HIDE DEF t
  <2>. QED BY <1>1, <1>2, <1>3, SameBus
<1>. QED BY <1>4

LEMMA ConfigStep ==
  ASSUME UniIInv, NEW i \in DOMAIN m.bus, ConfigWritten(i) \/ ConfigNotWritten(i)
  PROVE  UniIInv'
<1>. DEFINE s == Rest(i)
            t(held) == [s EXCEPT !.moduleConfig = held]
<1>1. UNCHANGED daemon /\ m.bus[i].kind = "SetConfig"
  BY DEF ConfigWritten, ConfigNotWritten, Succeeds, Ends
<1>2. Sound(s, clients) /\ s \in Objects
  BY <1>1, RestFacts, RestIsObject DEF ActivationCommands
<1>3. s.configToWrite # None
  BY <1>1, RestFacts DEF UniIInv, Sound, Kept
<1>4. m.bus[i].config \in Configs /\ m.moduleConfig \in Configs
  <2>1. m.moduleConfig \in Configs BY DEF UniIInv, Sound, Kept, Objects
  <2>. QED BY <1>1, <2>1, RestFacts, CommandFacts
<1>5. ASSUME NEW held \in Configs
      PROVE  Sound(t(held), clients) /\ t(held).configToWrite # None
  <2>1. CarriesOn(s, t(held)) BY <1>2, HeldFacts
  <2>2. t(held).configToWrite = s.configToWrite BY <2>1 DEF CarriesOn, Onward
  <2>. QED BY <1>2, <1>3, <2>1, <2>2, CarriesSound
<1>6. CASE ConfigWritten(i)
  <2>1. m' = MtbBusConfigWritten(t(m.bus[i].config)) BY <1>6 DEF ConfigWritten
  <2>2. Sound(m', clients) BY <1>4, <1>5, <2>1, MtbBusConfigWrittenFacts
  <2>. QED BY <1>1, <2>2, ObjectStep
<1>7. CASE ConfigNotWritten(i)
  <2>1. PICK held \in {m.moduleConfig, m.bus[i].config} : m' = ConfigDone(t(held), Error)
    BY <1>7 DEF ConfigNotWritten
  <2>2. Sound(t(held), clients) BY <1>4, <1>5
  <2>3. CarriesOn(t(held), m')
    BY <2>1, <2>2, ConfigDoneFacts, ResponseTypes DEF Sound, Kept
  <2>. QED BY <1>1, <2>2, <2>3, CarriesSound, ObjectStep
<1>. QED BY <1>6, <1>7

LEMMA ForwardStep ==
  ASSUME UniIInv, NEW i \in DOMAIN m.bus,
         \/ ForwardOk(i) \/ ForwardFailed(i)
         \/ OutputsResetOk(i) \/ OutputsResetFailed(i)
  PROVE  UniIInv'
<1>. DEFINE s == Rest(i)
            r == m.bus[i].request
<1>1. UNCHANGED daemon /\ m.bus[i].kind \in {"Forward", "ResetOutputs"}
  BY DEF ForwardOk, ForwardFailed, OutputsResetOk, OutputsResetFailed, Succeeds, Ends
<1>2. Sound(s, clients) /\ s \in Objects
  BY <1>1, RestFacts, RestIsObject DEF ActivationCommands
<1>3. m' = Reply(s, r, Ok) \/ m' = SendError(s, r)
  BY DEF ForwardOk, ForwardFailed, OutputsResetOk, OutputsResetFailed
<1>. HIDE DEF s
<1>4. CarriesOn(s, m') BY <1>2, <1>3, ReplyFacts, SendErrorFacts, ResponseTypes
<1>. QED BY <1>1, <1>2, <1>4, CarriesSound, ObjectStep

LEMMA ActivationStepStep ==
  ASSUME UniIInv, NEW i \in DOMAIN m.bus, ActivationStep(i)
  PROVE  UniIInv'
<1>. DEFINE s == Rest(i)
<1>1. UNCHANGED daemon BY DEF ActivationStep, Succeeds, Ends
<1>2. Kept(s, clients) /\ s \in Objects BY RestFacts, RestIsObject
<1>3. m.bus[i] \in BusCommands BY RestFacts
<1>4. m.moduleConfig \in Configs BY DEF UniIInv, Sound, Kept, Objects
<1>5. \A k \in {"activate: GetInputs", "activate: ResetOutputs"} :
        /\ Cmd(k) \in BusCommands
        /\ Cmd(k).kind \in ActivationCommands
        /\ Cmd(k).kind # "activate: GetConfig"
  BY CommandTypes DEF ActivationCommands
<1>6. CASE Succeeds(i, "activate: SetConfig")
           /\ m' = Send([s EXCEPT !.moduleConfig = m.bus[i].config],
                        Cmd("activate: GetInputs"))
  <2>. DEFINE t == [s EXCEPT !.moduleConfig = m.bus[i].config]
  <2>1. m.bus[i].config \in Configs BY <1>3, <1>6, CommandFacts DEF Succeeds, Ends
  <2>2. CarriesOn(s, t) BY <1>2, <2>1, HeldFacts
  <2>. HIDE DEF s, t
  <2>3. Kept(t, clients) BY <1>2, <2>2, CarriesKept
  <2>4. Sound(Send(t, Cmd("activate: GetInputs")), clients)
    BY <1>5, <2>3, ActivationSent
  <2>. QED BY <1>1, <1>6, <2>4, ObjectStep DEF t
<1>7. CASE Succeeds(i, "activate: GetConfig")
           /\ m' = Send([s EXCEPT !.config = m.moduleConfig],
                        Cmd("activate: GetInputs"))
  <2>. DEFINE t == [s EXCEPT !.config = m.moduleConfig]
  <2>1. Kept(t, clients)
    <3>. HIDE DEF s
    <3>1. Shaped(t) BY <1>2, ObjectShape, Zenon DEF Shaped
    <3>2. Typed(t) BY <1>2, <1>4 DEF Typed, Objects
    <3>3. /\ t.bus = s.bus
          /\ t.config = m.moduleConfig
          /\ t.configToWrite = s.configToWrite
          /\ t.whoSetOutput = s.whoSetOutput
      BY <1>2 DEF Objects
    <3>4. None \in InitConfigs
      BY <1>7 DEF UniIInv, Sound, Kept, KnownModule, Succeeds, Ends
    <3>. HIDE DEF t
    <3>5. t \in Objects BY <3>1, <3>2, ObjectType
    <3>6. \A k \in DOMAIN t.bus : t.bus[k].kind = "SetConfig" => t.configToWrite # None
      BY <1>2, <3>3, Zenon DEF Kept
    <3>. QED BY <3>4, <3>5, <3>6 DEF Kept, SafeStatesStay
  <2>. HIDE DEF s, t
  <2>2. Sound(Send(t, Cmd("activate: GetInputs")), clients)
    BY <1>5, <2>1, ActivationSent
  <2>. QED BY <1>1, <1>7, <2>2, ObjectStep DEF t
<1>8. CASE m' = Send(s, Cmd("activate: ResetOutputs"))
  <2>1. Sound(m', clients) BY <1>2, <1>5, <1>8, ActivationSent
  <2>. QED BY <1>1, <2>1, ObjectStep
<1>9. CASE m' = OutputsReset(s)
  <2>1. Sound(m', clients)
    BY <1>2, <1>9, OutputsResetFacts, CarriesKept DEF Sound, HasActivation
  <2>. QED BY <1>1, <2>1, ObjectStep
<1>. QED BY <1>6, <1>7, <1>8, <1>9, Zenon DEF ActivationStep

LEMMA ActivationFailedStep ==
  ASSUME UniIInv, NEW i \in DOMAIN m.bus, ActivationFailed(i)
  PROVE  UniIInv'
<1>. DEFINE s == Rest(i)
            t(held) == [s EXCEPT !.moduleConfig = held]
<1>1. UNCHANGED daemon BY DEF ActivationFailed, Ends
<1>2. Kept(s, clients) /\ s \in Objects BY RestFacts, RestIsObject
<1>3. PICK held \in Configs : m' = ActivationError(t(held))
  <2>1. m.moduleConfig \in Configs BY DEF UniIInv, Sound, Kept, Objects
  <2>2. m.bus[i].kind = "activate: SetConfig" => m.bus[i].config \in Configs
    BY RestFacts, CommandFacts
  <2>3. PICK h \in {m.moduleConfig} \cup
            (IF m.bus[i].kind = "activate: SetConfig" THEN {m.bus[i].config} ELSE {}) :
          m' = ActivationError(t(h))
    BY DEF ActivationFailed
  <2>4. h \in Configs BY <2>1, <2>2, <2>3
  <2>. QED BY <2>3, <2>4
<1>4. CarriesOn(s, t(held)) BY <1>2, HeldFacts
<1>. DEFINE u == t(held)
<1>. HIDE DEF s, t, u
<1>5. Kept(u, clients) /\ u \in Objects
  <2>1. CarriesOn(s, u) BY <1>4 DEF u
  <2>. QED BY <1>2, <2>1, CarriesKept DEF CarriesOn
<1>10. m' = ActivationError(u) BY <1>3 DEF u
<1>6. CarriesOn(u, m') BY <1>10, <1>5, ActivationErrorFacts
<1>7. ~m'.activating BY <1>10, <1>5 DEF ActivationError, Objects
<1>8. Sound(m', clients) BY <1>5, <1>6, <1>7, CarriesKept DEF Sound, HasActivation
<1>. QED BY <1>1, <1>8, ObjectStep

\* A single-shot timer is started.
LEMMA TimerFacts ==
  ASSUME NEW s \in Objects, NEW x \in {"fwUpgdReqAck", "reboot"}
  PROVE  /\ CarriesOn(s, [s EXCEPT !.timers[x] = @ + 1])
         /\ s.timers[x] > 0 => CarriesOn(s, [s EXCEPT !.timers[x] = @ - 1])
<1>. s.timers \in [{"fwUpgdReqAck", "reboot"} -> Nat] BY DEF Objects
<1>1. ASSUME NEW n \in Nat
      PROVE  CarriesOn(s, [s EXCEPT !.timers[x] = n])
  <2>. DEFINE t == [s EXCEPT !.timers[x] = n]
  <2>1. Shaped(t) BY ObjectShape, Zenon DEF Shaped
  <2>2. Typed(t) BY DEF Typed, Objects
  <2>3. /\ t.bus = s.bus
        /\ t.activating => s.activating
        /\ t.config = s.config
        /\ t.configToWrite = s.configToWrite
        /\ t.whoSetOutput = s.whoSetOutput
        /\ t.active => s.active
        /\ t.outputsWant = s.outputsWant
    BY DEF Objects
  <2>. HIDE DEF t
  <2>4. CarriesOn(s, t) BY <2>1, <2>2, <2>3, SameBus
  <2>. QED BY <2>4 DEF t
<1>2. s.timers[x] + 1 \in Nat /\ (s.timers[x] > 0 => s.timers[x] - 1 \in Nat)
  OBVIOUS
<1>. QED BY <1>1, <1>2

LEMMA RebootStep ==
  ASSUME UniIInv, NEW i \in DOMAIN m.bus, RebootAck(i) \/ RebootError(i)
  PROVE  UniIInv'
<1>. DEFINE s == Rest(i)
<1>1. UNCHANGED daemon /\ m.bus[i].kind \in {"Reboot", "reboot: ModuleInfo"}
  BY DEF RebootAck, RebootError, Succeeds, Ends
<1>2. Sound(s, clients) /\ s \in Objects
  BY <1>1, RestFacts, RestIsObject DEF ActivationCommands
<1>3. m' = [s EXCEPT !.timers["reboot"] = @ + 1] \/ m' = RebootFailed(s)
  BY DEF RebootAck, RebootError
<1>. HIDE DEF s
<1>4. CarriesOn(s, m') BY <1>2, <1>3, TimerFacts, RebootFailedFacts
<1>. QED BY <1>1, <1>2, <1>4, CarriesSound, ObjectStep

LEMMA GotInfoStep ==
  ASSUME UniIInv, NEW i \in DOMAIN m.bus, NEW b \in BOOLEAN,
         RebootGotInfo(i, b) \/ ModuleGotInfo(i, b)
  PROVE  UniIInv'
<1>1. UNCHANGED daemon BY DEF RebootGotInfo, ModuleGotInfo, Succeeds, Ends
<1>2. m' = MtbBusActivate(Rest(i), b) BY DEF RebootGotInfo, ModuleGotInfo
<1>3. Sound(m', clients) BY <1>2, RestFacts, MtbBusActivateFacts
<1>. QED BY <1>1, <1>3, ObjectStep

LEMMA FlashedFacts ==
  ASSUME NEW s \in Objects, NEW b \in 1 .. Blocks
  PROVE  CarriesOn(s, [s EXCEPT !.flash = @ \cup {b}])
<1>. DEFINE t == [s EXCEPT !.flash = @ \cup {b}]
<1>1. Shaped(t) BY ObjectShape, Zenon DEF Shaped
<1>2. Typed(t) BY DEF Typed, Objects
<1>3. /\ t.bus = s.bus
      /\ t.activating => s.activating
      /\ t.config = s.config
      /\ t.configToWrite = s.configToWrite
      /\ t.whoSetOutput = s.whoSetOutput
      /\ t.active => s.active
      /\ t.outputsWant = s.outputsWant
  BY DEF Objects
<1>4. CarriesOn(s, t)
  <2>. HIDE DEF t
  <2>. QED BY <1>1, <1>2, <1>3, SameBus
<1>. QED BY <1>4

LEMMA UpgradeStep ==
  ASSUME UniIInv, NEW i \in DOMAIN m.bus, NEW b \in BOOLEAN,
         \/ FwUpgdReqAck(i) \/ FwUpgdWritten(i) \/ FwUpgdFailed(i)
         \/ FwUpgdInfo(i, b) \/ FwUpgdStatus(i, b)
  PROVE  UniIInv'
<1>. DEFINE s == Rest(i)
            t == [s EXCEPT !.flash = @ \cup {m.bus[i].block}]
<1>1. UNCHANGED daemon /\ m.bus[i].kind \in UpgradeCommands
  BY DEF FwUpgdReqAck, FwUpgdWritten, FwUpgdFailed, FwUpgdInfo, FwUpgdStatus,
         Succeeds, Ends, UpgradeCommands
<1>2. Sound(s, clients) /\ s \in Objects
  BY <1>1, RestFacts, RestIsObject DEF ActivationCommands, UpgradeCommands
<1>3. CarriesOn(s, m')
  <2>1. CASE FwUpgdReqAck(i)
    <3>1. m' = [s EXCEPT !.timers["fwUpgdReqAck"] = @ + 1] BY <2>1 DEF FwUpgdReqAck
    <3>. QED BY <1>2, <3>1, TimerFacts
  <2>2. CASE FwUpgdWritten(i)
    <3>1. m' = FwUpgdGetStatus(t) BY <2>2 DEF FwUpgdWritten
    <3>2. m.bus[i].block \in 1 .. Blocks
      BY <2>2, RestFacts, CommandFacts DEF FwUpgdWritten, Succeeds, Ends
    <3>3. CarriesOn(s, t) BY <1>2, <3>2, FlashedFacts
    <3>. HIDE DEF s, t
    <3>4. CarriesOn(t, m') BY <3>1, <3>3, FwUpgdGetStatusFacts DEF CarriesOn
    <3>. QED BY <3>3, <3>4, OnwardTrans
  <2>3. CASE FwUpgdFailed(i)
    <3>1. m' = FwUpgdError(s) BY <2>3 DEF FwUpgdFailed
    <3>. QED BY <1>2, <3>1, FwUpgdErrorFacts
  <2>4. CASE FwUpgdInfo(i, b)
    <3>1. m' = FwUpgdGotInfo(s, b) BY <2>4 DEF FwUpgdInfo
    <3>. QED BY <1>2, <3>1, FwUpgdGotInfoFacts
  <2>5. CASE FwUpgdStatus(i, b)
    <3>1. m' = FwUpgdGotStatus(s, b) BY <2>5 DEF FwUpgdStatus
    <3>. QED BY <1>2, <3>1, FwUpgdGotStatusFacts
  <2>. QED BY <2>1, <2>2, <2>3, <2>4, <2>5
<1>. QED BY <1>1, <1>2, <1>3, CarriesSound, ObjectStep

LEMMA AttemptsFacts ==
  ASSUME NEW s \in Objects, NEW n \in 1 .. ATTEMPTS, NEW k \in Nat
  PROVE  CarriesOn(s, [s EXCEPT !.attempts[n] = k])
<1>. DEFINE t == [s EXCEPT !.attempts[n] = k]
<1>. s.attempts \in [1 .. ATTEMPTS -> Nat] BY DEF Objects
<1>1. Shaped(t) BY ObjectShape, Zenon DEF Shaped
<1>2. Typed(t) BY DEF Typed, Objects
<1>3. /\ t.bus = s.bus
      /\ t.activating => s.activating
      /\ t.config = s.config
      /\ t.configToWrite = s.configToWrite
      /\ t.whoSetOutput = s.whoSetOutput
      /\ t.active => s.active
      /\ t.outputsWant = s.outputsWant
  BY DEF Objects
<1>4. CarriesOn(s, t)
  <2>. HIDE DEF t
  <2>. QED BY <1>1, <1>2, <1>3, SameBus
<1>. QED BY <1>4

LEMMA ModuleNoInfoStep ==
  ASSUME UniIInv, NEW i \in DOMAIN m.bus, ModuleNoInfo(i)
  PROVE  UniIInv'
<1>. DEFINE s == Rest(i)
            n == m.bus[i].attempts
<1>1. UNCHANGED daemon /\ m.bus[i].kind = "ModuleInfo"
  BY DEF ModuleNoInfo, Ends
<1>2. Sound(s, clients) /\ s \in Objects
  BY <1>1, RestFacts, RestIsObject DEF ActivationCommands
<1>3. n \in 0 .. ATTEMPTS /\ ATTEMPTS \in Nat
  BY <1>1, RestFacts, CommandFacts, MtbUniAssumption
<1>4. m' = IF n > 0 THEN [s EXCEPT !.attempts[n] = @ + 1] ELSE s
  BY DEF ModuleNoInfo
<1>5. s.attempts \in [1 .. ATTEMPTS -> Nat] BY <1>2 DEF Objects
<1>. HIDE DEF s, n
<1>6. CASE n > 0
  <2>1. n \in 1 .. ATTEMPTS /\ s.attempts[n] + 1 \in Nat BY <1>3, <1>5, <1>6
  <2>2. CarriesOn(s, [s EXCEPT !.attempts[n] = s.attempts[n] + 1])
    BY <1>2, <2>1, AttemptsFacts
  <2>3. m' = [s EXCEPT !.attempts[n] = s.attempts[n] + 1] BY <1>4, <1>6
  <2>. QED BY <1>1, <1>2, <2>2, <2>3, CarriesSound, ObjectStep
<1>7. CASE ~(n > 0)
  <2>1. m' = s BY <1>4, <1>7
  <2>. QED BY <1>1, <1>2, <2>1, ObjectStep
<1>. QED BY <1>6, <1>7

-----------------------------------------------------------------------------
(* The clients' requests *)

LEMMA RequestStep ==
  ASSUME UniIInv, NEW r \in Requests, NEW kind, Receive(r, kind),
         Sound(m', clients)
  PROVE  UniIInv'
<1>1. /\ asked' = Append(asked, r)
      /\ UNCHANGED <<port, listed, clients>>
  BY DEF Receive
<1>2. asked' \in Seq(Requests)
  <2>1. asked \in Seq(Requests) BY DEF UniIInv
  <2>. QED BY <1>1, <2>1
<1>3. Sound(m, clients)' BY <1>1, SoundNext
<1>. QED BY <1>1, <1>2, <1>3 DEF UniIInv

LEMMA CarryingRequest ==
  ASSUME UniIInv, NEW r \in Requests, NEW kind, Receive(r, kind),
         CarriesOn(m, m')
  PROVE  UniIInv'
<1>1. Sound(m', clients) BY CarriesSound DEF UniIInv
<1>. QED BY <1>1, RequestStep

LEMMA JsonSetOutputStep ==
  ASSUME UniIInv, NEW r \in Requests, JsonSetOutput(r)
  PROVE  UniIInv'
<1>. DEFINE refused == \/ ~m.active
                       \/ Upgrading
                       \/ m.inBootloader
                       \/ m.configWriting # None
            new == [p \in Ports |-> IF p \in DOMAIN Outputs[r] THEN Outputs[r][p]
                                    ELSE m.outputsWant[p]]
            who == [p \in Ports |-> IF new[p] = m.outputsWant[p]
                                    THEN m.whoSetOutput[p] ELSE Socket[r]]
            wait == Append(m.setOutputsWaiting, r)
            t == [m EXCEPT !.outputsWant = new, !.whoSetOutput = who,
                           !.setOutputsWaiting = wait]
<1>0. /\ m \in Objects
      /\ m.outputsWant \in [Ports -> Values]
      /\ m.outputsConfirmed \in [Ports -> Values]
      /\ m.whoSetOutput \in [Ports -> {Socket[q] : q \in Requests} \cup {Nobody}]
      /\ m.setOutputsWaiting \in Seq(Requests \cup {Nobody})
  BY DEF UniIInv, Sound, Kept, Objects
<1>1. Receive(r, "module_set_outputs") /\ Socket[r] \in clients
  BY DEF JsonSetOutput, Receive
<1>2. m' \in {SendError(m, r), Reply(m, r, OutputsOk(m.outputsConfirmed)),
              SetOutputs(t), t}
  BY DEF JsonSetOutput
<1>3. new \in [Ports -> Values] BY <1>0, MtbUniAssumption
<1>4. /\ who \in [Ports -> {Socket[q] : q \in Requests} \cup {Nobody}]
      /\ \A p \in Ports : who[p] \in {m.whoSetOutput[p], Socket[r]}
  BY <1>0
<1>5. wait \in Seq(Requests \cup {Nobody}) BY <1>0
<1>11. \A p \in Ports : who[p] = Nobody =>
         m.whoSetOutput[p] = Nobody /\ new[p] = m.outputsWant[p]
  <2>1. Socket[r] # Nobody BY MtbUniAssumption
  <2>. QED BY <2>1
<1>6. Sound(t, clients)
  <2>. HIDE DEF refused, new, who, wait
  <2>1. Shaped(t) BY <1>0, ObjectShape, Zenon DEF Shaped
  <2>2. Typed(t) BY <1>0, <1>3, <1>4, <1>5 DEF Typed, Objects
  <2>3. /\ t.bus = m.bus
        /\ t.activating = m.activating
        /\ t.config = m.config
        /\ t.configToWrite = m.configToWrite
        /\ t.whoSetOutput = who
        /\ t.active = m.active
        /\ t.outputsWant = new
    BY <1>0 DEF Objects
  <2>. HIDE DEF t
  <2>4. HasActivation(t) BY <2>3 DEF UniIInv, Sound, HasActivation
  <2>5. Kept(m, clients) BY DEF UniIInv, Sound
  <2>6. \A p \in Ports : None \notin InitConfigs => who[p] \in clients \cup {Nobody}
    BY <1>1, <1>4, <2>5 DEF Kept, KnownModule
  <2>7. None \notin InitConfigs => KnownModule(t, clients)
    BY <2>3, <2>5, <2>6, Zenon DEF Kept, KnownModule
  <2>8. SafeStatesStay => SafeAsInFile(t) /\ SafeWhileActive(t)
    BY <1>11, <2>3, <2>5, Zenon DEF Kept, SafeAsInFile, SafeWhileActive, UnsetSafe
  <2>9. t \in Objects BY <2>1, <2>2, ObjectType
  <2>10. Kept(t, clients) BY <2>3, <2>5, <2>7, <2>8, <2>9, Zenon DEF Kept
  <2>. QED BY <2>4, <2>10 DEF Sound
<1>. HIDE DEF refused, new, who, wait, t
<1>7. CarriesOn(m, SendError(m, r)) BY <1>0, SendErrorFacts
<1>8. CarriesOn(m, Reply(m, r, OutputsOk(m.outputsConfirmed)))
  BY <1>0, ReplyFacts, ResponseTypes
<1>9. Sound(SetOutputs(t), clients)
  <2>1. t \in Objects BY <1>6 DEF Sound, Kept
  <2>. QED BY <1>6, <2>1, SetOutputsFacts, CarriesSound
<1>10. Sound(m', clients)
  BY <1>2, <1>6, <1>7, <1>8, <1>9, CarriesSound DEF UniIInv
<1>. QED BY <1>1, <1>10, RequestStep

LEMMA JsonSetConfigStep ==
  ASSUME UniIInv, NEW r \in Requests, JsonSetConfig(r)
  PROVE  UniIInv'
<1>. DEFINE refused == m.configWriting # None \/ Upgrading \/ m.inBootloader
            t == [m EXCEPT !.configToWrite = NewConfig[r], !.configWriting = r]
            c == [kind |-> "SetConfig", config |-> NewConfig[r]]
<1>0. m \in Objects /\ m.bus \in Seq(BusCommands)
  BY DEF UniIInv, Sound, Kept, Objects
<1>1. Receive(r, "module_set_config") BY DEF JsonSetConfig
<1>2. m' \in {SendError(m, r), Send(t, c), MtbBusConfigWritten(t)}
  BY DEF JsonSetConfig
<1>3. NewConfig[r] \in Configs /\ NewConfig[r] # None
  <2>1. NewConfig \in [Requests -> Configs] /\ None \notin Configs
    BY MtbUniAssumption
  <2>. QED BY <2>1
<1>4. c \in BusCommands BY <1>3 DEF BusCommands
<1>10. c.kind = "SetConfig" OBVIOUS
<1>5. /\ Sound(t, clients)
      /\ t.configToWrite # None
      /\ t.bus = m.bus
  <2>1. Shaped(t) BY <1>0, ObjectShape, Zenon DEF Shaped
  <2>2. Typed(t) BY <1>0, <1>3 DEF Typed, Objects
  <2>3. /\ t.bus = m.bus
        /\ t.activating = m.activating
        /\ t.config = m.config
        /\ t.configToWrite = NewConfig[r]
        /\ t.whoSetOutput = m.whoSetOutput
        /\ t.active = m.active
        /\ t.outputsWant = m.outputsWant
    BY <1>0 DEF Objects
  <2>. HIDE DEF t
  <2>4. Sound(m, clients) BY DEF UniIInv
  <2>6. None \notin InitConfigs => KnownModule(t, clients)
    BY <2>3, <2>4, Zenon DEF Sound, Kept, KnownModule
  <2>7. SafeStatesStay => SafeAsInFile(t)
    <3>. SUFFICES ASSUME SafeStatesStay PROVE SafeAsInFile(t)
      OBVIOUS
    <3>1. PICK k \in InitConfigs : Safe[m.config] = Safe[k]
      BY <2>4 DEF Sound, Kept, SafeAsInFile
    <3>2. Safe[NewConfig[r]] = Safe[k] BY <1>1 DEF Receive, SafeStatesStay
    <3>. QED BY <2>3, <3>1, <3>2, Zenon DEF SafeAsInFile
  <2>8. SafeStatesStay => SafeWhileActive(t)
    BY <2>3, <2>4, Zenon DEF Sound, Kept, SafeWhileActive, UnsetSafe
  <2>9. t \in Objects BY <2>1, <2>2, ObjectType
  <2>5. Kept(t, clients)
    BY <1>3, <2>3, <2>6, <2>7, <2>8, <2>9, Zenon DEF Kept
  <2>. QED BY <1>3, <2>3, <2>4, <2>5 DEF Sound, HasActivation
<1>. HIDE DEF t, c, refused
<1>6. Sound(Send(t, c), clients)
  <2>. DEFINE u == Send(t, c)
              n == Len(t.bus) + 1
  <2>0. t \in Objects BY <1>5 DEF Sound, Kept
  <2>1. /\ u \in Objects
        /\ DOMAIN u.bus = DOMAIN t.bus \cup {n}
        /\ \A i \in DOMAIN t.bus : u.bus[i] = t.bus[i]
        /\ u.bus[n] = c
        /\ u.active = t.active
        /\ u.activating = t.activating
        /\ u.config = t.config
        /\ u.configToWrite = t.configToWrite
        /\ u.whoSetOutput = t.whoSetOutput
        /\ u.outputsWant = t.outputsWant
    BY <1>4, <2>0, SentFacts
  <2>. HIDE DEF u, n
  <2>2. \A i \in DOMAIN u.bus : u.bus[i].kind = "SetConfig" => u.configToWrite # None
    BY <1>5, <2>1
  <2>3. None \notin InitConfigs =>
          \A i \in DOMAIN u.bus : u.bus[i].kind # "activate: GetConfig"
    BY <1>5, <1>10, <2>1 DEF Sound, Kept, KnownModule
  <2>4. Kept(u, clients) BY <1>5, <2>1, <2>2, <2>3, SameKept DEF Sound
  <2>5. HasActivation(u) BY <1>5, <2>1 DEF Sound, HasActivation
  <2>. QED BY <2>4, <2>5 DEF Sound, u
<1>7. Sound(MtbBusConfigWritten(t), clients) BY <1>5, MtbBusConfigWrittenFacts
<1>8. Sound(SendError(m, r), clients)
  BY <1>0, SendErrorFacts, CarriesSound DEF UniIInv
<1>9. Sound(m', clients) BY <1>2, <1>6, <1>7, <1>8
<1>. QED BY <1>1, <1>9, RequestStep

LEMMA OtherRequestStep ==
  ASSUME UniIInv, NEW r \in Requests,
         \/ JsonUpgradeFw(r) \/ JsonReboot(r) \/ JsonSetAddress(r)
         \/ JsonBeacon(r) \/ ResetMyOutputs(r)
  PROVE  UniIInv'
<1>0. m \in Objects BY DEF UniIInv, Sound, Kept
<1>1. CASE JsonUpgradeFw(r)
  <2>. DEFINE t == FwUpgradeAccepted(m, r)
  <2>1. m' \in {SendError(m, r), FwUpgdInit(t), t} BY <1>1 DEF JsonUpgradeFw
  <2>2. CarriesOn(m, t) BY <1>0, FwUpgradeAcceptedFacts
  <2>3. CarriesOn(m, SendError(m, r)) BY <1>0, SendErrorFacts
  <2>. HIDE DEF t
  <2>4. CarriesOn(t, FwUpgdInit(t)) BY <2>2, FwUpgdInitFacts DEF CarriesOn
  <2>5. CarriesOn(m, m') BY <2>1, <2>2, <2>3, <2>4, OnwardTrans
  <2>6. Receive(r, "module_upgrade_fw") BY <1>1 DEF JsonUpgradeFw
  <2>. QED BY <2>5, <2>6, CarryingRequest
<1>2. CASE JsonReboot(r)
  <2>1. m' = SendError(m, r) \/ m' = Reboot(m, r) BY <1>2 DEF JsonReboot
  <2>2. CarriesOn(m, m') BY <1>0, <2>1, SendErrorFacts, RebootFacts
  <2>3. Receive(r, "module_reboot") BY <1>2 DEF JsonReboot
  <2>. QED BY <2>2, <2>3, CarryingRequest
<1>3. CASE JsonSetAddress(r) \/ JsonBeacon(r)
  <2>. DEFINE c == [kind |-> "Forward", request |-> r]
  <2>1. m' = SendError(m, r) \/ m' = Send(m, c)
    BY <1>3 DEF JsonSetAddress, JsonBeacon
  <2>2. c \in BusCommands /\ c.kind \notin {"SetConfig", "activate: GetConfig"} BY DEF BusCommands
  <2>. HIDE DEF c
  <2>3. CarriesOn(m, m') BY <1>0, <2>1, <2>2, SendErrorFacts, SendFacts
  <2>4. Receive(r, "module_set_address") \/ Receive(r, "module_beacon")
    BY <1>3 DEF JsonSetAddress, JsonBeacon
  <2>. QED BY <2>3, <2>4, CarryingRequest
<1>4. CASE ResetMyOutputs(r)
  <2>1. m' = ClientResetOutputs(m, Socket[r], r) BY <1>4 DEF ResetMyOutputs
  <2>2. CarriesOn(m, m') BY <1>0, <2>1, ClientResetOutputsFacts
  <2>3. Receive(r, "reset_my_outputs") BY <1>4 DEF ResetMyOutputs
  <2>. QED BY <2>2, <2>3, CarryingRequest
<1>. QED BY <1>1, <1>2, <1>3, <1>4

\* The client that leaves takes its name off every output.
LEMMA ClientDisconnectedStep ==
  ASSUME UniIInv, NEW socket \in clients, ClientDisconnected(socket)
  PROVE  UniIInv'
<1>. DEFINE s == ModuleClientDisconnected(m, socket)
<1>0. m \in Objects /\ Sound(m, clients) BY DEF UniIInv, Sound, Kept
<1>1. /\ m' = ClientResetOutputs(s, socket, Nobody)
      /\ clients' = clients \ {socket}
      /\ UNCHANGED <<port, listed, asked>>
  BY DEF ClientDisconnected
<1>2. CarriesOn(m, s) /\ s \in Objects
  BY <1>0, ModuleClientDisconnectedFacts DEF CarriesOn
<1>3. Sound(s, clients) BY <1>0, <1>2, CarriesSound
<1>. HIDE DEF s
<1>4. CarriesOn(s, m') BY <1>1, <1>2, ClientResetOutputsFacts
<1>5. s.config # None =>
        \A p \in Ports : m'.whoSetOutput[p] = socket => socket = Nobody
  BY <1>1, <1>2, ClientResetOutputsFacts
<1>6. Sound(m', clients) BY <1>3, <1>4, CarriesSound
<1>7. Kept(m', clients \ {socket})
  <2>1. None \notin InitConfigs =>
          \A p \in Ports : m'.whoSetOutput[p] \in (clients \ {socket}) \cup {Nobody}
    BY <1>3, <1>5, <1>6 DEF Sound, Kept, KnownModule
  <2>2. None \notin InitConfigs => KnownModule(m', clients \ {socket})
    BY <1>6, <2>1 DEF Sound, Kept, KnownModule
  <2>. QED BY <1>6, <2>2 DEF Sound, Kept
<1>8. Sound(m, clients)'
  <2>1. Sound(m', clients') BY <1>1, <1>6, <1>7 DEF Sound
  <2>. QED BY <2>1, SoundNext
<1>. QED BY <1>1, <1>8 DEF UniIInv

-----------------------------------------------------------------------------
(* Timers and the daemon *)

LEMMA TimerStep ==
  ASSUME UniIInv, FwUpgdReqTimer \/ RebootTimer \/ ReactivateTick
  PROVE  UniIInv'
<1>0. m \in Objects /\ Sound(m, clients) BY DEF UniIInv, Sound, Kept
<1>1. CASE FwUpgdReqTimer \/ RebootTimer
  <2>1. PICK x \in {"fwUpgdReqAck", "reboot"},
             k \in {"fw: ModuleInfo", "reboot: ModuleInfo"} :
          Expires(x) /\ m' \in {Expired(x), Send(Expired(x), Cmd(k))}
    BY <1>1 DEF FwUpgdReqTimer, RebootTimer
  <2>2. CarriesOn(m, Expired(x)) BY <1>0, <2>1, TimerFacts DEF Expires, Expired
  <2>3. Cmd(k) \in BusCommands /\ Cmd(k).kind \notin {"SetConfig", "activate: GetConfig"} BY CommandTypes
  <2>4. CarriesOn(Expired(x), Send(Expired(x), Cmd(k)))
    BY <2>2, <2>3, SendFacts DEF CarriesOn
  <2>. DEFINE t == Expired(x)
              u == Send(t, Cmd(k))
  <2>5. m' \in {t, u} /\ CarriesOn(m, t) /\ CarriesOn(t, u) BY <2>1, <2>2, <2>4
  <2>6. UNCHANGED daemon BY <2>1 DEF Expires
  <2>. HIDE DEF t, u
  <2>7. CarriesOn(m, u) BY <2>5, OnwardTrans
  <2>8. CarriesOn(m, m') BY <2>5, <2>7
  <2>. QED BY <1>0, <2>6, <2>8, CarriesSound, ObjectStep
<1>2. CASE ReactivateTick
  <2>1. m' = Activate(m) /\ UNCHANGED daemon BY <1>2 DEF ReactivateTick
  <2>2. Sound(m', clients) BY <1>0, <2>1, ActivateFacts DEF Sound
  <2>. QED BY <2>1, <2>2, ObjectStep
<1>. QED BY <1>1, <1>2

LEMMA ActivateModuleFacts ==
  ASSUME NEW s \in Objects, NEW n \in 0 .. ATTEMPTS
  PROVE  CarriesOn(s, ActivateModule(s, n))
<1>. DEFINE c == [kind |-> "ModuleInfo", attempts |-> n]
<1>1. c \in BusCommands /\ c.kind \notin {"SetConfig", "activate: GetConfig"} BY DEF BusCommands
<1>. QED BY <1>1, SendFacts DEF ActivateModule

LEMMA AttemptTimerStep ==
  ASSUME UniIInv, NEW n \in 1 .. ATTEMPTS, AttemptTimer(n)
  PROVE  UniIInv'
<1>. DEFINE t == [m EXCEPT !.attempts[n] = m.attempts[n] - 1]
<1>0. m \in Objects /\ Sound(m, clients) BY DEF UniIInv, Sound, Kept
<1>1. UNCHANGED daemon /\ m.attempts[n] > 0 BY DEF AttemptTimer
<1>2. m' \in {ActivateModule(t, n - 1), t} BY DEF AttemptTimer
<1>3. CarriesOn(m, t)
  <2>1. m.attempts \in [1 .. ATTEMPTS -> Nat] BY <1>0 DEF Objects
  <2>2. m.attempts[n] \in Nat BY <2>1
  <2>3. m.attempts[n] - 1 \in Nat BY <1>1, <2>2
  <2>. QED BY <1>0, <2>3, AttemptsFacts
<1>. HIDE DEF t
<1>4. n - 1 \in 0 .. ATTEMPTS
  <2>1. ATTEMPTS \in Nat BY MtbUniAssumption
  <2>. QED BY <2>1
<1>5. CarriesOn(t, ActivateModule(t, n - 1))
  BY <1>3, <1>4, ActivateModuleFacts DEF CarriesOn
<1>6. CarriesOn(m, m') BY <1>2, <1>3, <1>5, OnwardTrans
<1>. QED BY <1>0, <1>1, <1>6, CarriesSound, ObjectStep

LEMMA InactiveFacts ==
  ASSUME NEW s \in Objects
  PROVE  CarriesOn(s, [s EXCEPT !.active = FALSE])
<1>. DEFINE t == [s EXCEPT !.active = FALSE]
<1>1. Shaped(t) BY ObjectShape, Zenon DEF Shaped
<1>2. Typed(t) BY DEF Typed, Objects
<1>3. /\ t.bus = s.bus
      /\ t.activating => s.activating
      /\ t.config = s.config
      /\ t.configToWrite = s.configToWrite
      /\ t.whoSetOutput = s.whoSetOutput
      /\ t.active => s.active
      /\ t.outputsWant = s.outputsWant
  BY DEF Objects
<1>4. CarriesOn(s, t)
  <2>. HIDE DEF t
  <2>. QED BY <1>1, <1>2, <1>3, SameBus
<1>. QED BY <1>4

LEMMA DaemonStep ==
  ASSUME UniIInv, Daemon
  PROVE  UniIInv'
<1>0. m \in Objects /\ Sound(m, clients) BY DEF UniIInv, Sound, Kept
<1>1. CASE \E n \in 1 .. ATTEMPTS : AttemptTimer(n)
  BY <1>1, AttemptTimerStep
<1>2. CASE MtbUsbGotModules \/ MtbUsbOnNewModule \/ MtbUsbOnModuleFail
           \/ Connect \/ Disconnect \/ MtbUsbDisconnected
  <2>1. CarriesOn(m, m')
    <3>1. CASE MtbUsbGotModules \/ MtbUsbOnNewModule
      <4>1. m' = m \/ m' = ActivateModule(m, ATTEMPTS)
        BY <3>1 DEF MtbUsbGotModules, MtbUsbOnNewModule
      <4>2. ATTEMPTS \in 0 .. ATTEMPTS BY MtbUniAssumption
      <4>. QED BY <1>0, <4>1, <4>2, OnwardRefl, ActivateModuleFacts
    <3>2. CASE MtbUsbOnModuleFail
      BY <1>0, <3>2, MtbBusLostFacts DEF MtbUsbOnModuleFail
    <3>3. CASE Connect \/ Disconnect
      BY <1>0, <3>3, OnwardRefl DEF Connect, Disconnect
    <3>4. CASE MtbUsbDisconnected
      <4>. DEFINE t == [m EXCEPT !.active = FALSE]
      <4>1. m' = AllOutputsReset(t) BY <3>4 DEF MtbUsbDisconnected
      <4>2. CarriesOn(m, t) BY <1>0, InactiveFacts
      <4>. HIDE DEF t
      <4>3. CarriesOn(t, m') BY <4>1, <4>2, AllOutputsResetFacts DEF CarriesOn
      <4>. QED BY <4>2, <4>3, OnwardTrans
    <3>. QED BY <1>2, <3>1, <3>2, <3>3, <3>4
  <2>2. Sound(m', clients) BY <1>0, <2>1, CarriesSound
  <2>3. /\ clients' = clients
        /\ asked' = asked
        /\ port' \in {"closed", "open", "closing"}
        /\ listed' \in BOOLEAN
    BY <1>2 DEF UniIInv, MtbUsbGotModules, MtbUsbOnNewModule, MtbUsbOnModuleFail,
               Connect, Disconnect, MtbUsbDisconnected, daemon
  <2>4. Sound(m, clients)' BY <2>2, <2>3, SoundNext
  <2>. QED BY <2>3, <2>4 DEF UniIInv
<1>. QED BY <1>1, <1>2 DEF Daemon

-----------------------------------------------------------------------------
(* The theorems *)

LEMMA InitUniIInv == Init => UniIInv
<1> SUFFICES ASSUME Init PROVE UniIInv
  OBVIOUS
<1>1. PICK file \in InitConfigs, factory \in Configs :
        m = [f \in DOMAIN NewModule \cup DOMAIN NewUni(file, factory) |->
                IF f \in DOMAIN NewModule THEN NewModule[f]
                ELSE NewUni(file, factory)[f]]
  BY DEF Init
<1>2. Shaped(m)
  <2>1. DOMAIN NewModule \cup DOMAIN NewUni(file, factory) = Fields
    BY DEF NewModule, NewUni, Fields
  <2>. QED BY <1>1, <2>1, Zenon DEF Shaped
<1>3. /\ m.bus = <<>>
      /\ m.active = FALSE
      /\ m.activating = FALSE
      /\ m.config = file
      /\ m.configToWrite = None
      /\ m.whoSetOutput = Unset
  BY <1>1 DEF NewModule, NewUni
<1>4. Typed(m)
  <2>1. file \in Configs \cup {None} BY MtbUniAssumption
  <2>2. 0 \in 0 .. MTB_MODULE_ACTIVATIONS /\ 0 \in 0 .. Blocks BY MtbUniAssumption
  <2>3. Off \in [Ports -> Values] BY MtbUniAssumption DEF Off
  <2>4. Unset \in [Ports -> {Socket[r] : r \in Requests} \cup {Nobody}] BY DEF Unset
  <2>5. /\ <<>> \in Seq(BusCommands)
        /\ <<>> \in Seq(Responses)
        /\ <<>> \in Seq(Requests \cup {Nobody})
    OBVIOUS
  <2>. QED BY <1>1, <2>1, <2>2, <2>3, <2>4, <2>5 DEF NewModule, NewUni, Typed
<1>5. Kept(m, clients)
  <2>1. m \in Objects BY <1>2, <1>4, ObjectType
  <2>2. None \notin InitConfigs => KnownModule(m, clients)
    BY <1>3 DEF KnownModule, Unset
  <2>3. SafeAsInFile(m) BY <1>3 DEF SafeAsInFile
  <2>4. SafeWhileActive(m) BY <1>3 DEF SafeWhileActive
  <2>. QED BY <1>3, <2>1, <2>2, <2>3, <2>4 DEF Kept
<1>6. HasActivation(m) BY <1>3 DEF HasActivation
<1>7. asked \in Seq(Requests) /\ port = "closed" /\ listed = FALSE BY DEF Init
<1>. QED BY <1>5, <1>6, <1>7 DEF UniIInv, Sound

LEMMA NextUniIInv == UniIInv /\ [Next]_vars => UniIInv'
<1> SUFFICES ASSUME UniIInv, [Next]_vars PROVE UniIInv'
  OBVIOUS
<1>1. ASSUME NEW r \in Requests, Request(r) PROVE UniIInv'
  BY <1>1, JsonSetOutputStep, JsonSetConfigStep, OtherRequestStep DEF Request
<1>2. ASSUME NEW socket \in clients, ClientDisconnected(socket) PROVE UniIInv'
  BY <1>2, ClientDisconnectedStep
<1>3. ASSUME NEW i \in DOMAIN m.bus, Callback(i) PROVE UniIInv'
  <2>1. TRUE \in BOOLEAN OBVIOUS
  <2>. QED BY <1>3, <2>1, OutputsStep, ConfigStep, ForwardStep, ActivationStepStep,
              ActivationFailedStep, RebootStep, GotInfoStep, UpgradeStep
           DEF Callback
<1>4. ASSUME NEW i \in DOMAIN m.bus,
             ModuleNoInfo(i) \/ \E b \in BOOLEAN : ModuleGotInfo(i, b)
      PROVE  UniIInv'
  BY <1>4, GotInfoStep, ModuleNoInfoStep
<1>5. CASE FwUpgdReqTimer \/ RebootTimer \/ ReactivateTick
  BY <1>5, TimerStep
<1>6. CASE Daemon
  BY <1>6, DaemonStep
<1>7. CASE Faulty \/ UNCHANGED vars
  <2>1. m' = m /\ UNCHANGED daemon BY <1>7 DEF Faulty, vars, daemon
  <2>2. Sound(m', clients) BY <2>1 DEF UniIInv
  <2>. QED BY <2>1, <2>2, ObjectStep
<1>. QED BY <1>1, <1>2, <1>3, <1>4, <1>5, <1>6, <1>7, Zenon DEF Next

\* The inductive invariant holds in every reachable state.
THEOREM UniInvariance == Spec => []UniIInv
BY InitUniIInv, NextUniIInv, PTL DEF Spec

\* Every variable, and every member of the object, keeps its type, whatever the
\* requests, outputs and configurations.
THEOREM UniTypeCorrect == Spec => []TypeOK
<1>1. UniIInv => TypeOK BY DEF UniIInv, Sound, Kept, TypeOK
<1>. QED BY <1>1, UniInvariance, PTL

\* A module that counts as being activated has a command under way that ends the
\* activation (activating in MtbModule is never left set for nothing).
THEOREM ActivationEnds == Spec => []ActivatingIsUnderWay
<1>1. UniIInv => ActivatingIsUnderWay
  BY DEF UniIInv, Sound, HasActivation, ActivatingIsUnderWay
<1>. QED BY <1>1, UniInvariance, PTL

\* No output keeps the socket of a client that left (whoSetOutput in MtbUni),
\* provided that the daemon's file knows the module's configuration.
THEOREM OwnersAreThere ==
  ASSUME None \notin InitConfigs
  PROVE  Spec => []NoDanglingSetter
<1>1. UniIInv => NoDanglingSetter
  BY DEF UniIInv, Sound, Kept, KnownModule, NoDanglingSetter
<1>. QED BY <1>1, UniInvariance, PTL

\* What a client set is undone when it leaves or gives its outputs up
\* (resetOutputsOfClient and allOutputsReset in MtbUni): an output of nobody is
\* wanted as the configuration's safe state says.  The daemon's file has to know
\* the module (one that it does not know becomes active in its bootloader with
\* its outputs off, before its configuration is read), and no client may set
\* other safe states (the outputs of nobody stay as the old ones say).
THEOREM LeftOutputsAreSafe ==
  ASSUME None \notin InitConfigs,
         \A c \in InitConfigs, r \in Requests :
            Kind[r] = "module_set_config" => Safe[NewConfig[r]] = Safe[c]
  PROVE  Spec => []UnsetIsSafe
<1>1. SafeStatesStay BY DEF SafeStatesStay
<1>2. UniIInv => UnsetIsSafe
  BY <1>1 DEF UniIInv, Sound, Kept, SafeWhileActive, UnsetSafe, UnsetIsSafe
<1>. QED BY <1>2, UniInvariance, PTL

-----------------------------------------------------------------------------
(* One response *)

(***************************************************************************)
(* A request waits for its response in one place, which its command tells: *)
(* a list of the sets of outputs, configWriting, fwUpgrading, or a command *)
(* of the bus.  Who waits was received and has no response yet.  K is the  *)
(* set of the requests received.                                           *)
(***************************************************************************)

\* The requests of OneResponse.
Counted == {r \in Requests \ Malformed : Kind[r] # "module_reboot"}

Open(s, K, r) == r \in K /\ s.replies[r] = <<>>

\* The command c carries the request r, for its callback to answer it.
Carries(c, r) == c.kind \in {"Forward", "ResetOutputs"} /\ c.request = r

ForwardKinds == {"module_beacon", "module_set_address", "reset_my_outputs"}

OnceFor(s, K, r) ==
    /\ Len(s.replies[r]) <= 1
    /\ s.replies[r] # <<>> => r \in K
    /\ r \in ToSet(s.setOutputsWaiting) =>
          /\ Kind[r] = "module_set_outputs" /\ Open(s, K, r)
          /\ r \notin ToSet(s.setOutputsSent)
    /\ r \in ToSet(s.setOutputsSent) =>
          Kind[r] = "module_set_outputs" /\ Open(s, K, r)
    /\ s.configWriting = r => Kind[r] = "module_set_config" /\ Open(s, K, r)
    /\ s.fwUpgrading = r => Kind[r] = "module_upgrade_fw" /\ Open(s, K, r)
    /\ \A i \in DOMAIN s.bus : Carries(s.bus[i], r) =>
          /\ Kind[r] \in ForwardKinds /\ Open(s, K, r)
          /\ \A j \in DOMAIN s.bus : Carries(s.bus[j], r) => j = i

Once(s, K) ==
    /\ s.onReboot \notin Counted
    /\ \A r \in Counted : OnceFor(s, K, r)

\* The request r has no response, and waits nowhere for one.
Free(s, K, r) ==
    /\ Open(s, K, r)
    /\ r \notin ToSet(s.setOutputsWaiting)
    /\ r \notin ToSet(s.setOutputsSent)
    /\ s.configWriting # r
    /\ s.fwUpgrading # r
    /\ \A i \in DOMAIN s.bus : ~Carries(s.bus[i], r)

\* Where requests wait is the same in s and t, and so are their responses.
SameDebts(s, t) ==
    /\ t.replies = s.replies
    /\ t.bus = s.bus
    /\ t.onReboot = s.onReboot
    /\ t.setOutputsWaiting = s.setOutputsWaiting
    /\ t.setOutputsSent = s.setOutputsSent
    /\ t.configWriting = s.configWriting
    /\ t.fwUpgrading = s.fwUpgrading

LEMMA SameOnce ==
  ASSUME NEW s, NEW t, NEW K, Once(s, K), SameDebts(s, t)
  PROVE  Once(t, K)
BY Zenon DEF Once, OnceFor, Open, SameDebts

LEMMA SameFree ==
  ASSUME NEW s, NEW t, NEW K, NEW r, Free(s, K, r), SameDebts(s, t)
  PROVE  Free(t, K, r)
BY Zenon DEF Free, Open, SameDebts

LEMMA CountedFacts ==
  ASSUME NEW r \in Counted
  PROVE  /\ r \in Requests
         /\ r \notin {None, Nobody, "upgrade"}
         /\ r \notin Malformed
         /\ Kind[r] # "module_reboot"
BY RequestNames DEF Counted

\* Requests may be forgotten.
LEMMA Forgotten ==
  ASSUME NEW s, NEW t, NEW K, Once(s, K),
         t.replies = s.replies, t.bus = s.bus,
         t.onReboot = s.onReboot,
         t.setOutputsWaiting = s.setOutputsWaiting,
         t.setOutputsSent = s.setOutputsSent,
         t.configWriting \in {s.configWriting, None, Nobody},
         t.fwUpgrading \in {s.fwUpgrading, None, Nobody}
  PROVE  Once(t, K)
<1> SUFFICES ASSUME NEW r \in Counted PROVE OnceFor(t, K, r)
  BY DEF Once
<1>1. OnceFor(s, K, r) BY DEF Once
<1>2. /\ t.configWriting = r => s.configWriting = r
      /\ t.fwUpgrading = r => s.fwUpgrading = r
  BY CountedFacts
<1>. QED BY <1>1, <1>2, Zenon DEF OnceFor, Open

Told(s, r, response) == [s.replies EXCEPT ![r] = Append(s.replies[r], response)]

\* A response changes nothing but the responses to its request.
LEMMA ReplyFields ==
  ASSUME NEW s \in Objects, NEW r, NEW response
  PROVE  LET t == Reply(s, r, response)
         IN /\ t.bus = s.bus
            /\ t.onReboot = s.onReboot
            /\ t.setOutputsWaiting = s.setOutputsWaiting
            /\ t.setOutputsSent = s.setOutputsSent
            /\ t.configWriting = s.configWriting
            /\ t.fwUpgrading = s.fwUpgrading
            /\ \/ t.replies = s.replies
               \/ t.replies = Told(s, r, response)
<1>1. CASE r # Nobody /\ Socket[r] \in clients
  <2>. DEFINE t == [s EXCEPT !.replies[r] = Append(s.replies[r], response)]
  <2>1. t = Reply(s, r, response) BY <1>1 DEF Reply
  <2>2. /\ t.bus = s.bus
        /\ t.onReboot = s.onReboot
        /\ t.setOutputsWaiting = s.setOutputsWaiting
        /\ t.setOutputsSent = s.setOutputsSent
        /\ t.configWriting = s.configWriting
        /\ t.fwUpgrading = s.fwUpgrading
        /\ t.replies = Told(s, r, response)
    BY DEF Objects, Told
  <2>. HIDE DEF t
  <2>. QED BY <1>1, <2>1, <2>2
<1>2. CASE ~(r # Nobody /\ Socket[r] \in clients)
  BY <1>2 DEF Reply
<1>. QED BY <1>1, <1>2

LEMMA OnceReply ==
  ASSUME NEW s \in Objects, NEW K, NEW r, NEW response \in Responses, Once(s, K),
         r \in Counted => Free(s, K, r)
  PROVE  Once(Reply(s, r, response), K)
<1>. DEFINE t == Reply(s, r, response)
<1>1. /\ t.bus = s.bus
      /\ t.onReboot = s.onReboot
      /\ t.setOutputsWaiting = s.setOutputsWaiting
      /\ t.setOutputsSent = s.setOutputsSent
      /\ t.configWriting = s.configWriting
      /\ t.fwUpgrading = s.fwUpgrading
      /\ \/ t.replies = s.replies
         \/ t.replies = Told(s, r, response)
  BY ReplyFields
<1>2. s.replies \in [Requests -> Seq(Responses)] BY DEF Objects
<1>. HIDE DEF t
<1>3. ASSUME NEW q \in Counted, q # r PROVE OnceFor(t, K, q)
  <2>1. t.replies[q] = s.replies[q] BY <1>1, <1>2, <1>3, CountedFacts DEF Told
  <2>2. OnceFor(s, K, q) BY DEF Once
  <2>. QED BY <1>1, <2>1, <2>2, Zenon DEF OnceFor, Open
<1>4. ASSUME r \in Counted PROVE OnceFor(t, K, r)
  <2>1. Free(s, K, r) /\ r \in Requests BY <1>4, CountedFacts
  <2>2. s.replies[r] = <<>> /\ r \in K BY <2>1 DEF Free, Open
  <2>3. t.replies[r] = <<>> \/ t.replies[r] = Append(<<>>, response)
    BY <1>1, <1>2, <2>1, <2>2 DEF Told
  <2>4. Len(Append(<<>>, response)) <= 1 /\ Len(<<>>) <= 1 OBVIOUS
  <2>5. Len(t.replies[r]) <= 1 BY <2>3, <2>4, Zenon
  <2>. QED BY <1>1, <2>1, <2>2, <2>5, Zenon DEF OnceFor, Free
<1>. QED BY <1>1, <1>3, <1>4, Zenon DEF Once, t

LEMMA OnceFault ==
  ASSUME NEW s \in Objects, NEW K, NEW what, Once(s, K)
  PROVE  Once(Fault(s, what), K)
<1>1. SameDebts(s, Fault(s, what)) BY DEF SameDebts, Fault, Objects
<1>. QED BY <1>1, SameOnce

LEMMA OnceSendError ==
  ASSUME NEW s \in Objects, NEW K, NEW r, Once(s, K), r \in Counted => Free(s, K, r)
  PROVE  Once(SendError(s, r), K)
BY OnceFault, OnceReply, ResponseTypes DEF SendError

\* What a command that is sent leaves alone.
LEMMA SendFields ==
  ASSUME NEW s \in Objects, NEW c \in BusCommands
  PROVE  LET t == Send(s, c)
         IN /\ t.replies = s.replies
            /\ t.onReboot = s.onReboot
            /\ t.setOutputsWaiting = s.setOutputsWaiting
            /\ t.setOutputsSent = s.setOutputsSent
            /\ t.configWriting = s.configWriting
            /\ t.fwUpgrading = s.fwUpgrading
BY DEF Send, Objects

LEMMA OnceSend ==
  ASSUME NEW s \in Objects, NEW K, NEW c \in BusCommands, Once(s, K),
         \A q \in Counted : Carries(c, q) => Free(s, K, q) /\ Kind[q] \in ForwardKinds
  PROVE  Once(Send(s, c), K)
<1>. DEFINE t == Send(s, c)
            n == Len(s.bus) + 1
<1>1. /\ t.replies = s.replies
      /\ t.onReboot = s.onReboot
      /\ t.setOutputsWaiting = s.setOutputsWaiting
      /\ t.setOutputsSent = s.setOutputsSent
      /\ t.configWriting = s.configWriting
      /\ t.fwUpgrading = s.fwUpgrading
  BY SendFields
<1>2. /\ DOMAIN t.bus = DOMAIN s.bus \cup {n}
      /\ \A i \in DOMAIN s.bus : t.bus[i] = s.bus[i]
      /\ t.bus[n] = c
  BY SentFacts
<1>. HIDE DEF t, n
<1> SUFFICES ASSUME NEW r \in Counted PROVE OnceFor(t, K, r)
  BY <1>1 DEF Once, t
<1>3. OnceFor(s, K, r) BY DEF Once
<1>4. ASSUME NEW i \in DOMAIN t.bus, Carries(t.bus[i], r)
      PROVE  /\ Kind[r] \in ForwardKinds /\ Open(s, K, r)
             /\ \A j \in DOMAIN t.bus : Carries(t.bus[j], r) => j = i
  <2>1. CASE Carries(c, r)
    <3>1. Free(s, K, r) /\ Kind[r] \in ForwardKinds BY <2>1
    <3>2. \A j \in DOMAIN s.bus : ~Carries(t.bus[j], r)
      BY <1>2, <3>1, Zenon DEF Free
    <3>3. \A j \in DOMAIN t.bus : Carries(t.bus[j], r) => j = n
      BY <1>2, <3>2
    <3>. QED BY <1>4, <3>1, <3>3 DEF Free
  <2>2. CASE ~Carries(c, r)
    <3>1. \A j \in DOMAIN t.bus :
            Carries(t.bus[j], r) => j \in DOMAIN s.bus /\ Carries(s.bus[j], r)
      BY <1>2, <2>2, Zenon
    <3>. QED BY <1>3, <1>4, <3>1 DEF OnceFor
  <2>. QED BY <2>1, <2>2
<1>. QED BY <1>1, <1>3, <1>4, Zenon DEF OnceFor, Open

LEMMA FreeSend ==
  ASSUME NEW s \in Objects, NEW K, NEW c \in BusCommands, NEW r, Free(s, K, r),
         ~Carries(c, r)
  PROVE  Free(Send(s, c), K, r)
<1>. DEFINE t == Send(s, c)
            n == Len(s.bus) + 1
<1>1. /\ t.replies = s.replies
      /\ t.onReboot = s.onReboot
      /\ t.setOutputsWaiting = s.setOutputsWaiting
      /\ t.setOutputsSent = s.setOutputsSent
      /\ t.configWriting = s.configWriting
      /\ t.fwUpgrading = s.fwUpgrading
  BY SendFields
<1>2. /\ DOMAIN t.bus = DOMAIN s.bus \cup {n}
      /\ \A i \in DOMAIN s.bus : t.bus[i] = s.bus[i]
      /\ t.bus[n] = c
  BY SentFacts
<1>. HIDE DEF t, n
<1>3. \A i \in DOMAIN t.bus : ~Carries(t.bus[i], r) BY <1>2, Zenon DEF Free
<1>. QED BY <1>1, <1>3, Zenon DEF Free, Open, t

LEMMA OnceSendPlain ==
  ASSUME NEW s \in Objects, NEW K, NEW c \in BusCommands, Once(s, K),
         c.kind \notin {"Forward", "ResetOutputs"}
  PROVE  Once(Send(s, c), K)
BY OnceSend DEF Carries
\* The responses depend on those before, and on who is told.
LEMMA ReplyReplies ==
  ASSUME NEW s \in Objects, NEW t \in Objects, NEW r, NEW response,
         t.replies = s.replies
  PROVE  Reply(t, r, response).replies = Reply(s, r, response).replies
<1>. DEFINE u(x) == [x EXCEPT !.replies[r] = Append(x.replies[r], response)]
<1>1. u(s).replies = Told(s, r, response) /\ u(t).replies = Told(t, r, response)
  BY DEF Objects, Told
<1>2. Told(s, r, response) = Told(t, r, response) BY DEF Told
<1>3. CASE r # Nobody /\ Socket[r] \in clients
  <2>1. Reply(s, r, response) = u(s) /\ Reply(t, r, response) = u(t)
    BY <1>3 DEF Reply
  <2>. QED BY <1>1, <1>2, <2>1, Zenon
<1>4. CASE ~(r # Nobody /\ Socket[r] \in clients)
  BY <1>4 DEF Reply
<1>. QED BY <1>3, <1>4

\* The commands of a module's own business carry no request.
LEMMA PlainCommands ==
  \A k \in {"activate: GetConfig", "activate: GetInputs",
            "activate: ResetOutputs", "Reboot", "reboot: ModuleInfo",
            "FwUpgradeReq", "fw: ModuleInfo", "FwWriteFlashStatusRequest"} :
     Cmd(k) \in BusCommands /\ Cmd(k).kind \notin {"Forward", "ResetOutputs"}
BY DEF Cmd, BusCommands

LEMMA OnceMtbBusLost ==
  ASSUME NEW s \in Objects, NEW K, Once(s, K)
  PROVE  Once(MtbBusLost(s), K)
<1>1. SameDebts(s, MtbBusLost(s)) BY DEF SameDebts, MtbBusLost, Objects
<1>. QED BY <1>1, SameOnce

\* The end of an upgrade: its request is answered and taken off at once.
LEMMA OnceUpgradeEnd ==
  ASSUME NEW s \in Objects, NEW K, NEW response \in Responses, Once(s, K)
  PROVE  Once([Reply(s, s.fwUpgrading, response) EXCEPT !.fwUpgrading = None,
                                                         !.data = 0], K)
<1>. DEFINE r == s.fwUpgrading
            t == [s EXCEPT !.fwUpgrading = None, !.data = 0]
            u == Reply(t, r, response)
            w == Reply(s, r, response)
            x == [w EXCEPT !.fwUpgrading = None, !.data = 0]
<1>1. t \in Objects BY UpgradeEndFacts DEF CarriesOn
<1>2. /\ t.replies = s.replies
      /\ t.bus = s.bus
      /\ t.onReboot = s.onReboot
      /\ t.setOutputsWaiting = s.setOutputsWaiting
      /\ t.setOutputsSent = s.setOutputsSent
      /\ t.configWriting = s.configWriting
      /\ t.fwUpgrading = None
  BY DEF Objects
<1>. HIDE DEF t
<1>3. Once(t, K) BY <1>2, Forgotten
<1>4. r \in Counted => Free(t, K, r)
  <2> SUFFICES ASSUME r \in Counted PROVE Free(t, K, r)
    OBVIOUS
  <2>1. OnceFor(s, K, r) /\ r # None BY CountedFacts DEF Once
  <2>2. Kind[r] = "module_upgrade_fw" /\ Open(s, K, r) BY <2>1 DEF OnceFor
  <2>3. "module_upgrade_fw" \notin ForwardKinds BY DEF ForwardKinds
  <2>. QED BY <1>2, <2>1, <2>2, <2>3 DEF OnceFor, Free, Open
<1>5. Once(u, K) BY <1>1, <1>3, <1>4, OnceReply
<1>6. w \in Objects BY ReplyFacts DEF CarriesOn
<1>7. /\ x.replies = w.replies
      /\ x.bus = w.bus
      /\ x.onReboot = w.onReboot
      /\ x.setOutputsWaiting = w.setOutputsWaiting
      /\ x.setOutputsSent = w.setOutputsSent
      /\ x.configWriting = w.configWriting
      /\ x.fwUpgrading = None
  <2>. HIDE DEF w
  <2>. QED BY <1>6 DEF Objects
<1>8. u.replies = w.replies
  BY <1>1, <1>2, ReplyReplies
<1>9. SameDebts(u, x)
  <2>1. /\ u.bus = s.bus
        /\ u.onReboot = s.onReboot
        /\ u.setOutputsWaiting = s.setOutputsWaiting
        /\ u.setOutputsSent = s.setOutputsSent
        /\ u.configWriting = s.configWriting
        /\ u.fwUpgrading = None
    BY <1>1, <1>2, ReplyFields
  <2>2. /\ w.bus = s.bus
        /\ w.onReboot = s.onReboot
        /\ w.setOutputsWaiting = s.setOutputsWaiting
        /\ w.setOutputsSent = s.setOutputsSent
        /\ w.configWriting = s.configWriting
    BY ReplyFields
  <2>. HIDE DEF u, w, x
  <2>. QED BY <1>7, <1>8, <2>1, <2>2, Zenon DEF SameDebts
<1>. QED BY <1>5, <1>9, SameOnce, Zenon

LEMMA OnceFwUpgdError ==
  ASSUME NEW s \in Objects, NEW K, Once(s, K)
  PROVE  Once(FwUpgdError(s), K)
BY OnceFault, OnceUpgradeEnd, ResponseTypes, Zenon DEF FwUpgdError

LEMMA OnceFwUpgdRebooted ==
  ASSUME NEW s \in Objects, NEW K, Once(s, K)
  PROVE  Once(FwUpgdRebooted(s), K)
BY OnceFwUpgdError, OnceUpgradeEnd, ResponseTypes, Zenon DEF FwUpgdRebooted

LEMMA OnceReboot ==
  ASSUME NEW s \in Objects, NEW K, NEW who \in Requests \cup {"upgrade"},
         Once(s, K), who \notin Counted
  PROVE  Once(Reboot(s, who), K)
<1>1. CASE s.rebooting
  BY <1>1 DEF Reboot
<1>2. CASE ~s.rebooting
  <2>. DEFINE t == MtbBusLost(s)
              u == [t EXCEPT !.rebooting = TRUE, !.onReboot = who,
                             !.activatedByMtbUsb = FALSE]
  <2>1. t \in Objects BY MtbBusLostFacts DEF CarriesOn
  <2>2. Once(t, K) BY OnceMtbBusLost
  <2>3. Reboot(s, who) = Send(u, Cmd("Reboot")) BY <1>2 DEF Reboot
  <2>. HIDE DEF t
  <2>4. u \in Objects BY <2>1, RebootBeginsFacts DEF CarriesOn
  <2>5. /\ u.replies = t.replies
        /\ u.bus = t.bus
        /\ u.onReboot = who
        /\ u.setOutputsWaiting = t.setOutputsWaiting
        /\ u.setOutputsSent = t.setOutputsSent
        /\ u.configWriting = t.configWriting
        /\ u.fwUpgrading = t.fwUpgrading
    BY <2>1 DEF Objects
  <2>. HIDE DEF u
  <2>6. Once(u, K) BY <2>2, <2>5, Zenon DEF Once, OnceFor, Open
  <2>. QED BY <2>3, <2>4, <2>6, OnceSendPlain, PlainCommands
<1>. QED BY <1>1, <1>2

LEMMA OnceRebootFailed ==
  ASSUME NEW s \in Objects, NEW K, Once(s, K)
  PROVE  Once(RebootFailed(s), K)
<1>. DEFINE t == [s EXCEPT !.rebooting = FALSE]
            u == SendError(t, s.onReboot)
<1>1. t \in Objects BY NotRebootingFacts DEF CarriesOn
<1>2. SameDebts(s, t) BY DEF SameDebts, Objects
<1>3. RebootFailed(s) = IF s.onReboot = "upgrade" THEN FwUpgdError(t) ELSE MtbBusLost(u)
  BY DEF RebootFailed
<1>. HIDE DEF t
<1>4. Once(t, K) BY <1>2, SameOnce
<1>5. s.onReboot \notin Counted BY DEF Once
<1>6. u \in Objects BY <1>1, SendErrorFacts DEF CarriesOn
<1>7. Once(u, K) BY <1>1, <1>4, <1>5, OnceSendError
<1>. HIDE DEF u
<1>. QED BY <1>1, <1>3, <1>4, <1>6, <1>7, OnceFwUpgdError, OnceMtbBusLost

LEMMA OnceFullyActivated ==
  ASSUME NEW s \in Objects, NEW K, Once(s, K)
  PROVE  Once(FullyActivated(s), K)
<1>. DEFINE t == [s EXCEPT !.activating = FALSE, !.activationsRemaining = 0,
                           !.active = TRUE, !.rebooting = FALSE]
<1>1. t \in Objects
  <2>. 0 \in 0 .. MTB_MODULE_ACTIVATIONS BY MtbUniAssumption
  <2>1. Shaped(t) BY ObjectShape, Zenon DEF Shaped
  <2>2. Typed(t) BY DEF Typed, Objects
  <2>. HIDE DEF t
  <2>. QED BY <2>1, <2>2, ObjectType
<1>2. SameDebts(s, t) BY DEF SameDebts, Objects
<1>3. FullyActivated(s) \in {t, FwUpgdRebooted(t), Reply(t, s.onReboot, Ok)}
  BY DEF FullyActivated
<1>. HIDE DEF t
<1>4. Once(t, K) BY <1>2, SameOnce
<1>5. s.onReboot \notin Counted BY DEF Once
<1>. QED BY <1>1, <1>3, <1>4, <1>5, OnceFwUpgdRebooted, OnceReply, ResponseTypes

LEMMA OnceFwUpgdGetStatus ==
  ASSUME NEW s \in Objects, NEW K, Once(s, K)
  PROVE  Once(FwUpgdGetStatus(s), K)
BY OnceSendPlain, PlainCommands DEF FwUpgdGetStatus

LEMMA OnceFwUpgdGotInfo ==
  ASSUME NEW s \in Objects, NEW K, NEW b \in BOOLEAN, Once(s, K)
  PROVE  Once(FwUpgdGotInfo(s, b), K)
<1>. DEFINE t == [s EXCEPT !.inBootloader = TRUE, !.toWrite = s.data]
            u == [s EXCEPT !.inBootloader = FALSE]
<1>1. t \in Objects /\ u \in Objects
  BY InBootloaderFacts, NoBootloaderFacts DEF CarriesOn
<1>2. SameDebts(s, t) /\ SameDebts(s, u) BY DEF SameDebts, Objects
<1>3. FwUpgdGotInfo(s, b) = IF b THEN FwUpgdGetStatus(t) ELSE FwUpgdError(u)
  BY DEF FwUpgdGotInfo
<1>. HIDE DEF t, u
<1>. QED BY <1>1, <1>2, <1>3, SameOnce, OnceFwUpgdGetStatus, OnceFwUpgdError

LEMMA OnceFwUpgdInit ==
  ASSUME NEW s \in Objects, NEW K, Once(s, K)
  PROVE  Once(FwUpgdInit(s), K)
BY OnceFwUpgdGotInfo, OnceSendPlain, PlainCommands DEF FwUpgdInit

LEMMA OnceFwUpgdGotStatus ==
  ASSUME NEW s \in Objects, NEW K, NEW b \in BOOLEAN, Once(s, K)
  PROVE  Once(FwUpgdGotStatus(s, b), K)
<1>. s.toWrite \in 0 .. Blocks /\ Blocks \in Nat BY Limits
<1>1. CASE b
  BY <1>1, OnceFwUpgdGetStatus DEF FwUpgdGotStatus
<1>2. CASE ~b /\ s.toWrite = 0
  <2>1. "upgrade" \notin Counted BY RequestNames DEF Counted
  <2>. QED BY <1>2, <2>1, OnceReboot DEF FwUpgdGotStatus
<1>3. CASE ~b /\ s.toWrite > 0 /\ s.data = 0
  <2>1. Once(Fault(s, "toWrite"), K) BY OnceFault
  <2>. QED BY <1>3, <2>1 DEF FwUpgdGotStatus
<1>4. CASE ~b /\ s.toWrite > 0 /\ s.data # 0
  <2>. DEFINE c == [kind |-> "FwWriteFlash", block |-> s.toWrite]
              t == Send(s, c)
              u == [t EXCEPT !.toWrite = @ - 1]
  <2>0. s.toWrite \in 1 .. Blocks BY <1>4
  <2>1. /\ c \in BusCommands
        /\ c.kind \notin {"Forward", "ResetOutputs", "SetConfig", "activate: GetConfig"}
    BY <2>0 DEF BusCommands
  <2>2. t \in Objects BY <2>1, SendFacts DEF CarriesOn
  <2>3. Once(t, K) BY <2>1, OnceSendPlain
  <2>4. FwUpgdGotStatus(s, b) = u BY <1>4 DEF FwUpgdGotStatus
  <2>. HIDE DEF c, t
  <2>5. SameDebts(t, u) BY <2>2 DEF SameDebts, Objects
  <2>. QED BY <2>3, <2>4, <2>5, SameOnce
<1>. QED BY <1>1, <1>2, <1>3, <1>4

-----------------------------------------------------------------------------
(* Outputs and configuration, for one response *)

\* The requests that wait are those of the command that is sent next; who waited
\* for an earlier one is forgotten.
LEMMA OnceSetOutputs ==
  ASSUME NEW s \in Objects, NEW K, Once(s, K)
  PROVE  Once(SetOutputs(s), K)
<1>. DEFINE t == [s EXCEPT !.setOutputsSent = s.setOutputsWaiting,
                           !.setOutputsWaiting = <<>>]
            c == [kind |-> "SetOutput", outputs |-> s.outputsWant]
<1>1. t \in Objects BY NothingSentFacts DEF CarriesOn
<1>2. /\ c \in BusCommands
      /\ c.kind \notin {"Forward", "ResetOutputs"}
  BY DEF Objects, BusCommands
<1>3. SetOutputs(s) = Send(t, c) BY DEF SetOutputs
<1>4. /\ t.replies = s.replies
      /\ t.bus = s.bus
      /\ t.onReboot = s.onReboot
      /\ t.setOutputsWaiting = <<>>
      /\ t.setOutputsSent = s.setOutputsWaiting
      /\ t.configWriting = s.configWriting
      /\ t.fwUpgrading = s.fwUpgrading
  BY DEF Objects
<1>. HIDE DEF t, c
<1>5. ToSet(<<>>) = {} BY DEF ToSet
<1>6. Once(t, K)
  <2> SUFFICES ASSUME NEW r \in Counted PROVE OnceFor(t, K, r)
    BY <1>4 DEF Once
  <2>1. OnceFor(s, K, r) BY DEF Once
  <2>. QED BY <1>4, <1>5, <2>1, Zenon DEF OnceFor, Open
<1>. QED BY <1>1, <1>2, <1>3, <1>6, OnceSendPlain

LEMMA OnceNextOutputs ==
  ASSUME NEW s \in Objects, NEW K, Once(s, K)
  PROVE  Once(NextOutputs(s), K)
BY OnceSetOutputs, OnceFwUpgdInit DEF NextOutputs

\* Each request of the list has one response, and the list is empty then.
LEMMA OnceReplySent ==
  ASSUME NEW s \in Objects, NEW K, NEW response \in Responses, Once(s, K)
  PROVE  Once(ReplySent(s, response), K)
<1>. DEFINE told == {r \in ToSet(s.setOutputsSent) \ {Nobody} : Socket[r] \in clients}
            all == [r \in Requests |->
                       IF r \in told THEN Append(s.replies[r], response)
                       ELSE s.replies[r]]
            t == [s EXCEPT !.setOutputsSent = <<>>, !.replies = all]
<1>1. t = ReplySent(s, response) BY DEF ReplySent
<1>2. /\ \A r \in Requests : r \in told => all[r] = Append(s.replies[r], response)
      /\ \A r \in Requests : r \notin told => all[r] = s.replies[r]
      /\ told \subseteq ToSet(s.setOutputsSent)
  OBVIOUS
<1>. HIDE DEF all, told
<1>3. /\ t.replies = all
      /\ t.bus = s.bus
      /\ t.onReboot = s.onReboot
      /\ t.setOutputsWaiting = s.setOutputsWaiting
      /\ t.setOutputsSent = <<>>
      /\ t.configWriting = s.configWriting
      /\ t.fwUpgrading = s.fwUpgrading
  BY DEF Objects
<1>. HIDE DEF t
<1>4. ToSet(<<>>) = {} BY DEF ToSet
<1>5. ASSUME NEW r \in Counted, r \notin told PROVE OnceFor(t, K, r)
  <2>1. t.replies[r] = s.replies[r] BY <1>2, <1>3, <1>5, CountedFacts
  <2>2. OnceFor(s, K, r) BY DEF Once
  <2>. QED BY <1>3, <1>4, <2>1, <2>2, Zenon DEF OnceFor, Open
<1>6. ASSUME NEW r \in Counted, r \in told PROVE OnceFor(t, K, r)
  <2>1. OnceFor(s, K, r) /\ r \in ToSet(s.setOutputsSent) BY <1>2, <1>6 DEF Once
  <2>2. Kind[r] = "module_set_outputs" /\ s.replies[r] = <<>> /\ r \in K
    BY <2>1 DEF OnceFor, Open
  <2>3. t.replies[r] = Append(<<>>, response) BY <1>2, <1>3, <1>6, <2>2, CountedFacts
  <2>4. Len(Append(<<>>, response)) <= 1 OBVIOUS
  <2>5. "module_set_outputs" \notin ForwardKinds BY DEF ForwardKinds
  <2>6. r \notin ToSet(t.setOutputsWaiting) /\ r \notin ToSet(t.setOutputsSent)
    BY <1>3, <1>4, <2>1, Zenon DEF OnceFor
  <2>7. t.configWriting # r /\ t.fwUpgrading # r
    BY <1>3, <2>1, <2>2 DEF OnceFor
  <2>8. \A i \in DOMAIN t.bus : ~Carries(t.bus[i], r)
    BY <1>3, <2>1, <2>2, <2>5, Zenon DEF OnceFor
  <2>9. Len(t.replies[r]) <= 1 BY <2>3, <2>4, Zenon
  <2>. QED BY <2>2, <2>6, <2>7, <2>8, <2>9, Zenon DEF OnceFor
<1>. QED BY <1>1, <1>3, <1>5, <1>6, Zenon DEF Once

LEMMA OnceMtbBusOutputsSet ==
  ASSUME NEW s \in Objects, NEW K, NEW outputs \in [Ports -> Values], Once(s, K)
  PROVE  Once(MtbBusOutputsSet(s, outputs), K)
<1>. DEFINE t == [s EXCEPT !.outputsConfirmed = outputs]
            u == ReplySent(t, OutputsOk(outputs))
<1>1. t \in Objects BY ConfirmedFacts DEF CarriesOn
<1>2. SameDebts(s, t) BY DEF SameDebts, Objects
<1>3. MtbBusOutputsSet(s, outputs) = NextOutputs(u) BY DEF MtbBusOutputsSet
<1>. HIDE DEF t
<1>4. u \in Objects BY <1>1, ReplySentFacts, ResponseTypes DEF CarriesOn
<1>5. Once(u, K) BY <1>1, <1>2, SameOnce, OnceReplySent, ResponseTypes
<1>. QED BY <1>3, <1>4, <1>5, OnceNextOutputs

LEMMA OnceMtbBusOutputsNotSet ==
  ASSUME NEW s \in Objects, NEW K, Once(s, K)
  PROVE  Once(MtbBusOutputsNotSet(s), K)
<1>. DEFINE t == ReplySent(s, Error)
            u == [t EXCEPT !.outputsConfirmed = s.outputsWant]
<1>0. s.outputsWant \in [Ports -> Values] BY DEF Objects
<1>1. t \in Objects BY ReplySentFacts, ResponseTypes DEF CarriesOn
<1>2. Once(t, K) BY OnceReplySent, ResponseTypes
<1>3. MtbBusOutputsNotSet(s) = NextOutputs(u) BY DEF MtbBusOutputsNotSet
<1>. HIDE DEF t
<1>4. u \in Objects BY <1>0, <1>1, ConfirmedFacts DEF CarriesOn
<1>5. SameDebts(t, u) BY <1>1 DEF SameDebts, Objects
<1>. HIDE DEF u
<1>. QED BY <1>2, <1>3, <1>4, <1>5, SameOnce, OnceNextOutputs

\* Nobody waits for the outputs of a client that are reset: the other requests
\* wait where they did.
LEMMA OnceResetOutputsOfClient ==
  ASSUME NEW s \in Objects, NEW K, NEW socket, Once(s, K)
  PROVE  /\ Once(ResetOutputsOfClient(s, socket), K)
         /\ \A r \in Counted : Free(s, K, r) =>
               Free(ResetOutputsOfClient(s, socket), K, r)
<1>. DEFINE mine == {p \in Ports : s.config # None /\ s.whoSetOutput[p] = socket}
            want == [p \in Ports |-> IF p \in mine THEN Safe[s.config][p]
                                     ELSE s.outputsWant[p]]
            who == [p \in Ports |-> IF p \in mine THEN Nobody
                                    ELSE s.whoSetOutput[p]]
            wait == Append(s.setOutputsWaiting, Nobody)
            t == [s EXCEPT !.outputsWant = want, !.whoSetOutput = who,
                           !.setOutputsWaiting = wait]
            v == [t EXCEPT !.setOutputsSent = t.setOutputsWaiting,
                           !.setOutputsWaiting = <<>>]
            c == [kind |-> "SetOutput", outputs |-> t.outputsWant]
<1>1. ResetOutputsOfClient(s, socket) =
        CASE mine = {} -> s
          [] mine # {} /\ s.setOutputsSent = <<>> -> SetOutputs(t)
          [] OTHER -> t
  BY DEF ResetOutputsOfClient
<1>2. ResetOutputsOfClient(s, socket) \in {s, SetOutputs(t), t} BY <1>1
<1>3. t \in Objects
  <2>1. want \in [Ports -> Values]
    <3>1. s.outputsWant \in [Ports -> Values] BY DEF Objects
    <3>2. \A p \in mine : Safe[s.config] \in [Ports -> Values] BY SafeType
    <3>. QED BY <3>1, <3>2
  <2>2. who \in [Ports -> {Socket[r] : r \in Requests} \cup {Nobody}]
    <3>1. s.whoSetOutput \in [Ports -> {Socket[r] : r \in Requests} \cup {Nobody}]
      BY DEF Objects
    <3>. QED BY <3>1
  <2>3. wait \in Seq(Requests \cup {Nobody})
    <3>1. s.setOutputsWaiting \in Seq(Requests \cup {Nobody}) BY DEF Objects
    <3>. QED BY <3>1
  <2>. HIDE DEF mine, want, who, wait
  <2>4. Shaped(t) BY ObjectShape, Zenon DEF Shaped
  <2>5. Typed(t) BY <2>1, <2>2, <2>3 DEF Typed, Objects
  <2>. HIDE DEF t
  <2>. QED BY <2>4, <2>5, ObjectType
<1>4. /\ t.replies = s.replies
      /\ t.bus = s.bus
      /\ t.onReboot = s.onReboot
      /\ t.setOutputsWaiting = wait
      /\ t.setOutputsSent = s.setOutputsSent
      /\ t.configWriting = s.configWriting
      /\ t.fwUpgrading = s.fwUpgrading
  <2>. HIDE DEF want, who, wait
  <2>. QED BY DEF Objects
<1>5. ToSet(wait) = ToSet(s.setOutputsWaiting) \cup {Nobody}
  <2>1. s.setOutputsWaiting \in Seq(Requests \cup {Nobody}) BY DEF Objects
  <2>2. Nobody \in Requests \cup {Nobody} OBVIOUS
  <2>. QED BY <2>1, <2>2, AppendFacts
<1>6. SetOutputs(t) = Send(v, c) BY DEF SetOutputs
<1>7. /\ v.replies = t.replies
      /\ v.bus = t.bus
      /\ v.setOutputsWaiting = <<>>
      /\ v.setOutputsSent = t.setOutputsWaiting
      /\ v.configWriting = t.configWriting
      /\ v.fwUpgrading = t.fwUpgrading
  <2>. HIDE DEF t
  <2>. QED BY <1>3 DEF Objects
<1>8. v \in Objects
  <2>. HIDE DEF t
  <2>. QED BY <1>3, NothingSentFacts DEF CarriesOn
<1>9. c \in BusCommands /\ c.kind \notin {"Forward", "ResetOutputs"}
  <2>. HIDE DEF t
  <2>. QED BY <1>3 DEF Objects, BusCommands
<1>. HIDE DEF mine, want, who, wait, t, v, c
<1>10. Once(t, K)
  <2> SUFFICES ASSUME NEW r \in Counted PROVE OnceFor(t, K, r)
    BY <1>4 DEF Once
  <2>1. OnceFor(s, K, r) BY DEF Once
  <2>2. r \in ToSet(t.setOutputsWaiting) => r \in ToSet(s.setOutputsWaiting)
    BY <1>4, <1>5, CountedFacts
  <2>. QED BY <1>4, <2>1, <2>2, Zenon DEF OnceFor, Open
<1>11. ASSUME NEW r \in Counted, Free(s, K, r)
       PROVE  Free(t, K, r) /\ Free(SetOutputs(t), K, r)
  <2>1. r \notin ToSet(t.setOutputsWaiting)
    BY <1>4, <1>5, <1>11, CountedFacts DEF Free
  <2>2. Free(t, K, r) BY <1>4, <1>11, <2>1, Zenon DEF Free, Open
  <2>3. ToSet(<<>>) = {} BY DEF ToSet
  <2>4. Free(v, K, r) BY <1>7, <2>2, <2>3, Zenon DEF Free, Open
  <2>5. ~Carries(c, r) BY <1>9 DEF Carries
  <2>. QED BY <1>6, <1>8, <1>9, <2>2, <2>4, <2>5, FreeSend
<1>12. Once(SetOutputs(t), K) BY <1>3, <1>10, OnceSetOutputs
<1>. QED BY <1>2, <1>10, <1>11, <1>12
LEMMA OnceAllOutputsReset ==
  ASSUME NEW s \in Objects, NEW K, Once(s, K)
  PROVE  Once(AllOutputsReset(s), K)
<1>1. SameDebts(s, AllOutputsReset(s)) BY DEF SameDebts, AllOutputsReset, Objects
<1>. QED BY <1>1, SameOnce

LEMMA OnceOutputsReset ==
  ASSUME NEW s \in Objects, NEW K, Once(s, K)
  PROVE  Once(OutputsReset(s), K)
<1>. DEFINE t == AllOutputsReset(s)
<1>1. t \in Objects BY AllOutputsResetFacts, Zenon DEF CarriesOn
<1>2. Once(t, K) BY OnceAllOutputsReset
<1>. HIDE DEF t
<1>. QED BY <1>1, <1>2, OnceFullyActivated DEF OutputsReset, t

LEMMA OnceActivate ==
  ASSUME NEW s \in Objects, NEW K, Once(s, K)
  PROVE  Once(Activate(s), K)
<1>. DEFINE t == [s EXCEPT !.activating = TRUE]
            c == IF s.config = None
                 THEN Cmd("activate: GetConfig")
                 ELSE [kind |-> "activate: SetConfig", config |-> s.config]
<1>1. t \in Objects
  <2>1. Shaped(t) BY ObjectShape, Zenon DEF Shaped
  <2>2. Typed(t) BY DEF Typed, Objects
  <2>. HIDE DEF t
  <2>. QED BY <2>1, <2>2, ObjectType
<1>2. SameDebts(s, t) BY DEF SameDebts, Objects
<1>3. c \in BusCommands /\ c.kind \notin {"Forward", "ResetOutputs"}
  <2>1. CASE s.config = None
    BY <2>1, PlainCommands
  <2>2. CASE s.config # None
    <3>1. s.config \in Configs BY <2>2 DEF Objects
    <3>. QED BY <2>2, <3>1 DEF BusCommands
  <2>. QED BY <2>1, <2>2
<1>4. Activate(s) = Send(t, c) BY DEF Activate
<1>. HIDE DEF t, c
<1>. QED BY <1>1, <1>2, <1>3, <1>4, SameOnce, OnceSendPlain

LEMMA OnceMtbBusActivate ==
  ASSUME NEW s \in Objects, NEW K, NEW b \in BOOLEAN, Once(s, K)
  PROVE  Once(MtbBusActivate(s, b), K)
<1>. DEFINE t == ModuleActivate(s, b)
<1>1. t \in Objects BY ModuleActivateFacts DEF CarriesOn
<1>2. SameDebts(s, t) BY DEF SameDebts, ModuleActivate, Objects
<1>3. MtbBusActivate(s, b) = IF b THEN OutputsReset(t) ELSE Activate(t)
  BY DEF MtbBusActivate
<1>. HIDE DEF t
<1>. QED BY <1>1, <1>2, <1>3, SameOnce, OnceOutputsReset, OnceActivate

\* The end of a write of the configuration: its request is answered and taken
\* off, and an upgrade that waited begins.
LEMMA OnceConfigDone ==
  ASSUME NEW s \in Objects, NEW K, NEW response \in Responses, Once(s, K)
  PROVE  Once(ConfigDone(s, response), K)
<1>. DEFINE r == s.configWriting
            t == [s EXCEPT !.configWriting = None]
            u == Reply(t, r, response)
            w == Reply(s, r, response)
            x == [w EXCEPT !.configWriting = None]
<1>0. ConfigDone(s, response) \in {x, FwUpgdInit(x)} BY DEF ConfigDone
<1>1. t \in Objects BY NotWritingFacts DEF CarriesOn
<1>2. /\ t.replies = s.replies
      /\ t.bus = s.bus
      /\ t.onReboot = s.onReboot
      /\ t.setOutputsWaiting = s.setOutputsWaiting
      /\ t.setOutputsSent = s.setOutputsSent
      /\ t.configWriting = None
      /\ t.fwUpgrading = s.fwUpgrading
  BY DEF Objects
<1>. HIDE DEF t
<1>3. Once(t, K) BY <1>2, Forgotten
<1>4. r \in Counted => Free(t, K, r)
  <2> SUFFICES ASSUME r \in Counted PROVE Free(t, K, r)
    OBVIOUS
  <2>1. OnceFor(s, K, r) /\ r # None BY CountedFacts DEF Once
  <2>2. Kind[r] = "module_set_config" /\ Open(s, K, r) BY <2>1 DEF OnceFor
  <2>3. "module_set_config" \notin ForwardKinds BY DEF ForwardKinds
  <2>. QED BY <1>2, <2>1, <2>2, <2>3 DEF OnceFor, Free, Open
<1>5. Once(u, K) BY <1>1, <1>3, <1>4, OnceReply
<1>6. w \in Objects BY ReplyFacts DEF CarriesOn
<1>7. /\ x.replies = w.replies
      /\ x.bus = w.bus
      /\ x.onReboot = w.onReboot
      /\ x.setOutputsWaiting = w.setOutputsWaiting
      /\ x.setOutputsSent = w.setOutputsSent
      /\ x.configWriting = None
      /\ x.fwUpgrading = w.fwUpgrading
  <2>. HIDE DEF w
  <2>. QED BY <1>6 DEF Objects
<1>8. u.replies = w.replies
  BY <1>1, <1>2, ReplyReplies
<1>9. SameDebts(u, x)
  <2>1. /\ u.bus = s.bus
        /\ u.onReboot = s.onReboot
        /\ u.setOutputsWaiting = s.setOutputsWaiting
        /\ u.setOutputsSent = s.setOutputsSent
        /\ u.configWriting = None
        /\ u.fwUpgrading = s.fwUpgrading
    BY <1>1, <1>2, ReplyFields
  <2>2. /\ w.bus = s.bus
        /\ w.onReboot = s.onReboot
        /\ w.setOutputsWaiting = s.setOutputsWaiting
        /\ w.setOutputsSent = s.setOutputsSent
        /\ w.fwUpgrading = s.fwUpgrading
    BY ReplyFields
  <2>. HIDE DEF u, w, x
  <2>. QED BY <1>7, <1>8, <2>1, <2>2, Zenon DEF SameDebts
<1>10. Once(x, K) BY <1>5, <1>9, SameOnce, Zenon
<1>11. x \in Objects
  <2>. HIDE DEF w
  <2>. QED BY <1>6, NotWritingFacts DEF CarriesOn
<1>. HIDE DEF x
<1>. QED BY <1>0, <1>10, <1>11, OnceFwUpgdInit

LEMMA OnceMtbBusConfigWritten ==
  ASSUME NEW s \in Objects, NEW K, Once(s, K)
  PROVE  Once(MtbBusConfigWritten(s), K)
<1>. DEFINE t == [s EXCEPT !.config = s.configToWrite]
<1>1. t \in Objects
  <2>1. Shaped(t) BY ObjectShape, Zenon DEF Shaped
  <2>2. Typed(t) BY DEF Typed, Objects
  <2>. HIDE DEF t
  <2>. QED BY <2>1, <2>2, ObjectType
<1>2. SameDebts(s, t) BY DEF SameDebts, Objects
<1>3. MtbBusConfigWritten(s) = ConfigDone(t, Ok) BY DEF MtbBusConfigWritten
<1>. HIDE DEF t
<1>. QED BY <1>1, <1>2, <1>3, SameOnce, OnceConfigDone, ResponseTypes

LEMMA OnceClientResetOutputs ==
  ASSUME NEW s \in Objects, NEW K, NEW socket, NEW r \in Requests \cup {Nobody},
         Once(s, K),
         r \in Counted => Free(s, K, r) /\ Kind[r] \in ForwardKinds
  PROVE  Once(ClientResetOutputs(s, socket, r), K)
<1>. DEFINE t == ResetOutputsOfClient(s, socket)
            u == AllOutputsReset(s)
            c == [kind |-> "ResetOutputs", request |-> r]
<1>1. ClientResetOutputs(s, socket, r) \in {Reply(t, r, Ok), Send(u, c), Reply(s, r, Ok)}
  BY Zenon DEF ClientResetOutputs
<1>2. t \in Objects BY ResetOutputsOfClientFacts DEF CarriesOn
<1>3. Once(t, K) /\ (r \in Counted => Free(t, K, r)) BY OnceResetOutputsOfClient
<1>4. u \in Objects BY AllOutputsResetFacts, Zenon DEF CarriesOn
<1>5. SameDebts(s, u) BY DEF SameDebts, AllOutputsReset, Objects
<1>6. c \in BusCommands BY DEF BusCommands
<1>7. \A q \in Counted : Carries(c, q) => q = r BY DEF Carries
<1>. HIDE DEF t, u, c
<1>8. Once(u, K) /\ (r \in Counted => Free(u, K, r)) BY <1>5, SameOnce, SameFree
<1>9. Once(Send(u, c), K) BY <1>4, <1>6, <1>7, <1>8, OnceSend
<1>. QED BY <1>1, <1>2, <1>3, <1>9, OnceReply, ResponseTypes

-----------------------------------------------------------------------------
(* The steps, for one response *)

Received == ToSet(asked)

OnceInv == Once(m, Received)

\* The object once the command at i was taken from the bus: who the command
\* carried waits nowhere.
LEMMA OnceRest ==
  ASSUME UniIInv, NEW K, Once(m, K), NEW i \in DOMAIN m.bus
  PROVE  /\ Once(Rest(i), K)
         /\ \A r \in Counted : Carries(m.bus[i], r) => Free(Rest(i), K, r)
<1>. DEFINE q == RemoveAt(m.bus, i)
            t == [m EXCEPT !.bus = q]
            k(j) == IF j < i THEN j ELSE j + 1
<1>. m \in Objects /\ m.bus \in Seq(BusCommands)
  BY DEF UniIInv, Sound, Kept, Objects
<1>1. /\ q \in Seq(BusCommands)
      /\ DOMAIN q = 1 .. (Len(m.bus) - 1)
      /\ \A j \in 1 .. (Len(m.bus) - 1) :
            q[j] = IF j < i THEN m.bus[j] ELSE m.bus[j + 1]
  BY RemoveAtPlaces
<1>2. DOMAIN m.bus = 1 .. Len(m.bus) /\ Len(m.bus) \in Nat OBVIOUS
<1>3. t = Rest(i) BY DEF Rest
<1>. HIDE DEF q
<1>4. \A j \in DOMAIN q : /\ k(j) \in DOMAIN m.bus
                          /\ q[j] = m.bus[k(j)]
                          /\ k(j) # i
                          /\ \A l \in DOMAIN q : k(l) = k(j) => l = j
  BY <1>1, <1>2
<1>5. /\ t.replies = m.replies
      /\ t.bus = q
      /\ t.onReboot = m.onReboot
      /\ t.setOutputsWaiting = m.setOutputsWaiting
      /\ t.setOutputsSent = m.setOutputsSent
      /\ t.configWriting = m.configWriting
      /\ t.fwUpgrading = m.fwUpgrading
  BY DEF Objects
<1>. HIDE DEF t, k
<1>6. ASSUME NEW r \in Counted
      PROVE  OnceFor(t, K, r) /\ (Carries(m.bus[i], r) => Free(t, K, r))
  <2>1. OnceFor(m, K, r) BY DEF Once
  <2>2. ASSUME NEW j \in DOMAIN q, Carries(q[j], r)
        PROVE  /\ Kind[r] \in ForwardKinds /\ Open(m, K, r)
               /\ ~Carries(m.bus[i], r)
               /\ \A l \in DOMAIN q : Carries(q[l], r) => l = j
    <3>1. Carries(m.bus[k(j)], r) /\ k(j) \in DOMAIN m.bus /\ k(j) # i
      BY <1>4, <2>2
    <3>2. \A l \in DOMAIN m.bus : Carries(m.bus[l], r) => l = k(j)
      BY <2>1, <3>1, Zenon DEF OnceFor
    <3>3. Kind[r] \in ForwardKinds /\ Open(m, K, r)
      BY <2>1, <3>1, Zenon DEF OnceFor
    <3>. QED BY <1>4, <3>1, <3>2, <3>3
  <2>3. OnceFor(t, K, r) BY <1>5, <2>1, <2>2, Zenon DEF OnceFor, Open
  <2>4. ASSUME Carries(m.bus[i], r) PROVE Free(t, K, r)
    <3>1. Kind[r] \in ForwardKinds /\ Open(m, K, r)
      BY <2>1, <2>4, Zenon DEF OnceFor
    <3>2. /\ r \notin ToSet(m.setOutputsWaiting)
          /\ r \notin ToSet(m.setOutputsSent)
          /\ m.configWriting # r
          /\ m.fwUpgrading # r
      BY <2>1, <3>1 DEF OnceFor, ForwardKinds
    <3>3. \A j \in DOMAIN t.bus : ~Carries(t.bus[j], r)
      BY <1>5, <2>2, <2>4, Zenon
    <3>. QED BY <1>5, <3>1, <3>2, <3>3, Zenon DEF Free, Open
  <2>. QED BY <2>3, <2>4
<1>. QED BY <1>3, <1>5, <1>6 DEF Once

\* A request that is received has no response, and waits nowhere.
LEMMA NewRequest ==
  ASSUME UniIInv, OnceInv, NEW r \in Requests, NEW kind, Receive(r, kind)
  PROVE  /\ ToSet(asked') = Received \cup {r}
         /\ Kind[r] = kind
         /\ Once(m, Received \cup {r})
         /\ r \in Counted => Free(m, Received \cup {r}, r)
<1>1. /\ asked' = Append(asked, r)
      /\ r \notin Received
      /\ Kind[r] = kind
  BY DEF Receive, Received
<1>2. ToSet(asked') = Received \cup {r}
  <2>1. asked \in Seq(Requests) BY DEF UniIInv
  <2>. QED BY <1>1, <2>1, AppendFacts DEF Received
<1>3. Once(m, Received \cup {r})
  <2> SUFFICES ASSUME NEW q \in Counted PROVE OnceFor(m, Received \cup {r}, q)
    BY DEF OnceInv, Once
  <2>1. OnceFor(m, Received, q) BY DEF OnceInv, Once
  <2>2. Open(m, Received, q) => Open(m, Received \cup {r}, q) BY DEF Open
  <2>. QED BY <2>1, <2>2, Zenon DEF OnceFor
<1>4. r \in Counted => Free(m, Received \cup {r}, r)
  <2> SUFFICES ASSUME r \in Counted PROVE Free(m, Received \cup {r}, r)
    OBVIOUS
  <2>1. OnceFor(m, Received, r) BY DEF OnceInv, Once
  <2>2. ~Open(m, Received, r) BY <1>1 DEF Open
  <2>3. m.replies[r] = <<>> BY <1>1, <2>1 DEF OnceFor
  <2>. QED BY <2>1, <2>2, <2>3, Zenon DEF OnceFor, Free, Open
<1>. QED BY <1>1, <1>2, <1>3, <1>4
LEMMA OnceJsonSetOutput ==
  ASSUME UniIInv, OnceInv, NEW r \in Requests, JsonSetOutput(r)
  PROVE  Once(m', ToSet(asked'))
<1>. DEFINE new == [p \in Ports |-> IF p \in DOMAIN Outputs[r] THEN Outputs[r][p]
                                    ELSE m.outputsWant[p]]
            who == [p \in Ports |-> IF new[p] = m.outputsWant[p]
                                    THEN m.whoSetOutput[p] ELSE Socket[r]]
            wait == Append(m.setOutputsWaiting, r)
            t == [m EXCEPT !.outputsWant = new, !.whoSetOutput = who,
                           !.setOutputsWaiting = wait]
            K == Received \cup {r}
<1>0. /\ m \in Objects
      /\ m.outputsWant \in [Ports -> Values]
      /\ m.outputsConfirmed \in [Ports -> Values]
      /\ m.whoSetOutput \in [Ports -> {Socket[q] : q \in Requests} \cup {Nobody}]
      /\ m.setOutputsWaiting \in Seq(Requests \cup {Nobody})
  BY DEF UniIInv, Sound, Kept, Objects
<1>1. Receive(r, "module_set_outputs") BY DEF JsonSetOutput
<1>2. /\ ToSet(asked') = K
      /\ Kind[r] = "module_set_outputs"
      /\ Once(m, K)
      /\ r \in Counted => Free(m, K, r)
  BY <1>1, NewRequest
<1>3. m' \in {SendError(m, r), Reply(m, r, OutputsOk(m.outputsConfirmed)),
              SetOutputs(t), t}
  BY DEF JsonSetOutput
<1>4. t \in Objects
  <2>1. new \in [Ports -> Values] BY <1>0, MtbUniAssumption
  <2>2. who \in [Ports -> {Socket[q] : q \in Requests} \cup {Nobody}] BY <1>0
  <2>3. wait \in Seq(Requests \cup {Nobody}) BY <1>0
  <2>. HIDE DEF new, who, wait
  <2>4. Shaped(t) BY <1>0, ObjectShape, Zenon DEF Shaped
  <2>5. Typed(t) BY <1>0, <2>1, <2>2, <2>3 DEF Typed, Objects
  <2>. HIDE DEF t
  <2>. QED BY <2>4, <2>5, ObjectType
<1>5. /\ t.replies = m.replies
      /\ t.bus = m.bus
      /\ t.onReboot = m.onReboot
      /\ t.setOutputsWaiting = wait
      /\ t.setOutputsSent = m.setOutputsSent
      /\ t.configWriting = m.configWriting
      /\ t.fwUpgrading = m.fwUpgrading
  <2>. HIDE DEF new, who, wait
  <2>. QED BY <1>0 DEF Objects
<1>6. ToSet(wait) = ToSet(m.setOutputsWaiting) \cup {r} BY <1>0, AppendFacts
<1>. HIDE DEF new, who, wait, t, K
<1>7. Once(t, K)
  <2> SUFFICES ASSUME NEW q \in Counted PROVE OnceFor(t, K, q)
    BY <1>2, <1>5 DEF Once
  <2>1. OnceFor(m, K, q) BY <1>2 DEF Once
  <2>2. CASE q = r
    <3>1. Free(m, K, r) BY <1>2, <2>2
    <3>. QED BY <1>2, <1>5, <2>1, <2>2, <3>1, Zenon DEF OnceFor, Open, Free
  <2>3. CASE q # r
    <3>1. q \in ToSet(t.setOutputsWaiting) => q \in ToSet(m.setOutputsWaiting)
      BY <1>5, <1>6, <2>3
    <3>. QED BY <1>5, <2>1, <3>1, Zenon DEF OnceFor, Open
  <2>. QED BY <2>2, <2>3
<1>8. Once(SetOutputs(t), K) BY <1>4, <1>7, OnceSetOutputs
<1>9. Once(SendError(m, r), K) BY <1>0, <1>2, OnceSendError
<1>10. Once(Reply(m, r, OutputsOk(m.outputsConfirmed)), K)
  BY <1>0, <1>2, OnceReply, ResponseTypes
<1>. QED BY <1>2, <1>3, <1>7, <1>8, <1>9, <1>10

LEMMA OnceJsonSetConfig ==
  ASSUME UniIInv, OnceInv, NEW r \in Requests, JsonSetConfig(r)
  PROVE  Once(m', ToSet(asked'))
<1>. DEFINE t == [m EXCEPT !.configToWrite = NewConfig[r], !.configWriting = r]
            c == [kind |-> "SetConfig", config |-> NewConfig[r]]
            K == Received \cup {r}
<1>0. m \in Objects BY DEF UniIInv, Sound, Kept
<1>1. Receive(r, "module_set_config") BY DEF JsonSetConfig
<1>2. /\ ToSet(asked') = K
      /\ Kind[r] = "module_set_config"
      /\ Once(m, K)
      /\ r \in Counted => Free(m, K, r)
  BY <1>1, NewRequest
<1>3. m' \in {SendError(m, r), Send(t, c), MtbBusConfigWritten(t)}
  BY DEF JsonSetConfig
<1>4. NewConfig[r] \in Configs BY MtbUniAssumption
<1>5. t \in Objects
  <2>1. Shaped(t) BY <1>0, ObjectShape, Zenon DEF Shaped
  <2>2. Typed(t) BY <1>0, <1>4 DEF Typed, Objects
  <2>. HIDE DEF t
  <2>. QED BY <2>1, <2>2, ObjectType
<1>6. /\ t.replies = m.replies
      /\ t.bus = m.bus
      /\ t.onReboot = m.onReboot
      /\ t.setOutputsWaiting = m.setOutputsWaiting
      /\ t.setOutputsSent = m.setOutputsSent
      /\ t.configWriting = r
      /\ t.fwUpgrading = m.fwUpgrading
  BY <1>0 DEF Objects
<1>7. c \in BusCommands /\ c.kind \notin {"Forward", "ResetOutputs"}
  BY <1>4 DEF BusCommands
<1>. HIDE DEF t, c, K
<1>8. Once(t, K)
  <2> SUFFICES ASSUME NEW q \in Counted PROVE OnceFor(t, K, q)
    BY <1>2, <1>6 DEF Once
  <2>1. OnceFor(m, K, q) BY <1>2 DEF Once
  <2>2. t.configWriting = q => Kind[q] = "module_set_config" /\ Open(t, K, q)
    BY <1>2, <1>6, Zenon DEF Free, Open
  <2>. QED BY <1>6, <2>1, <2>2, Zenon DEF OnceFor, Open
<1>9. Once(SendError(m, r), K) BY <1>0, <1>2, OnceSendError
<1>. QED BY <1>2, <1>3, <1>5, <1>7, <1>8, <1>9, OnceSendPlain, OnceMtbBusConfigWritten

\* The object takes the upgrade r; firmware that does not parse is refused.
LEMMA OnceAccepted ==
  ASSUME NEW s \in Objects, NEW K, NEW r \in Requests, Once(s, K),
         Kind[r] = "module_upgrade_fw", r \in Counted => Free(s, K, r)
  PROVE  Once(FwUpgradeAccepted(s, r), K)
<1>. DEFINE t == [s EXCEPT !.fwUpgrading = r]
            u == [s EXCEPT !.fwUpgrading = r, !.data = Blocks, !.flash = {}]
<1>1. ASSUME NEW x,
             x.replies = s.replies, x.bus = s.bus, x.onReboot = s.onReboot,
             x.setOutputsWaiting = s.setOutputsWaiting,
             x.setOutputsSent = s.setOutputsSent,
             x.configWriting = s.configWriting, x.fwUpgrading = r
      PROVE  Once(x, K)
  <2> SUFFICES ASSUME NEW q \in Counted PROVE OnceFor(x, K, q)
    BY <1>1 DEF Once
  <2>1. OnceFor(s, K, q) BY DEF Once
  <2>2. x.fwUpgrading = q => Kind[q] = "module_upgrade_fw" /\ Open(x, K, q)
    BY <1>1, Zenon DEF Free, Open
  <2>. QED BY <1>1, <2>1, <2>2, Zenon DEF OnceFor, Open
<1>2. /\ t.replies = s.replies /\ t.bus = s.bus /\ t.onReboot = s.onReboot
      /\ t.setOutputsWaiting = s.setOutputsWaiting
      /\ t.setOutputsSent = s.setOutputsSent
      /\ t.configWriting = s.configWriting /\ t.fwUpgrading = r
  BY DEF Objects
<1>3. /\ u.replies = s.replies /\ u.bus = s.bus /\ u.onReboot = s.onReboot
      /\ u.setOutputsWaiting = s.setOutputsWaiting
      /\ u.setOutputsSent = s.setOutputsSent
      /\ u.configWriting = s.configWriting /\ u.fwUpgrading = r
  BY DEF Objects
<1>4. t \in Objects BY UpgradeOfFacts DEF CarriesOn
<1>5. FwUpgradeAccepted(s, r) = IF r \in Malformed THEN SendError(t, r) ELSE u
  BY DEF FwUpgradeAccepted
<1>. HIDE DEF t, u
<1>6. Once(t, K) /\ Once(u, K) BY <1>1, <1>2, <1>3
<1>7. r \in Malformed => r \notin Counted BY CountedFacts
<1>. QED BY <1>4, <1>5, <1>6, <1>7, OnceSendError

LEMMA OnceOtherRequest ==
  ASSUME UniIInv, OnceInv, NEW r \in Requests,
         \/ JsonUpgradeFw(r) \/ JsonReboot(r) \/ JsonSetAddress(r)
         \/ JsonBeacon(r) \/ ResetMyOutputs(r)
  PROVE  Once(m', ToSet(asked'))
<1>. DEFINE K == Received \cup {r}
<1>0. m \in Objects BY DEF UniIInv, Sound, Kept
<1>1. PICK kind : Receive(r, kind) /\ Kind[r] = kind
  BY DEF JsonUpgradeFw, JsonReboot, JsonSetAddress, JsonBeacon, ResetMyOutputs, Receive
<1>2. /\ ToSet(asked') = K
      /\ Once(m, K)
      /\ r \in Counted => Free(m, K, r)
  BY <1>1, NewRequest
<1>. HIDE DEF K
<1>9. Once(SendError(m, r), K) BY <1>0, <1>2, OnceSendError
<1>3. CASE JsonUpgradeFw(r)
  <2>. DEFINE t == FwUpgradeAccepted(m, r)
  <2>1. Kind[r] = "module_upgrade_fw" BY <1>3 DEF JsonUpgradeFw, Receive
  <2>2. m' \in {SendError(m, r), FwUpgdInit(t), t} BY <1>3 DEF JsonUpgradeFw
  <2>3. t \in Objects BY <1>0, FwUpgradeAcceptedFacts DEF CarriesOn
  <2>4. Once(t, K) BY <1>0, <1>2, <2>1, OnceAccepted
  <2>. HIDE DEF t
  <2>. QED BY <1>2, <1>9, <2>2, <2>3, <2>4, OnceFwUpgdInit
<1>4. CASE JsonReboot(r)
  <2>1. m' = SendError(m, r) \/ m' = Reboot(m, r) BY <1>4 DEF JsonReboot
  <2>2. r \notin Counted BY <1>4, CountedFacts DEF JsonReboot, Receive
  <2>3. Once(Reboot(m, r), K) BY <1>0, <1>2, <2>2, OnceReboot
  <2>. QED BY <1>2, <1>9, <2>1, <2>3
<1>5. CASE JsonSetAddress(r) \/ JsonBeacon(r)
  <2>. DEFINE c == [kind |-> "Forward", request |-> r]
  <2>1. m' = SendError(m, r) \/ m' = Send(m, c)
    BY <1>5 DEF JsonSetAddress, JsonBeacon
  <2>2. c \in BusCommands BY DEF BusCommands
  <2>3. Kind[r] \in ForwardKinds
    BY <1>5 DEF JsonSetAddress, JsonBeacon, Receive, ForwardKinds
  <2>4. \A q \in Counted : Carries(c, q) => q = r BY DEF Carries
  <2>. HIDE DEF c
  <2>5. Once(Send(m, c), K) BY <1>0, <1>2, <2>2, <2>3, <2>4, OnceSend
  <2>. QED BY <1>2, <1>9, <2>1, <2>5
<1>6. CASE ResetMyOutputs(r)
  <2>1. m' = ClientResetOutputs(m, Socket[r], r) BY <1>6 DEF ResetMyOutputs
  <2>2. Kind[r] \in ForwardKinds BY <1>6 DEF ResetMyOutputs, Receive, ForwardKinds
  <2>3. Once(m', K) BY <1>0, <1>2, <2>1, <2>2, OnceClientResetOutputs
  <2>. QED BY <1>2, <2>3
<1>. QED BY <1>3, <1>4, <1>5, <1>6

\* The requests of a client that leaves are forgotten, or stay where they are.
LEMMA OnceClientDisconnected ==
  ASSUME UniIInv, OnceInv, NEW socket \in clients, ClientDisconnected(socket)
  PROVE  Once(m', ToSet(asked'))
<1>. DEFINE forget(r) == IF r \in Requests /\ Socket[r] = socket THEN Nobody ELSE r
            s == [m EXCEPT !.configWriting = forget(@), !.fwUpgrading = forget(@)]
<1>0. m \in Objects BY DEF UniIInv, Sound, Kept
<1>1. m' = ClientResetOutputs(s, socket, Nobody) /\ asked' = asked
  BY DEF ClientDisconnected, ModuleClientDisconnected
<1>2. s \in Objects
  BY <1>0, ModuleClientDisconnectedFacts DEF CarriesOn, ModuleClientDisconnected
<1>3. /\ s.replies = m.replies
      /\ s.bus = m.bus
      /\ s.onReboot = m.onReboot
      /\ s.setOutputsWaiting = m.setOutputsWaiting
      /\ s.setOutputsSent = m.setOutputsSent
      /\ s.configWriting \in {m.configWriting, None, Nobody}
      /\ s.fwUpgrading \in {m.fwUpgrading, None, Nobody}
  BY <1>0 DEF Objects
<1>. HIDE DEF s
<1>4. Once(s, Received) BY <1>3, Forgotten DEF OnceInv
<1>5. Nobody \notin Counted BY RequestNames DEF Counted
<1>. QED BY <1>1, <1>2, <1>4, <1>5, OnceClientResetOutputs DEF Received

LEMMA OnceCallback ==
  ASSUME UniIInv, OnceInv, NEW i \in DOMAIN m.bus,
         \/ Callback(i)
         \/ \E b \in BOOLEAN : ModuleGotInfo(i, b)
         \/ ModuleNoInfo(i)
  PROVE  Once(m', Received)
<1>. DEFINE s == Rest(i)
            held(c) == [s EXCEPT !.moduleConfig = c]
            r == m.bus[i].request
<1>1. s \in Objects BY RestIsObject
<1>2. Once(s, Received) BY OnceRest DEF OnceInv
<1>3. m.bus[i] \in BusCommands BY RestFacts
<1>. USE TRUE \in BOOLEAN
<1>4. ASSUME NEW c \in Configs
      PROVE  held(c) \in Objects /\ Once(held(c), Received)
  <2>. HIDE DEF s
  <2>1. held(c) \in Objects BY <1>1, HeldFacts DEF CarriesOn
  <2>2. SameDebts(s, held(c)) BY <1>1 DEF SameDebts, Objects
  <2>. HIDE DEF held
  <2>. QED BY <1>2, <2>1, <2>2, SameOnce
<1>5. m.moduleConfig \in Configs BY DEF UniIInv, Sound, Kept, Objects
<1>6. CASE OutputsSet(i) \/ OutputsNotSet(i)
  <2>1. m' = MtbBusOutputsSet(s, m.bus[i].outputs) \/ m' = MtbBusOutputsNotSet(s)
    BY <1>6 DEF OutputsSet, OutputsNotSet
  <2>2. m.bus[i].outputs \in [Ports -> Values]
    BY <1>3, <1>6, CommandFacts DEF OutputsSet, OutputsNotSet, Succeeds, Ends
  <2>. HIDE DEF s
  <2>. QED BY <1>1, <1>2, <2>1, <2>2, OnceMtbBusOutputsSet, OnceMtbBusOutputsNotSet
<1>7. CASE ConfigWritten(i) \/ ConfigNotWritten(i)
  <2>1. m.bus[i].config \in Configs
    BY <1>3, <1>7, CommandFacts DEF ConfigWritten, ConfigNotWritten, Succeeds, Ends
  <2>2. \E c \in Configs : m' = MtbBusConfigWritten(held(c)) \/ m' = ConfigDone(held(c), Error)
    BY <1>5, <1>7, <2>1 DEF ConfigWritten, ConfigNotWritten
  <2>. HIDE DEF held
  <2>. QED BY <1>4, <2>2, OnceMtbBusConfigWritten, OnceConfigDone, ResponseTypes
<1>8. CASE \/ ForwardOk(i) \/ ForwardFailed(i)
           \/ OutputsResetOk(i) \/ OutputsResetFailed(i)
  <2>1. m.bus[i].kind \in {"Forward", "ResetOutputs"}
    BY <1>8 DEF ForwardOk, ForwardFailed, OutputsResetOk, OutputsResetFailed,
                Succeeds, Ends
  <2>2. m' = Reply(s, r, Ok) \/ m' = SendError(s, r)
    BY <1>8 DEF ForwardOk, ForwardFailed, OutputsResetOk, OutputsResetFailed
  <2>3. r \in Counted => Free(s, Received, r)
    BY <2>1, OnceRest DEF OnceInv, Carries
  <2>. HIDE DEF s, r
  <2>. QED BY <1>1, <1>2, <2>2, <2>3, OnceReply, OnceSendError, ResponseTypes
<1>9. CASE ActivationStep(i)
  <2>1. m.bus[i].kind = "activate: SetConfig" => m.bus[i].config \in Configs
    BY <1>3, CommandFacts
  <2>. DEFINE read == [s EXCEPT !.config = m.moduleConfig]
  <2>2. \/ \E c \in Configs : m' = Send(held(c), Cmd("activate: GetInputs"))
        \/ m' = Send(read, Cmd("activate: GetInputs"))
        \/ m' = Send(s, Cmd("activate: ResetOutputs"))
        \/ m' = OutputsReset(s)
    BY <1>9, <2>1 DEF ActivationStep, Succeeds, Ends
  <2>3. read \in Objects /\ Once(read, Received)
    <3>. HIDE DEF s
    <3>1. Shaped(read) BY <1>1, ObjectShape, Zenon DEF Shaped
    <3>2. Typed(read) BY <1>1, <1>5 DEF Typed, Objects
    <3>3. SameDebts(s, read) BY <1>1 DEF SameDebts, Objects
    <3>. HIDE DEF read
    <3>. QED BY <1>2, <3>1, <3>2, <3>3, SameOnce, ObjectType
  <2>. HIDE DEF s, held, read
  <2>. QED BY <1>1, <1>2, <1>4, <2>2, <2>3, OnceSendPlain, PlainCommands, OnceOutputsReset
<1>10. CASE ActivationFailed(i)
  <2>1. m.bus[i].kind = "activate: SetConfig" => m.bus[i].config \in Configs
    BY <1>3, CommandFacts
  <2>2. PICK c \in Configs : m' = ActivationError(held(c))
    BY <1>5, <1>10, <2>1 DEF ActivationFailed
  <2>. DEFINE t == held(c)
  <2>3. t \in Objects /\ Once(t, Received) BY <1>4
  <2>. HIDE DEF t
  <2>4. SameDebts(t, ActivationError(t))
    BY <2>3 DEF SameDebts, ActivationError, Objects
  <2>. QED BY <2>2, <2>3, <2>4, SameOnce DEF t
<1>11. CASE RebootAck(i) \/ RebootError(i) \/ FwUpgdReqAck(i)
  <2>1. \/ \E x \in {"reboot", "fwUpgdReqAck"} : m' = [s EXCEPT !.timers[x] = @ + 1]
        \/ m' = RebootFailed(s)
    BY <1>11 DEF RebootAck, RebootError, FwUpgdReqAck
  <2>. HIDE DEF s
  <2>2. \A x : SameDebts(s, [s EXCEPT !.timers[x] = @ + 1])
    BY <1>1 DEF SameDebts, Objects
  <2>. QED BY <1>1, <1>2, <2>1, <2>2, SameOnce, OnceRebootFailed
<1>12. CASE \E b \in BOOLEAN : RebootGotInfo(i, b) \/ ModuleGotInfo(i, b)
  <2>1. PICK b \in BOOLEAN : m' = MtbBusActivate(s, b)
    BY <1>12 DEF RebootGotInfo, ModuleGotInfo
  <2>. HIDE DEF s
  <2>. QED BY <1>1, <1>2, <2>1, OnceMtbBusActivate
<1>13. CASE \/ FwUpgdWritten(i) \/ FwUpgdFailed(i)
            \/ \E b \in BOOLEAN : FwUpgdInfo(i, b) \/ FwUpgdStatus(i, b)
  <2>. DEFINE t == [s EXCEPT !.flash = @ \cup {m.bus[i].block}]
  <2>1. \/ FwUpgdWritten(i) /\ m' = FwUpgdGetStatus(t)
        \/ m' = FwUpgdError(s)
        \/ \E b \in BOOLEAN : m' = FwUpgdGotInfo(s, b) \/ m' = FwUpgdGotStatus(s, b)
    BY <1>13 DEF FwUpgdWritten, FwUpgdFailed, FwUpgdInfo, FwUpgdStatus
  <2>2. FwUpgdWritten(i) => m.bus[i].block \in 1 .. Blocks
    BY <1>3, CommandFacts DEF FwUpgdWritten, Succeeds, Ends
  <2>. HIDE DEF s
  <2>3. SameDebts(s, t) BY <1>1 DEF SameDebts, Objects
  <2>4. FwUpgdWritten(i) => t \in Objects BY <1>1, <2>2, FlashedFacts DEF CarriesOn
  <2>. HIDE DEF t
  <2>. QED BY <1>1, <1>2, <2>1, <2>3, <2>4, SameOnce, OnceFwUpgdGetStatus,
              OnceFwUpgdError, OnceFwUpgdGotInfo, OnceFwUpgdGotStatus
<1>14. CASE ModuleNoInfo(i)
  <2>1. m' = s \/ \E n : m' = [s EXCEPT !.attempts[n] = @ + 1]
    BY <1>14 DEF ModuleNoInfo
  <2>. HIDE DEF s
  <2>2. \A n : SameDebts(s, [s EXCEPT !.attempts[n] = @ + 1])
    BY <1>1 DEF SameDebts, Objects
  <2>. QED BY <1>2, <2>1, <2>2, SameOnce
<1>. HIDE DEF s, held, r
<1>. QED BY <1>6, <1>7, <1>8, <1>9, <1>10, <1>11, <1>12, <1>13, <1>14, Zenon DEF Callback

LEMMA OnceTimer ==
  ASSUME UniIInv, OnceInv,
         FwUpgdReqTimer \/ RebootTimer \/ ReactivateTick \/ Daemon
  PROVE  Once(m', Received)
<1>0. m \in Objects /\ Once(m, Received) BY DEF UniIInv, Sound, Kept, OnceInv
<1>1. CASE FwUpgdReqTimer \/ RebootTimer
  <2>1. PICK x \in {"fwUpgdReqAck", "reboot"},
             k \in {"fw: ModuleInfo", "reboot: ModuleInfo"} :
          Expires(x) /\ m' \in {Expired(x), Send(Expired(x), Cmd(k))}
    BY <1>1 DEF FwUpgdReqTimer, RebootTimer
  <2>2. Expired(x) \in Objects
    BY <1>0, <2>1, TimerFacts DEF Expires, Expired, CarriesOn
  <2>3. SameDebts(m, Expired(x)) BY <1>0 DEF SameDebts, Expired, Objects
  <2>4. Once(Expired(x), Received) BY <1>0, <2>3, SameOnce
  <2>. QED BY <2>1, <2>2, <2>4, OnceSendPlain, PlainCommands
<1>2. CASE ReactivateTick
  BY <1>0, <1>2, OnceActivate DEF ReactivateTick
<1>3. ASSUME NEW s \in Objects, Once(s, Received), NEW n \in 0 .. ATTEMPTS
      PROVE  Once(ActivateModule(s, n), Received)
  <2>. DEFINE c == [kind |-> "ModuleInfo", attempts |-> n]
  <2>1. c \in BusCommands /\ c.kind \notin {"Forward", "ResetOutputs"}
    BY DEF BusCommands
  <2>. QED BY <1>3, <2>1, OnceSendPlain DEF ActivateModule
<1>4. CASE \E n \in 1 .. ATTEMPTS : AttemptTimer(n)
  <2>1. PICK n \in 1 .. ATTEMPTS : AttemptTimer(n) BY <1>4
  <2>. DEFINE t == [m EXCEPT !.attempts[n] = m.attempts[n] - 1]
  <2>2. m' \in {ActivateModule(t, n - 1), t} /\ m.attempts[n] > 0
    BY <2>1 DEF AttemptTimer
  <2>3. t \in Objects
    <3>1. m.attempts \in [1 .. ATTEMPTS -> Nat] BY <1>0 DEF Objects
    <3>2. m.attempts[n] > 0 BY <2>2
    <3>3. m.attempts[n] \in Nat BY <2>1, <3>1
    <3>4. m.attempts[n] - 1 \in Nat BY <3>2, <3>3
    <3>5. CarriesOn(m, t) BY <1>0, <2>1, <3>4, AttemptsFacts
    <3>. QED BY <3>5 DEF CarriesOn
  <2>4. SameDebts(m, t) BY <1>0 DEF SameDebts, Objects
  <2>5. n - 1 \in 0 .. ATTEMPTS
    <3>1. ATTEMPTS \in Nat BY MtbUniAssumption
    <3>. QED BY <3>1
  <2>. HIDE DEF t
  <2>6. Once(t, Received) BY <1>0, <2>4, SameOnce
  <2>. QED BY <1>3, <2>2, <2>3, <2>5, <2>6
<1>5. CASE MtbUsbGotModules \/ MtbUsbOnNewModule
  <2>1. m' = m \/ m' = ActivateModule(m, ATTEMPTS)
    BY <1>5 DEF MtbUsbGotModules, MtbUsbOnNewModule
  <2>2. ATTEMPTS \in 0 .. ATTEMPTS BY MtbUniAssumption
  <2>. QED BY <1>0, <1>3, <2>1, <2>2
<1>6. CASE MtbUsbOnModuleFail
  BY <1>0, <1>6, OnceMtbBusLost DEF MtbUsbOnModuleFail
<1>7. CASE Connect \/ Disconnect
  BY <1>0, <1>7 DEF Connect, Disconnect
<1>8. CASE MtbUsbDisconnected
  <2>. DEFINE t == [m EXCEPT !.active = FALSE]
  <2>1. m' = AllOutputsReset(t) BY <1>8 DEF MtbUsbDisconnected
  <2>2. t \in Objects BY <1>0, InactiveFacts DEF CarriesOn
  <2>3. SameDebts(m, t) BY <1>0 DEF SameDebts, Objects
  <2>. HIDE DEF t
  <2>. QED BY <1>0, <2>1, <2>2, <2>3, SameOnce, OnceAllOutputsReset
<1>. QED BY <1>1, <1>2, <1>4, <1>5, <1>6, <1>7, <1>8, Zenon DEF Daemon

\* OnceInv is about the object and the requests received.
LEMMA OnceLater ==
  ASSUME Once(m', ToSet(asked'))
  PROVE  OnceInv'
BY DEF OnceInv, Received, Once, OnceFor, Open, Carries, Counted, ForwardKinds, ToSet

LEMMA InitOnceInv == Init => OnceInv
<1> SUFFICES ASSUME Init PROVE OnceInv
  OBVIOUS
<1>1. PICK file \in InitConfigs, factory \in Configs :
        m = [f \in DOMAIN NewModule \cup DOMAIN NewUni(file, factory) |->
                IF f \in DOMAIN NewModule THEN NewModule[f]
                ELSE NewUni(file, factory)[f]]
  BY DEF Init
<1>2. /\ m.replies = [r \in Requests |-> <<>>]
      /\ m.bus = <<>>
      /\ m.onReboot = None
      /\ m.setOutputsWaiting = <<>>
      /\ m.setOutputsSent = <<>>
      /\ m.configWriting = None
      /\ m.fwUpgrading = None
  BY <1>1 DEF NewModule, NewUni
<1>3. ToSet(<<>>) = {} BY DEF ToSet
<1>4. None \notin Counted BY RequestNames DEF Counted
<1>5. ASSUME NEW r \in Counted PROVE OnceFor(m, Received, r)
  <2>1. m.replies[r] = <<>> BY <1>2, CountedFacts
  <2>2. Len(<<>>) <= 1 /\ DOMAIN <<>> = {} OBVIOUS
  <2>. QED BY <1>2, <1>3, <1>4, <2>1, <2>2 DEF OnceFor
<1>. QED BY <1>2, <1>4, <1>5 DEF OnceInv, Once

LEMMA NextOnceInv == UniIInv /\ OnceInv /\ [Next]_vars => OnceInv'
<1> SUFFICES ASSUME UniIInv, OnceInv, [Next]_vars PROVE OnceInv'
  OBVIOUS
<1>1. ASSUME Once(m', Received), asked' = asked PROVE OnceInv'
  BY <1>1, OnceLater DEF Received
<1>2. ASSUME NEW r \in Requests, Request(r) PROVE OnceInv'
  BY <1>2, OnceJsonSetOutput, OnceJsonSetConfig, OnceOtherRequest, OnceLater DEF Request
<1>3. ASSUME NEW socket \in clients, ClientDisconnected(socket) PROVE OnceInv'
  BY <1>3, OnceClientDisconnected, OnceLater
<1>4. ASSUME NEW i \in DOMAIN m.bus,
             \/ Callback(i)
             \/ \E b \in BOOLEAN : ModuleGotInfo(i, b)
             \/ ModuleNoInfo(i)
      PROVE  OnceInv'
  <2>1. asked' = asked
    BY <1>4 DEF Callback, OutputsSet, OutputsNotSet, ConfigWritten, ConfigNotWritten,
         ForwardOk, ForwardFailed, OutputsResetOk, OutputsResetFailed, ActivationStep,
         ActivationFailed, RebootAck, RebootError, FwUpgdReqAck, FwUpgdWritten,
         FwUpgdFailed, RebootGotInfo, FwUpgdInfo, FwUpgdStatus, ModuleGotInfo,
         ModuleNoInfo, Succeeds, Ends, daemon
  <2>. QED BY <1>1, <1>4, <2>1, OnceCallback
<1>5. CASE FwUpgdReqTimer \/ RebootTimer \/ ReactivateTick \/ Daemon
  <2>1. asked' = asked
    BY <1>5 DEF FwUpgdReqTimer, RebootTimer, ReactivateTick, Daemon, MtbUsbGotModules,
         MtbUsbOnNewModule, AttemptTimer, MtbUsbOnModuleFail, Connect, Disconnect,
         MtbUsbDisconnected, Expires, daemon
  <2>. QED BY <1>1, <1>5, <2>1, OnceTimer
<1>6. CASE Faulty \/ UNCHANGED vars
  <2>1. m' = m /\ asked' = asked BY <1>6 DEF Faulty, vars
  <2>. QED BY <1>1, <2>1 DEF OnceInv
<1>. QED BY <1>2, <1>3, <1>4, <1>5, <1>6, Zenon DEF Next

\* A client gets at most one response to what it asked of the module, in whatever
\* order the bus, the port, the timers and the other clients act (the callbacks
\* of jsonSetOutput, jsonSetConfig, jsonUpgradeFw and the commands that are
\* passed on): each request waits in one place, and is taken off it in the step
\* that answers it.
THEOREM AnsweredAtMostOnce == Spec => []OneResponse
<1>1. OnceInv => OneResponse
  BY DEF OnceInv, Once, OnceFor, Counted, OneResponse
<1>2. UniIInv /\ [Next]_vars => UniIInv' BY NextUniIInv
<1>3. UniIInv /\ OnceInv /\ [Next]_vars => OnceInv' BY NextOnceInv
<1>. QED BY <1>1, <1>2, <1>3, InitUniIInv, InitOnceInv, PTL DEF Spec

-----------------------------------------------------------------------------
(* Upgrades *)

(***************************************************************************)
(* An upgrade is a chain of commands, of which one is under way or its     *)
(* timer runs, until the module reboots.  A handler that runs at the end   *)
(* of a command holds what the command stood for (h): the chain, the only  *)
(* write (of outputs or of a configuration), or an activation.             *)
(***************************************************************************)

Has(q, K) == \E i \in DOMAIN q : q[i].kind \in K

Single(q, K) ==
    \A i, j \in DOMAIN q : q[i].kind \in K /\ q[j].kind \in K => i = j

Writes == {"SetOutput", "SetConfig"}

\* No two commands that set outputs or the configuration are under way.
OneWrite == Single(m.bus, Writes)

RebootCommands == {"Reboot", "reboot: ModuleInfo"}

Steps == ActivationCommands \cup RebootCommands

Chained(s, h) ==
    \/ Has(s.bus, UpgradeCommands)
    \/ s.timers["fwUpgdReqAck"] # 0
    \/ h = "chain"

\* The upgrade runs, or waits for a write; the upgrade with firmware that does
\* not parse, which nothing carries on, does not count.
Busied(s, h) ==
    /\ s.fwUpgrading # None
    /\ Chained(s, h) \/ Has(s.bus, Writes) \/ h = "write"

NoAttempts(s) == \A n \in 1 .. ATTEMPTS : s.attempts[n] = 0

OneChain(s, h) ==
    /\ Single(s.bus, UpgradeCommands)
    /\ s.timers["fwUpgdReqAck"] \in {0, 1}
    /\ s.timers["fwUpgdReqAck"] # 0 => ~Has(s.bus, UpgradeCommands)
    /\ h = "chain" =>
          ~Has(s.bus, UpgradeCommands) /\ s.timers["fwUpgdReqAck"] = 0
    /\ Chained(s, h) =>
          /\ s.fwUpgrading # None
          /\ ~Has(s.bus, Writes) /\ h # "write"
          /\ ~(s.rebooting /\ s.onReboot = "upgrade")

\* Who asked for a write is known while it is under way.
Pending(s) ==
    Has(s.bus, Writes) => s.setOutputsSent # <<>> \/ s.configWriting # None

\* What brings a module back that reboots is one thing at a time.
RebootAlone(s, h) ==
    /\ s.timers["reboot"] \in {0, 1}
    /\ Has(s.bus, RebootCommands) \/ s.timers["reboot"] # 0 => s.rebooting
    /\ s.rebooting =>
          /\ s.onReboot # None
          /\ NoAttempts(s) /\ ~Has(s.bus, {"ModuleInfo"})
          /\ Single(s.bus, Steps)
          /\ s.timers["reboot"] # 0 => ~Has(s.bus, Steps)
          /\ h = "activation" => ~Has(s.bus, Steps) /\ s.timers["reboot"] = 0
          /\ s.activationsRemaining # 0 =>
                ~Has(s.bus, RebootCommands) /\ s.timers["reboot"] = 0
          /\ ~s.activating => ~Has(s.bus, ActivationCommands)

\* Nothing activates the module during an upgrade but the end of a reboot.
NotActivated(s, h) ==
    Busied(s, h) =>
        /\ NoAttempts(s) /\ ~Has(s.bus, {"ModuleInfo"})
        /\ ~s.rebooting =>
              /\ ~s.activating /\ s.activationsRemaining = 0
              /\ ~Has(s.bus, ActivationCommands) /\ h # "activation"

\* The commands that write a block write the one after the next to write.
Block(q, n) == \A i \in DOMAIN q : q[i].kind = "FwWriteFlash" => q[i].block = n + 1

\* The module holds the blocks that were written, and all once it reboots.
Flashed(s, h) ==
    /\ s.fwUpgrading \in Requests \ Malformed => s.data = Blocks
    /\ s.fwUpgrading \in Requests \cap Malformed => s.replies[s.fwUpgrading] # <<>>
    /\ s.rebooting /\ s.onReboot = "upgrade" =>
          /\ s.fwUpgrading # None
          /\ ~Has(s.bus, Writes) /\ h # "write"
          /\ 1 .. s.data \subseteq s.flash
    /\ Has(s.bus, {"FwWriteFlashStatusRequest"}) =>
          s.toWrite <= s.data /\ (s.toWrite + 1) .. s.data \subseteq s.flash
    /\ Has(s.bus, {"FwWriteFlash"}) =>
          s.toWrite < s.data /\ (s.toWrite + 2) .. s.data \subseteq s.flash
    /\ Block(s.bus, s.toWrite)

\* A request waits where the requests of its kind do.
Asks(q) ==
    \A i \in DOMAIN q : \A r \in Requests :
        Carries(q[i], r) => Kind[r] \in ForwardKinds

Placed(s) ==
    /\ s.fwUpgrading \in Requests => Kind[s.fwUpgrading] = "module_upgrade_fw"
    /\ s.configWriting \in Requests => Kind[s.configWriting] = "module_set_config"
    /\ s.onReboot \in Requests => Kind[s.onReboot] = "module_reboot"
    /\ Asks(s.bus)

\* When clients leave, an error may be sent to one that did.
Excused == IF "leave" \in Events THEN {None, "deleted socket"} ELSE {None}

Upgrades(s, h) ==
    /\ OneChain(s, h)
    /\ Pending(s)
    /\ RebootAlone(s, h)
    /\ NotActivated(s, h)
    /\ Flashed(s, h)
    /\ Placed(s)
    /\ s.fault \in Excused

\* No request for an upgrade is told "ok".
Silent(s, t) ==
    \A r \in Requests :
        Kind[r] = "module_upgrade_fw" /\ Ok \in ToSet(t.replies[r]) =>
            Ok \in ToSet(s.replies[r])

\* Every client is there, unless clients may leave.
AllThere == "leave" \in Events \/ \A r \in Requests : Socket[r] \in clients

LEMMA HasAppend ==
  ASSUME NEW q \in Seq(BusCommands), NEW c \in BusCommands
  PROVE  LET a == Append(q, c)
         IN /\ \A K : Has(a, K) <=> Has(q, K) \/ c.kind \in K
            /\ \A K : Single(q, K) /\ (c.kind \notin K \/ ~Has(q, K)) => Single(a, K)
            /\ \A n : Block(q, n) /\ (c.kind = "FwWriteFlash" => c.block = n + 1)
                         => Block(a, n)
            /\ Asks(q) /\ (\A r \in Requests : Carries(c, r) => Kind[r] \in ForwardKinds)
                  => Asks(a)
<1>. DEFINE a == Append(q, c)
            n == Len(q) + 1
<1>1. /\ DOMAIN a = DOMAIN q \cup {n}
      /\ n \notin DOMAIN q
      /\ \A i \in DOMAIN q : a[i] = q[i]
      /\ a[n] = c
  OBVIOUS
<1>. HIDE DEF a, n
<1>2. \A K : Has(a, K) <=> Has(q, K) \/ c.kind \in K
  BY <1>1, Zenon DEF Has
<1>3. ASSUME NEW K, Single(q, K), c.kind \notin K \/ ~Has(q, K)
      PROVE  Single(a, K)
  BY <1>1, <1>3, Zenon DEF Single, Has
<1>4. ASSUME NEW k, Block(q, k), c.kind = "FwWriteFlash" => c.block = k + 1
      PROVE  Block(a, k)
  BY <1>1, <1>4, Zenon DEF Block
<1>5. ASSUME Asks(q), \A r \in Requests : Carries(c, r) => Kind[r] \in ForwardKinds
      PROVE  Asks(a)
  BY <1>1, <1>5, Zenon DEF Asks
<1>. QED BY <1>2, <1>3, <1>4, <1>5 DEF a

LEMMA HasRemoved ==
  ASSUME NEW q \in Seq(BusCommands), NEW i \in DOMAIN q
  PROVE  LET a == RemoveAt(q, i)
         IN /\ \A K : Has(a, K) => Has(q, K)
            /\ \A K : Has(q, K) => Has(a, K) \/ q[i].kind \in K
            /\ \A K : Single(q, K) => Single(a, K) /\ (q[i].kind \in K => ~Has(a, K))
            /\ \A n : Block(q, n) => Block(a, n)
            /\ Asks(q) => Asks(a)
<1>. DEFINE a == RemoveAt(q, i)
            k(j) == IF j < i THEN j ELSE j + 1
            l(j) == IF j < i THEN j ELSE j - 1
<1>1. /\ DOMAIN a = 1 .. (Len(q) - 1)
      /\ \A j \in 1 .. (Len(q) - 1) : a[j] = IF j < i THEN q[j] ELSE q[j + 1]
  BY RemoveAtPlaces
<1>2. DOMAIN q = 1 .. Len(q) /\ Len(q) \in Nat OBVIOUS
<1>. HIDE DEF a
<1>3. \A j \in DOMAIN a : /\ k(j) \in DOMAIN q
                          /\ a[j] = q[k(j)]
                          /\ k(j) # i
                          /\ \A x \in DOMAIN a : k(x) = k(j) => x = j
  BY <1>1, <1>2
<1>4. \A j \in DOMAIN q : j # i => l(j) \in DOMAIN a /\ a[l(j)] = q[j]
  BY <1>1, <1>2
<1>. HIDE DEF k, l
<1>5. \A K : Has(a, K) => Has(q, K)
  BY <1>3, Zenon DEF Has
<1>6. \A K : Has(q, K) => Has(a, K) \/ q[i].kind \in K
  BY <1>4, Zenon DEF Has
<1>7. ASSUME NEW K, Single(q, K)
      PROVE  Single(a, K) /\ (q[i].kind \in K => ~Has(a, K))
  BY <1>3, <1>7, Zenon DEF Single, Has
<1>8. \A n : Block(q, n) => Block(a, n)
  BY <1>3, Zenon DEF Block
<1>9. Asks(q) => Asks(a)
  BY <1>3, Zenon DEF Asks
<1>. QED BY <1>5, <1>6, <1>7, <1>8, <1>9 DEF a

LEMMA Kinships ==
  ASSUME NEW q
  PROVE  /\ Has(q, Steps) <=> Has(q, ActivationCommands) \/ Has(q, RebootCommands)
         /\ Has(q, {"FwWriteFlashStatusRequest"}) => Has(q, UpgradeCommands)
         /\ Has(q, {"FwWriteFlash"}) => Has(q, UpgradeCommands)
         /\ ~Has(q, UpgradeCommands) => \A n : Block(q, n)
<1>1. Has(q, Steps) <=> Has(q, ActivationCommands) \/ Has(q, RebootCommands)
  BY DEF Has, Steps
<1>2. /\ Has(q, {"FwWriteFlashStatusRequest"}) => Has(q, UpgradeCommands)
      /\ Has(q, {"FwWriteFlash"}) => Has(q, UpgradeCommands)
  BY DEF Has, UpgradeCommands
<1>3. ~Has(q, UpgradeCommands) => \A n : Block(q, n)
  BY DEF Has, UpgradeCommands, Block
<1>. QED BY <1>1, <1>2, <1>3

\* What a response leaves as it is, and more.
SameWork(s, t) ==
    /\ t.bus = s.bus
    /\ t.timers = s.timers
    /\ t.attempts = s.attempts
    /\ t.rebooting = s.rebooting
    /\ t.onReboot = s.onReboot
    /\ t.activating = s.activating
    /\ t.activationsRemaining = s.activationsRemaining
    /\ t.fwUpgrading = s.fwUpgrading
    /\ t.data = s.data
    /\ t.toWrite = s.toWrite
    /\ t.flash = s.flash
    /\ t.setOutputsSent = s.setOutputsSent
    /\ t.configWriting = s.configWriting
    /\ s.fault \in Excused => t.fault \in Excused

Answers(s, t) == \A r \in Requests : s.replies[r] # <<>> => t.replies[r] # <<>>

LEMMA SameUpgrades ==
  ASSUME NEW s, NEW t, NEW h, Upgrades(s, h), SameWork(s, t), Answers(s, t)
  PROVE  Upgrades(t, h)
<1>1. OneChain(t, h) BY DEF Upgrades, OneChain, Chained, SameWork
<1>2. Pending(t) /\ Placed(t) /\ t.fault \in Excused
  BY DEF Upgrades, Pending, Placed, SameWork
<1>3. RebootAlone(t, h) BY DEF Upgrades, RebootAlone, NoAttempts, SameWork
<1>4. NotActivated(t, h)
  BY DEF Upgrades, NotActivated, Busied, Chained, NoAttempts, SameWork
<1>5. Flashed(t, h) BY DEF Upgrades, Flashed, SameWork, Answers
<1>. QED BY <1>1, <1>2, <1>3, <1>4, <1>5 DEF Upgrades

LEMMA SilentTrans ==
  ASSUME NEW s, NEW t, NEW u, Silent(s, t), Silent(t, u)
  PROVE  Silent(s, u)
BY Zenon DEF Silent

LEMMA SilentSame ==
  ASSUME NEW s, NEW t, t.replies = s.replies
  PROVE  Silent(s, t) /\ Answers(s, t)
BY Zenon DEF Silent, Answers

LEMMA ResponseNames ==
  /\ Error # Ok
  /\ \A o : OutputsOk(o) # Ok
<1>1. Error.status = "error" /\ Ok.status = "ok" BY DEF Error, Ok
<1>2. ASSUME NEW o PROVE OutputsOk(o) # Ok
  <2>1. DOMAIN OutputsOk(o) = {"status", "outputs"} /\ DOMAIN Ok = {"status"}
    BY DEF OutputsOk, Ok
  <2>. QED BY <2>1
<1>. QED BY <1>1, <1>2

LEMMA ReplyWork ==
  ASSUME NEW s \in Objects, NEW r, NEW response \in Responses
  PROVE  LET t == Reply(s, r, response)
         IN /\ SameWork(s, t)
            /\ Answers(s, t)
            /\ t.active = s.active
            /\ t.inBootloader = s.inBootloader
            /\ \A q \in Requests : q # r => t.replies[q] = s.replies[q]
            /\ response # Ok \/ r \notin Requests => Silent(s, t)
            /\ r \in Requests /\ Socket[r] \in clients => t.replies[r] # <<>>
<1>. DEFINE new == Append(s.replies[r], response)
            t == [s EXCEPT !.replies[r] = new]
<1>1. s.replies \in [Requests -> Seq(Responses)] BY DEF Objects
<1>2. CASE r # Nobody /\ Socket[r] \in clients
  <2>1. t = Reply(s, r, response) BY <1>2 DEF Reply
  <2>2. /\ SameWork(s, t)
        /\ t.active = s.active
        /\ t.inBootloader = s.inBootloader
    BY DEF Objects, SameWork
  <2>3. t.replies = [s.replies EXCEPT ![r] = new] BY DEF Objects
  <2>. HIDE DEF t
  <2>4. \A q \in Requests : q # r => t.replies[q] = s.replies[q]
    BY <1>1, <2>3
  <2>5. r \in Requests => t.replies[r] = new BY <1>1, <2>3
  <2>6. r \in Requests => new # <<>> /\ ToSet(new) = ToSet(s.replies[r]) \cup {response}
    <3> SUFFICES ASSUME r \in Requests
                 PROVE  new # <<>> /\ ToSet(new) = ToSet(s.replies[r]) \cup {response}
      OBVIOUS
    <3>1. s.replies[r] \in Seq(Responses) BY <1>1
    <3>. QED BY <3>1, AppendFacts
  <2>. HIDE DEF new
  <2>7. Answers(s, t) BY <2>4, <2>5, <2>6, Zenon DEF Answers
  <2>8. ASSUME response # Ok \/ r \notin Requests PROVE Silent(s, t)
    <3> SUFFICES ASSUME NEW q \in Requests, Ok \in ToSet(t.replies[q])
                 PROVE  Ok \in ToSet(s.replies[q])
      BY DEF Silent
    <3>1. CASE q # r
      BY <2>4, <3>1
    <3>2. CASE q = r
      BY <2>5, <2>6, <2>8, <3>2
    <3>. QED BY <3>1, <3>2
  <2>. QED BY <2>1, <2>2, <2>4, <2>5, <2>6, <2>7, <2>8
<1>3. CASE ~(r # Nobody /\ Socket[r] \in clients)
  <2>1. Reply(s, r, response) = s BY <1>3 DEF Reply
  <2>2. r \in Requests => r # Nobody BY RequestNames
  <2>. QED BY <1>3, <2>1, <2>2, SilentSame DEF SameWork
<1>. HIDE DEF t
<1>. QED BY <1>2, <1>3

LEMMA KindSilent ==
  ASSUME NEW s, NEW t, NEW r,
         \A q \in Requests : q # r => t.replies[q] = s.replies[q],
         r \in Requests => Kind[r] # "module_upgrade_fw"
  PROVE  Silent(s, t)
BY Zenon DEF Silent

LEMMA UpgradesReply ==
  ASSUME NEW s \in Objects, NEW r, NEW response \in Responses, NEW h, Upgrades(s, h),
         response # Ok \/ (r \in Requests => Kind[r] # "module_upgrade_fw")
  PROVE  LET t == Reply(s, r, response)
         IN t \in Objects /\ Upgrades(t, h) /\ Silent(s, t)
<1>1. Reply(s, r, response) \in Objects BY ReplyFacts DEF CarriesOn
<1>2. Upgrades(Reply(s, r, response), h) BY ReplyWork, SameUpgrades
<1>3. Silent(s, Reply(s, r, response)) BY ReplyWork, KindSilent
<1>. QED BY <1>1, <1>2, <1>3

\* An error is written to nobody, to a client, or to one that left.
LEMMA SendErrorWork ==
  ASSUME AllThere, NEW s \in Objects, NEW r \in Requests \cup {Nobody}
  PROVE  LET t == SendError(s, r)
         IN /\ t \in Objects
            /\ SameWork(s, t)
            /\ Answers(s, t)
            /\ Silent(s, t)
<1>. DEFINE f == Fault(s, "deleted socket")
            w == Reply(s, r, Error)
<1>1. \/ SendError(s, r) \in {s, w}
      \/ SendError(s, r) = f /\ "leave" \in Events
  BY RequestNames DEF SendError, AllThere
<1>2. SendError(s, r) \in Objects BY SendErrorFacts DEF CarriesOn
<1>3. SameWork(s, s) /\ Answers(s, s) /\ Silent(s, s) BY SilentSame DEF SameWork
<1>4. Error \in Responses /\ Error # Ok BY ResponseTypes, ResponseNames
<1>5. SameWork(s, w) /\ Answers(s, w) /\ Silent(s, w) BY <1>4, ReplyWork
<1>6. ASSUME "leave" \in Events PROVE SameWork(s, f) /\ Answers(s, f) /\ Silent(s, f)
  <2>1. SameWork(s, f) /\ f.replies = s.replies
    BY <1>6 DEF Fault, Objects, SameWork, Excused
  <2>. HIDE DEF f
  <2>. QED BY <2>1, SilentSame
<1>. HIDE DEF f, w
<1>. QED BY <1>1, <1>2, <1>3, <1>5, <1>6

LEMMA UpgradesSendError ==
  ASSUME AllThere, NEW s \in Objects, NEW r \in Requests \cup {Nobody}, NEW h,
         Upgrades(s, h)
  PROVE  LET t == SendError(s, r)
         IN t \in Objects /\ Upgrades(t, h) /\ Silent(s, t)
BY SendErrorWork, SameUpgrades

-----------------------------------------------------------------------------
(* Commands that are sent, during an upgrade *)

\* All but the bus as it was.
SameButBus(s, t) ==
    /\ t.timers = s.timers
    /\ t.attempts = s.attempts
    /\ t.rebooting = s.rebooting
    /\ t.onReboot = s.onReboot
    /\ t.activating = s.activating
    /\ t.activationsRemaining = s.activationsRemaining
    /\ t.fwUpgrading = s.fwUpgrading
    /\ t.data = s.data
    /\ t.toWrite = s.toWrite
    /\ t.flash = s.flash
    /\ t.setOutputsSent = s.setOutputsSent
    /\ t.configWriting = s.configWriting
    /\ t.fault = s.fault
    /\ t.replies = s.replies

LEMMA SendWork ==
  ASSUME NEW s \in Objects, NEW c \in BusCommands
  PROVE  LET t == Send(s, c)
         IN /\ t.bus = Append(s.bus, c)
            /\ SameButBus(s, t)
            /\ \A K : Has(t.bus, K) <=> Has(s.bus, K) \/ c.kind \in K
            /\ \A K : Single(s.bus, K) /\ (c.kind \notin K \/ ~Has(s.bus, K))
                         => Single(t.bus, K)
            /\ \A n : Block(s.bus, n) /\ (c.kind = "FwWriteFlash" => c.block = n + 1)
                         => Block(t.bus, n)
            /\ Asks(s.bus)
               /\ (\A r \in Requests : Carries(c, r) => Kind[r] \in ForwardKinds)
                  => Asks(t.bus)
            /\ Silent(s, t)
<1>1. Send(s, c).bus = Append(s.bus, c) /\ SameButBus(s, Send(s, c))
  BY DEF Send, Objects, SameButBus
<1>2. s.bus \in Seq(BusCommands) BY DEF Objects
<1>3. Silent(s, Send(s, c)) BY <1>1, SilentSame DEF SameButBus
<1>. QED BY <1>1, <1>2, <1>3, HasAppend

Classes ==
    {UpgradeCommands, Writes, {"ModuleInfo"}, RebootCommands, Steps,
     ActivationCommands, {"FwWriteFlashStatusRequest"}, {"FwWriteFlash"}}

\* A command that is none of the upgrade, the activation or a write.
LEMMA UpgradesSendOther ==
  ASSUME NEW s \in Objects, NEW c \in BusCommands, NEW h, Upgrades(s, h),
         c.kind \in {"Forward", "ResetOutputs"},
         \A r \in Requests : Carries(c, r) => Kind[r] \in ForwardKinds
  PROVE  Upgrades(Send(s, c), h)
<1>. DEFINE t == Send(s, c)
<1>1. /\ SameButBus(s, t)
      /\ \A K : Has(t.bus, K) <=> Has(s.bus, K) \/ c.kind \in K
      /\ \A K : Single(s.bus, K) /\ (c.kind \notin K \/ ~Has(s.bus, K))
                   => Single(t.bus, K)
      /\ \A n : Block(s.bus, n) /\ (c.kind = "FwWriteFlash" => c.block = n + 1)
                   => Block(t.bus, n)
      /\ Asks(s.bus) => Asks(t.bus)
  BY SendWork
<1>2. \A K \in Classes : c.kind \notin K
  BY DEF Classes, UpgradeCommands, Writes, RebootCommands, Steps, ActivationCommands
<1>3. c.kind # "FwWriteFlash" OBVIOUS
<1>4. \A K \in Classes :
        /\ Has(t.bus, K) <=> Has(s.bus, K)
        /\ Single(s.bus, K) => Single(t.bus, K)
  BY <1>1, <1>2, Zenon
<1>5. \A n : Block(s.bus, n) => Block(t.bus, n) BY <1>1, <1>3, Zenon
<1>. HIDE DEF t
<1>6. OneChain(t, h) BY <1>1, <1>4 DEF Classes, Upgrades, OneChain, Chained, SameButBus
<1>7. Pending(t) /\ Placed(t) /\ t.fault \in Excused
  BY <1>1, <1>4 DEF Classes, Upgrades, Pending, Placed, SameButBus
<1>8. RebootAlone(t, h) BY <1>1, <1>4 DEF Classes, Upgrades, RebootAlone, NoAttempts, SameButBus
<1>9. NotActivated(t, h)
  BY <1>1, <1>4 DEF Classes, Upgrades, NotActivated, Busied, Chained, NoAttempts, SameButBus
<1>10. Flashed(t, h) BY <1>1, <1>4, <1>5 DEF Classes, Upgrades, Flashed, SameButBus
<1>. QED BY <1>6, <1>7, <1>8, <1>9, <1>10 DEF Upgrades, t

\* The chain goes on.
LEMMA UpgradesSendChain ==
  ASSUME NEW s \in Objects, NEW c \in BusCommands, Upgrades(s, "chain"),
         c.kind \in UpgradeCommands,
         c.kind = "FwWriteFlashStatusRequest" =>
            s.toWrite <= s.data /\ (s.toWrite + 1) .. s.data \subseteq s.flash,
         c.kind = "FwWriteFlash" =>
            /\ c.block = s.toWrite + 1
            /\ s.toWrite < s.data
            /\ (s.toWrite + 2) .. s.data \subseteq s.flash
  PROVE  Upgrades(Send(s, c), "nothing")
<1>. DEFINE t == Send(s, c)
<1>1. /\ SameButBus(s, t)
      /\ \A K : Has(t.bus, K) <=> Has(s.bus, K) \/ c.kind \in K
      /\ \A K : Single(s.bus, K) /\ (c.kind \notin K \/ ~Has(s.bus, K))
                   => Single(t.bus, K)
      /\ \A n : Block(s.bus, n) /\ (c.kind = "FwWriteFlash" => c.block = n + 1)
                   => Block(t.bus, n)
  BY SendWork
<1>2. \A K \in {Writes, {"ModuleInfo"}, RebootCommands, Steps,
                ActivationCommands} : c.kind \notin K
  BY DEF UpgradeCommands, Writes, RebootCommands, Steps, ActivationCommands
<1>3. c.kind \in UpgradeCommands OBVIOUS
<1>4. \A K \in {Writes, {"ModuleInfo"}, RebootCommands, Steps,
                ActivationCommands} :
        /\ Has(t.bus, K) <=> Has(s.bus, K)
        /\ Single(s.bus, K) => Single(t.bus, K)
  BY <1>1, <1>2, Zenon
<1>5. Block(s.bus, s.toWrite) => Block(t.bus, s.toWrite) BY <1>1, Zenon
<1>6. Asks(s.bus) => Asks(t.bus)
  <2>1. \A r \in Requests : ~Carries(c, r)
    BY DEF UpgradeCommands, Carries
  <2>. QED BY <2>1, SendWork
<1>7. /\ ~Has(s.bus, UpgradeCommands)
      /\ Has(t.bus, UpgradeCommands)
      /\ Single(s.bus, UpgradeCommands) => Single(t.bus, UpgradeCommands)
  BY <1>1, <1>3 DEF Upgrades, OneChain
<1>8. Has(t.bus, {"FwWriteFlashStatusRequest"}) =>
        s.toWrite <= s.data /\ (s.toWrite + 1) .. s.data \subseteq s.flash
  <2>1. ~Has(s.bus, {"FwWriteFlashStatusRequest"}) BY <1>7, Kinships
  <2>2. Has(t.bus, {"FwWriteFlashStatusRequest"}) =>
          c.kind \in {"FwWriteFlashStatusRequest"}
    BY <1>1, <2>1, Zenon
  <2>. QED BY <2>2
<1>0. Has(t.bus, {"FwWriteFlash"}) =>
        s.toWrite < s.data /\ (s.toWrite + 2) .. s.data \subseteq s.flash
  <2>1. ~Has(s.bus, {"FwWriteFlash"}) BY <1>7, Kinships
  <2>2. Has(t.bus, {"FwWriteFlash"}) => c.kind \in {"FwWriteFlash"}
    BY <1>1, <2>1, Zenon
  <2>. QED BY <2>2
<1>. HIDE DEF t
<1>9. OneChain(t, "nothing")
  BY <1>1, <1>4, <1>7 DEF Upgrades, OneChain, Chained, SameButBus
<1>10. Pending(t) /\ Placed(t) /\ t.fault \in Excused
  BY <1>1, <1>4, <1>6 DEF Upgrades, Pending, Placed, SameButBus
<1>11. RebootAlone(t, "nothing") BY <1>1, <1>4 DEF Upgrades, RebootAlone, NoAttempts, SameButBus
<1>12. NotActivated(t, "nothing")
  BY <1>1, <1>4 DEF Upgrades, NotActivated, Busied, Chained, NoAttempts, SameButBus
<1>13. Flashed(t, "nothing") BY <1>0, <1>1, <1>4, <1>5, <1>8 DEF Upgrades, Flashed, SameButBus
<1>. QED BY <1>9, <1>10, <1>11, <1>12, <1>13 DEF Upgrades, t

\* The next command of an activation, or the question after a reboot.
LEMMA UpgradesSendStep ==
  ASSUME NEW s \in Objects, NEW c \in BusCommands, Upgrades(s, "activation"),
         \/ c.kind \in ActivationCommands /\ (s.rebooting => s.activating)
         \/ c.kind = "reboot: ModuleInfo" /\ s.rebooting /\ s.activationsRemaining = 0
  PROVE  Upgrades(Send(s, c), "nothing")
<1>. DEFINE t == Send(s, c)
<1>1. /\ SameButBus(s, t)
      /\ \A K : Has(t.bus, K) <=> Has(s.bus, K) \/ c.kind \in K
      /\ \A K : Single(s.bus, K) /\ (c.kind \notin K \/ ~Has(s.bus, K))
                   => Single(t.bus, K)
      /\ \A n : Block(s.bus, n) /\ (c.kind = "FwWriteFlash" => c.block = n + 1)
                   => Block(t.bus, n)
  BY SendWork
<1>2. /\ c.kind \notin UpgradeCommands
      /\ c.kind \notin Writes
      /\ c.kind \notin {"ModuleInfo"}
      /\ c.kind \notin {"FwWriteFlashStatusRequest"}
      /\ c.kind \notin {"FwWriteFlash"}
      /\ c.kind \in ActivationCommands => c.kind \notin RebootCommands
      /\ c.kind = "reboot: ModuleInfo" =>
            c.kind \notin ActivationCommands
      /\ \A r \in Requests : ~Carries(c, r)
  BY DEF UpgradeCommands, Writes, RebootCommands, ActivationCommands, Carries
<1>3. /\ Has(t.bus, UpgradeCommands) <=> Has(s.bus, UpgradeCommands)
      /\ Has(t.bus, Writes) <=> Has(s.bus, Writes)
      /\ Has(t.bus, {"ModuleInfo"}) <=> Has(s.bus, {"ModuleInfo"})
      /\ Has(t.bus, {"FwWriteFlashStatusRequest"})
            <=> Has(s.bus, {"FwWriteFlashStatusRequest"})
      /\ Has(t.bus, {"FwWriteFlash"}) <=> Has(s.bus, {"FwWriteFlash"})
      /\ Single(s.bus, UpgradeCommands) => Single(t.bus, UpgradeCommands)
  BY <1>1, <1>2, Zenon
<1>4. \A n : Block(s.bus, n) => Block(t.bus, n)
  <2>1. c.kind # "FwWriteFlash" BY <1>2
  <2>. QED BY <1>1, <2>1, Zenon
<1>5. Asks(s.bus) => Asks(t.bus) BY <1>2, SendWork
<1>6. s.rebooting =>
        /\ ~Has(s.bus, Steps) /\ ~Has(s.bus, RebootCommands)
        /\ ~Has(s.bus, ActivationCommands)
        /\ s.timers["reboot"] = 0
  BY Kinships DEF Upgrades, RebootAlone
<1>7. s.rebooting => Single(t.bus, Steps)
  BY <1>1, <1>6, Zenon DEF Upgrades, RebootAlone
<1>8. /\ c.kind \in ActivationCommands =>
            (Has(t.bus, RebootCommands) <=> Has(s.bus, RebootCommands))
      /\ c.kind = "reboot: ModuleInfo" =>
            (Has(t.bus, ActivationCommands) <=> Has(s.bus, ActivationCommands))
  BY <1>1, <1>2, Zenon
<1>. HIDE DEF t
<1>9. OneChain(t, "nothing")
  BY <1>1, <1>3 DEF Upgrades, OneChain, Chained, SameButBus
<1>10. Pending(t) /\ Placed(t) /\ t.fault \in Excused
  BY <1>1, <1>3, <1>5 DEF Upgrades, Pending, Placed, SameButBus
<1>11. RebootAlone(t, "nothing")
  BY <1>1, <1>3, <1>6, <1>7, <1>8 DEF Upgrades, RebootAlone, NoAttempts, SameButBus
<1>12. NotActivated(t, "nothing")
  BY <1>1, <1>3 DEF Upgrades, NotActivated, Busied, Chained, NoAttempts, SameButBus
<1>13. Flashed(t, "nothing") BY <1>1, <1>3, <1>4 DEF Upgrades, Flashed, SameButBus
<1>. QED BY <1>9, <1>10, <1>11, <1>12, <1>13 DEF Upgrades, t

\* A write that follows the one that ended, or any while no upgrade counts.
LEMMA UpgradesSendWrite ==
  ASSUME NEW s \in Objects, NEW c \in BusCommands, Upgrades(s, "write"),
         c.kind \in Writes, s.setOutputsSent # <<>> \/ s.configWriting # None
  PROVE  Upgrades(Send(s, c), "nothing")
<1>. DEFINE t == Send(s, c)
<1>1. /\ SameButBus(s, t)
      /\ \A K : Has(t.bus, K) <=> Has(s.bus, K) \/ c.kind \in K
      /\ \A K : Single(s.bus, K) /\ (c.kind \notin K \/ ~Has(s.bus, K))
                   => Single(t.bus, K)
      /\ \A n : Block(s.bus, n) /\ (c.kind = "FwWriteFlash" => c.block = n + 1)
                   => Block(t.bus, n)
  BY SendWork
<1>2. /\ \A K \in {UpgradeCommands, {"ModuleInfo"}, RebootCommands, Steps,
                   ActivationCommands, {"FwWriteFlashStatusRequest"},
                   {"FwWriteFlash"}} : c.kind \notin K
      /\ \A r \in Requests : ~Carries(c, r)
  BY DEF UpgradeCommands, Writes, RebootCommands, Steps, ActivationCommands, Carries
<1>4. \A K \in {UpgradeCommands, {"ModuleInfo"}, RebootCommands, Steps,
                ActivationCommands, {"FwWriteFlashStatusRequest"},
                {"FwWriteFlash"}} :
        /\ Has(t.bus, K) <=> Has(s.bus, K)
        /\ Single(s.bus, K) => Single(t.bus, K)
  BY <1>1, <1>2, Zenon
<1>5. \A n : Block(s.bus, n) => Block(t.bus, n)
  <2>1. c.kind # "FwWriteFlash" BY DEF Writes
  <2>. QED BY <1>1, <2>1, Zenon
<1>6. Asks(s.bus) => Asks(t.bus) BY <1>2, SendWork
<1>. HIDE DEF t
<1>7. ~Chained(s, "nothing") BY DEF Upgrades, OneChain, Chained
<1>8. OneChain(t, "nothing")
  BY <1>1, <1>4, <1>7 DEF Upgrades, OneChain, Chained, SameButBus
<1>9. Pending(t) /\ Placed(t) /\ t.fault \in Excused
  BY <1>1, <1>4, <1>6 DEF Upgrades, Pending, Placed, SameButBus
<1>10. RebootAlone(t, "nothing") BY <1>1, <1>4 DEF Upgrades, RebootAlone, NoAttempts, SameButBus
<1>11. NotActivated(t, "nothing")
  BY <1>1, <1>4 DEF Upgrades, NotActivated, Busied, Chained, NoAttempts, SameButBus
<1>12. Flashed(t, "nothing") BY <1>1, <1>4, <1>5 DEF Upgrades, Flashed, SameButBus
<1>. QED BY <1>8, <1>9, <1>10, <1>11, <1>12 DEF Upgrades, t

\* The daemon asks a module that appeared.
LEMMA UpgradesSendInfo ==
  ASSUME NEW s \in Objects, NEW c \in BusCommands, Upgrades(s, "nothing"),
         c.kind = "ModuleInfo", ~s.rebooting, ~Busied(s, "nothing")
  PROVE  Upgrades(Send(s, c), "nothing")
<1>. DEFINE t == Send(s, c)
<1>1. /\ SameButBus(s, t)
      /\ \A K : Has(t.bus, K) <=> Has(s.bus, K) \/ c.kind \in K
      /\ \A K : Single(s.bus, K) /\ (c.kind \notin K \/ ~Has(s.bus, K))
                   => Single(t.bus, K)
      /\ \A n : Block(s.bus, n) /\ (c.kind = "FwWriteFlash" => c.block = n + 1)
                   => Block(t.bus, n)
  BY SendWork
<1>2. /\ \A K \in {UpgradeCommands, Writes, RebootCommands,
                   {"FwWriteFlashStatusRequest"}, {"FwWriteFlash"}} : c.kind \notin K
      /\ \A r \in Requests : ~Carries(c, r)
  BY DEF UpgradeCommands, Writes, RebootCommands, Carries
<1>3. \A K \in {UpgradeCommands, Writes, RebootCommands,
                {"FwWriteFlashStatusRequest"}, {"FwWriteFlash"}} :
        /\ Has(t.bus, K) <=> Has(s.bus, K)
        /\ Single(s.bus, K) => Single(t.bus, K)
  BY <1>1, <1>2, Zenon
<1>4. \A n : Block(s.bus, n) => Block(t.bus, n)
  <2>1. c.kind # "FwWriteFlash" OBVIOUS
  <2>. QED BY <1>1, <2>1, Zenon
<1>5. Asks(s.bus) => Asks(t.bus) BY <1>2, SendWork
<1>. HIDE DEF t
<1>6. OneChain(t, "nothing")
  BY <1>1, <1>3 DEF Upgrades, OneChain, Chained, SameButBus
<1>7. Pending(t) /\ Placed(t) /\ t.fault \in Excused
  BY <1>1, <1>3, <1>5 DEF Upgrades, Pending, Placed, SameButBus
<1>8. RebootAlone(t, "nothing")
  BY <1>1, <1>3 DEF Upgrades, RebootAlone, SameButBus
<1>9. NotActivated(t, "nothing")
  BY <1>1, <1>3 DEF NotActivated, Busied, Chained, SameButBus
<1>10. Flashed(t, "nothing") BY <1>1, <1>3, <1>4 DEF Upgrades, Flashed, SameButBus
<1>. QED BY <1>6, <1>7, <1>8, <1>9, <1>10 DEF Upgrades, t

-----------------------------------------------------------------------------
(* The upgrade step by step *)

\* A handler that does nothing more leaves what it held.
LEMMA UpgradesDone ==
  ASSUME NEW s, NEW h, Upgrades(s, h)
  PROVE  Upgrades(s, "nothing")
<1>1. OneChain(s, "nothing") BY DEF Upgrades, OneChain, Chained
<1>2. RebootAlone(s, "nothing") BY DEF Upgrades, RebootAlone
<1>3. NotActivated(s, "nothing") BY DEF Upgrades, NotActivated, Busied, Chained
<1>4. Flashed(s, "nothing") BY DEF Upgrades, Flashed
<1>. QED BY <1>1, <1>2, <1>3, <1>4 DEF Upgrades

\* All of an object that RebootAlone speaks of.
SameReboot(s, t) ==
    /\ t.bus = s.bus
    /\ t.timers = s.timers
    /\ t.attempts = s.attempts
    /\ t.rebooting = s.rebooting
    /\ t.onReboot = s.onReboot
    /\ t.activating = s.activating
    /\ t.activationsRemaining = s.activationsRemaining

LEMMA SameRebootAlone ==
  ASSUME NEW s, NEW t, NEW h, SameReboot(s, t), RebootAlone(s, h)
  PROVE  RebootAlone(t, h)
BY DEF SameReboot, RebootAlone, NoAttempts

LEMMA UpgradeEndWork ==
  ASSUME NEW w \in Objects
  PROVE  LET t == [w EXCEPT !.fwUpgrading = None, !.data = 0]
         IN /\ SameReboot(w, t)
            /\ t.fwUpgrading = None
            /\ t.data = 0
            /\ t.toWrite = w.toWrite
            /\ t.flash = w.flash
            /\ t.setOutputsSent = w.setOutputsSent
            /\ t.configWriting = w.configWriting
            /\ t.fault = w.fault
            /\ t.replies = w.replies
            /\ t.active = w.active
            /\ t.inBootloader = w.inBootloader
BY DEF Objects, SameReboot

LEMMA SameWorkReboot ==
  ASSUME NEW s, NEW t, SameWork(s, t)
  PROVE  SameReboot(s, t)
BY DEF SameWork, SameReboot

LEMMA SameRebootTrans ==
  ASSUME NEW s, NEW t, NEW u, SameReboot(s, t), SameReboot(t, u)
  PROVE  SameReboot(s, u)
BY DEF SameReboot

\* The firmware stays as it is, and nobody but r is told.
ToldOnly(s, r, t) ==
    /\ t.active = s.active
    /\ t.inBootloader = s.inBootloader
    /\ t.flash = s.flash
    /\ \A q \in Requests : q # r => t.replies[q] = s.replies[q]

UpgradeEnd(s, r, response) ==
    [Reply(s, r, response) EXCEPT !.fwUpgrading = None, !.data = 0]

\* The end of an upgrade that nothing carries on any more.
LEMMA UpgradesEnd ==
  ASSUME NEW s \in Objects, NEW response \in Responses, NEW r,
         r = s.fwUpgrading, r # None, ~Chained(s, "nothing"), s.fault \in Excused,
         ~(s.rebooting /\ s.onReboot = "upgrade"),
         Pending(s), RebootAlone(s, "nothing"), Placed(s)
  PROVE  LET t == UpgradeEnd(s, r, response)
         IN /\ t \in Objects
            /\ Upgrades(t, "nothing")
            /\ ToldOnly(s, r, t)
            /\ response # Ok => Silent(s, t)
<1>. DEFINE w == Reply(s, r, response)
            t == [w EXCEPT !.fwUpgrading = None, !.data = 0]
<1>0. /\ SameWork(s, w)
      /\ w.active = s.active
      /\ w.inBootloader = s.inBootloader
      /\ \A q \in Requests : q # r => w.replies[q] = s.replies[q]
      /\ response # Ok => Silent(s, w)
  BY ReplyWork
<1>1. w \in Objects BY ReplyFacts DEF CarriesOn
<1>2. t \in Objects BY <1>1, UpgradeEndFacts DEF CarriesOn
<1>. HIDE DEF w
<1>3. /\ SameReboot(w, t)
      /\ t.fwUpgrading = None
      /\ t.flash = w.flash
      /\ t.setOutputsSent = w.setOutputsSent
      /\ t.configWriting = w.configWriting
      /\ t.fault = w.fault
      /\ t.replies = w.replies
      /\ t.active = w.active
      /\ t.inBootloader = w.inBootloader
  BY <1>1, UpgradeEndWork
<1>. HIDE DEF t
<1>4. SameReboot(s, t) BY <1>0, <1>3, SameWorkReboot, SameRebootTrans
<1>5. /\ t.flash = s.flash
      /\ t.setOutputsSent = s.setOutputsSent
      /\ t.configWriting = s.configWriting
      /\ t.fault \in Excused
  BY <1>0, <1>3 DEF SameWork
<1>a. ~Has(t.bus, UpgradeCommands) /\ t.timers["fwUpgdReqAck"] = 0
  BY <1>4 DEF Chained, SameReboot
<1>b. Single(t.bus, UpgradeCommands) BY <1>a DEF Single, Has
<1>6. OneChain(t, "nothing") BY <1>a, <1>b DEF OneChain, Chained
<1>c. None \notin Requests BY RequestNames
<1>d. t.bus = s.bus /\ t.onReboot = s.onReboot /\ t.rebooting = s.rebooting
  BY <1>4 DEF SameReboot
<1>7. Pending(t) /\ Placed(t) /\ t.fault \in Excused
  BY <1>3, <1>5, <1>c, <1>d DEF Pending, Placed
<1>8. RebootAlone(t, "nothing") BY <1>4, SameRebootAlone
<1>9. NotActivated(t, "nothing") BY <1>3 DEF NotActivated, Busied
<1>10. Flashed(t, "nothing")
  <2>1. /\ ~Has(t.bus, {"FwWriteFlashStatusRequest"})
        /\ ~Has(t.bus, {"FwWriteFlash"})
        /\ Block(t.bus, t.toWrite)
    BY <1>a, Kinships
  <2>2. ~(t.rebooting /\ t.onReboot = "upgrade") BY <1>d
  <2>. QED BY <1>3, <1>c, <2>1, <2>2 DEF Flashed
<1>11. Upgrades(t, "nothing") BY <1>6, <1>7, <1>8, <1>9, <1>10 DEF Upgrades
<1>12. response # Ok => Silent(s, t)
  BY <1>0, <1>3, Zenon DEF Silent
<1>13. ToldOnly(s, r, t) BY <1>0, <1>3, <1>5 DEF ToldOnly
<1>14. UpgradeEnd(s, r, response) = t BY DEF UpgradeEnd, t, w
<1>. QED BY <1>2, <1>11, <1>12, <1>13, <1>14

LEMMA UpgradesFwUpgdError ==
  ASSUME NEW s \in Objects, Upgrades(s, "chain")
  PROVE  LET t == FwUpgdError(s)
         IN t \in Objects /\ Upgrades(t, "nothing") /\ Silent(s, t)
<1>1. /\ s.fwUpgrading # None
      /\ ~Chained(s, "nothing")
      /\ ~(s.rebooting /\ s.onReboot = "upgrade")
  BY DEF Upgrades, OneChain, Chained
<1>2. /\ s.fault \in Excused
      /\ Pending(s)
      /\ RebootAlone(s, "nothing")
      /\ Placed(s)
  BY UpgradesDone DEF Upgrades
<1>3. Error \in Responses /\ Error # Ok BY ResponseTypes, ResponseNames
<1>. DEFINE r == s.fwUpgrading
            t == UpgradeEnd(s, r, Error)
<1>4. FwUpgdError(s) = t BY <1>1 DEF FwUpgdError, UpgradeEnd
<1>5. r = s.fwUpgrading /\ r # None BY <1>1
<1>. HIDE DEF r
<1>6. t \in Objects /\ Upgrades(t, "nothing") /\ Silent(s, t)
  BY <1>1, <1>2, <1>3, <1>5, UpgradesEnd
<1>. QED BY <1>4, <1>6

LEMMA UpgradesGetStatus ==
  ASSUME NEW s \in Objects, Upgrades(s, "chain"),
         s.toWrite <= s.data, (s.toWrite + 1) .. s.data \subseteq s.flash
  PROVE  LET t == FwUpgdGetStatus(s)
         IN t \in Objects /\ Upgrades(t, "nothing") /\ Silent(s, t)
<1>. DEFINE c == Cmd("FwWriteFlashStatusRequest")
<1>1. c \in BusCommands BY PlainCommands
<1>2. c.kind \in UpgradeCommands /\ c.kind # "FwWriteFlash" BY DEF Cmd, UpgradeCommands
<1>3. FwUpgdGetStatus(s) = Send(s, c) BY DEF FwUpgdGetStatus
<1>4. Send(s, c) \in Objects BY <1>1, SentFacts
<1>5. Silent(s, Send(s, c)) BY <1>1, SendWork
<1>6. c.kind = "FwWriteFlashStatusRequest" =>
        s.toWrite <= s.data /\ (s.toWrite + 1) .. s.data \subseteq s.flash
  OBVIOUS
<1>. HIDE DEF c
<1>7. Upgrades(Send(s, c), "nothing") BY <1>1, <1>2, <1>6, UpgradesSendChain
<1>. QED BY <1>3, <1>4, <1>5, <1>7

LEMMA UpgradesGotInfo ==
  ASSUME NEW s \in Objects, NEW b \in BOOLEAN, Upgrades(s, "chain")
  PROVE  LET t == FwUpgdGotInfo(s, b)
         IN t \in Objects /\ Upgrades(t, "nothing") /\ Silent(s, t)
<1>. DEFINE t == [s EXCEPT !.inBootloader = TRUE, !.toWrite = s.data]
            u == [s EXCEPT !.inBootloader = FALSE]
<1>1. t \in Objects /\ u \in Objects
  BY InBootloaderFacts, NoBootloaderFacts DEF CarriesOn
<1>2. SameWork(s, u) /\ u.replies = s.replies BY DEF SameWork, Objects
<1>3. /\ t.bus = s.bus
      /\ t.timers = s.timers
      /\ t.attempts = s.attempts
      /\ t.rebooting = s.rebooting
      /\ t.onReboot = s.onReboot
      /\ t.activating = s.activating
      /\ t.activationsRemaining = s.activationsRemaining
      /\ t.fwUpgrading = s.fwUpgrading
      /\ t.data = s.data
      /\ t.toWrite = s.data
      /\ t.flash = s.flash
      /\ t.setOutputsSent = s.setOutputsSent
      /\ t.configWriting = s.configWriting
      /\ t.fault = s.fault
      /\ t.replies = s.replies
  BY DEF Objects
<1>4. FwUpgdGotInfo(s, b) = IF b THEN FwUpgdGetStatus(t) ELSE FwUpgdError(u)
  BY DEF FwUpgdGotInfo
<1>. HIDE DEF t, u
<1>5. /\ ~Has(s.bus, {"FwWriteFlashStatusRequest"})
      /\ ~Has(s.bus, {"FwWriteFlash"})
      /\ Block(s.bus, s.data)
  BY Kinships DEF Upgrades, OneChain
<1>6. Upgrades(t, "chain")
  <2>1. OneChain(t, "chain") BY <1>3 DEF Upgrades, OneChain, Chained
  <2>2. Pending(t) /\ Placed(t) /\ t.fault \in Excused
    BY <1>3 DEF Upgrades, Pending, Placed
  <2>3. RebootAlone(t, "chain") BY <1>3 DEF Upgrades, RebootAlone, NoAttempts
  <2>4. NotActivated(t, "chain")
    BY <1>3 DEF Upgrades, NotActivated, Busied, Chained, NoAttempts
  <2>5. Flashed(t, "chain") BY <1>3, <1>5 DEF Upgrades, Flashed
  <2>. QED BY <2>1, <2>2, <2>3, <2>4, <2>5 DEF Upgrades
<1>7. t.toWrite <= t.data /\ (t.toWrite + 1) .. t.data \subseteq t.flash
  <2>1. s.data \in Nat BY Limits
  <2>2. s.data <= s.data /\ (s.data + 1) .. s.data = {} BY <2>1
  <2>. QED BY <1>3, <2>2
<1>8. Upgrades(u, "chain") BY <1>2, SilentSame, SameUpgrades
<1>9. Silent(s, t) /\ Silent(s, u) BY <1>2, <1>3, SilentSame
<1>10. /\ FwUpgdGetStatus(t) \in Objects
       /\ Upgrades(FwUpgdGetStatus(t), "nothing")
       /\ Silent(t, FwUpgdGetStatus(t))
  BY <1>1, <1>6, <1>7, UpgradesGetStatus
<1>11. /\ FwUpgdError(u) \in Objects
       /\ Upgrades(FwUpgdError(u), "nothing")
       /\ Silent(u, FwUpgdError(u))
  BY <1>1, <1>8, UpgradesFwUpgdError
<1>. QED BY <1>4, <1>9, <1>10, <1>11, SilentTrans, Zenon

LEMMA UpgradesInit ==
  ASSUME NEW s \in Objects, Upgrades(s, "chain")
  PROVE  LET t == FwUpgdInit(s)
         IN t \in Objects /\ Upgrades(t, "nothing") /\ Silent(s, t)
<1>. DEFINE c == Cmd("FwUpgradeReq")
<1>1. /\ FwUpgdGotInfo(s, TRUE) \in Objects
      /\ Upgrades(FwUpgdGotInfo(s, TRUE), "nothing")
      /\ Silent(s, FwUpgdGotInfo(s, TRUE))
  BY UpgradesGotInfo
<1>2. c \in BusCommands BY PlainCommands
<1>3. /\ c.kind \in UpgradeCommands /\ c.kind # "FwWriteFlash"
      /\ c.kind # "FwWriteFlashStatusRequest"
  BY DEF Cmd, UpgradeCommands
<1>4. Send(s, c) \in Objects /\ Silent(s, Send(s, c)) BY <1>2, SentFacts, SendWork
<1>5. Upgrades(Send(s, c), "nothing") BY <1>2, <1>3, UpgradesSendChain
<1>6. FwUpgdInit(s) = IF s.inBootloader THEN FwUpgdGotInfo(s, TRUE) ELSE Send(s, c)
  BY DEF FwUpgdInit
<1>. HIDE DEF c
<1>. QED BY <1>1, <1>4, <1>5, <1>6

-----------------------------------------------------------------------------
(* Activations and reboots, during an upgrade *)

\* All that an activation leaves alone.
SameOther(s, t) ==
    /\ t.bus = s.bus
    /\ t.timers = s.timers
    /\ t.attempts = s.attempts
    /\ t.onReboot = s.onReboot
    /\ t.fwUpgrading = s.fwUpgrading
    /\ t.data = s.data
    /\ t.toWrite = s.toWrite
    /\ t.flash = s.flash
    /\ t.setOutputsSent = s.setOutputsSent
    /\ t.configWriting = s.configWriting
    /\ s.fault \in Excused => t.fault \in Excused

\* An activation counts its attempts as it likes.
LEMMA UpgradesActing ==
  ASSUME NEW s, NEW t, Upgrades(s, "activation"), SameOther(s, t), Answers(s, t),
         t.rebooting = s.rebooting
  PROVE  Upgrades(t, "activation")
<1>1. OneChain(t, "activation")
  BY DEF Upgrades, OneChain, Chained, SameOther
<1>2. Pending(t) /\ Placed(t) /\ t.fault \in Excused
  BY DEF Upgrades, Pending, Placed, SameOther
<1>3. Has(s.bus, Steps) <=> Has(s.bus, ActivationCommands) \/ Has(s.bus, RebootCommands)
  BY Kinships
<1>4. RebootAlone(t, "activation")
  BY <1>3 DEF Upgrades, RebootAlone, NoAttempts, SameOther
<1>5. NotActivated(t, "activation")
  BY DEF Upgrades, NotActivated, Busied, Chained, NoAttempts, SameOther
<1>6. Flashed(t, "activation") BY DEF Upgrades, Flashed, SameOther, Answers
<1>. QED BY <1>1, <1>2, <1>4, <1>5, <1>6 DEF Upgrades

\* The reboot is over, or there was none.
LEMMA UpgradesBack ==
  ASSUME NEW s, NEW t, Upgrades(s, "activation"), SameOther(s, t), Answers(s, t),
         ~t.rebooting, ~t.activating, t.activationsRemaining = 0
  PROVE  Upgrades(t, "nothing")
<1>1. OneChain(t, "nothing")
  BY DEF Upgrades, OneChain, Chained, SameOther
<1>2. Pending(t) /\ Placed(t) /\ t.fault \in Excused
  BY DEF Upgrades, Pending, Placed, SameOther
<1>3. Has(s.bus, Steps) <=> Has(s.bus, ActivationCommands) \/ Has(s.bus, RebootCommands)
  BY Kinships
<1>4. RebootAlone(t, "nothing")
  BY <1>3 DEF Upgrades, RebootAlone, SameOther
<1>5. NotActivated(t, "nothing")
  BY <1>3 DEF Upgrades, RebootAlone, NotActivated, Busied, Chained, NoAttempts, SameOther
<1>6. Flashed(t, "nothing") BY DEF Upgrades, Flashed, SameOther, Answers
<1>. QED BY <1>1, <1>2, <1>4, <1>5, <1>6 DEF Upgrades

LEMMA ModuleActivateFields ==
  ASSUME NEW s \in Objects, NEW b
  PROVE  LET t == ModuleActivate(s, b)
         IN /\ SameOther(s, t)
            /\ t.rebooting = s.rebooting
            /\ t.replies = s.replies
BY DEF ModuleActivate, Objects, SameOther

LEMMA ActivatingFields ==
  ASSUME NEW s \in Objects
  PROVE  LET t == [s EXCEPT !.activating = TRUE]
         IN /\ SameOther(s, t)
            /\ t.rebooting = s.rebooting
            /\ t.activating
            /\ t.replies = s.replies
BY DEF Objects, SameOther

LEMMA ActivationErrorFields ==
  ASSUME NEW s \in Objects
  PROVE  LET t == ActivationError(s)
         IN /\ SameOther(s, t)
            /\ t.rebooting = s.rebooting
            /\ t.replies = s.replies
BY DEF ActivationError, Objects, SameOther

LEMMA MtbBusLostFields ==
  ASSUME NEW s \in Objects
  PROVE  LET t == MtbBusLost(s)
         IN /\ SameOther(s, t)
            /\ t.rebooting = s.rebooting
            /\ ~t.activating
            /\ t.activationsRemaining = 0
            /\ t.replies = s.replies
BY DEF MtbBusLost, Objects, SameOther

LEMMA UpgradesActivationError ==
  ASSUME NEW s \in Objects, Upgrades(s, "activation")
  PROVE  LET t == ActivationError(s)
         IN t \in Objects /\ Upgrades(t, "nothing") /\ Silent(s, t)
<1>. DEFINE t == ActivationError(s)
<1>1. SameOther(s, t) /\ t.rebooting = s.rebooting /\ t.replies = s.replies
  BY ActivationErrorFields
<1>2. t \in Objects BY ActivationErrorFacts DEF CarriesOn
<1>. HIDE DEF t
<1>3. Silent(s, t) /\ Answers(s, t) BY <1>1, SilentSame
<1>4. Upgrades(t, "nothing") BY <1>1, <1>3, UpgradesActing, UpgradesDone
<1>. QED BY <1>2, <1>3, <1>4 DEF t

LEMMA ActivatingObject ==
  ASSUME NEW s \in Objects
  PROVE  [s EXCEPT !.activating = TRUE] \in Objects
<1>. DEFINE t == [s EXCEPT !.activating = TRUE]
<1>1. Shaped(t) BY ObjectShape, Zenon DEF Shaped
<1>2. Typed(t) BY DEF Typed, Objects
<1>. HIDE DEF t
<1>3. t \in Objects BY <1>1, <1>2, ObjectType
<1>. QED BY <1>3 DEF t

LEMMA UpgradesActivate ==
  ASSUME NEW s \in Objects, Upgrades(s, "activation")
  PROVE  LET t == Activate(s)
         IN t \in Objects /\ Upgrades(t, "nothing") /\ Silent(s, t)
<1>. DEFINE t == [s EXCEPT !.activating = TRUE]
            c == IF s.config = None
                 THEN Cmd("activate: GetConfig")
                 ELSE [kind |-> "activate: SetConfig", config |-> s.config]
<1>1. /\ SameOther(s, t)
      /\ t.rebooting = s.rebooting
      /\ t.activating
      /\ t.replies = s.replies
  BY ActivatingFields
<1>2. t \in Objects BY ActivatingObject
<1>3. c \in BusCommands /\ c.kind \in ActivationCommands
  <2>1. CASE s.config = None
    <3>1. Cmd("activate: GetConfig") \in BusCommands BY PlainCommands
    <3>2. Cmd("activate: GetConfig").kind \in ActivationCommands
      BY DEF Cmd, ActivationCommands
    <3>. QED BY <2>1, <3>1, <3>2
  <2>2. CASE s.config # None
    <3>1. s.config \in Configs BY <2>2 DEF Objects
    <3>. QED BY <2>2, <3>1 DEF BusCommands, ActivationCommands
  <2>. QED BY <2>1, <2>2
<1>4. Activate(s) = Send(t, c) BY DEF Activate
<1>. HIDE DEF t, c
<1>5. Silent(s, t) /\ Answers(s, t) BY <1>1, SilentSame
<1>6. Upgrades(t, "activation") BY <1>1, <1>5, UpgradesActing
<1>7. Upgrades(Send(t, c), "nothing") BY <1>1, <1>2, <1>3, <1>6, UpgradesSendStep
<1>8. Send(t, c) \in Objects BY <1>2, <1>3, SentFacts
<1>9. Silent(t, Send(t, c)) BY <1>2, <1>3, SendWork
<1>. QED BY <1>4, <1>5, <1>7, <1>8, <1>9, SilentTrans

\* An upgrade is told "ok" once every block was written and the module runs its
\* firmware; the upgrade whose firmware did not parse has had its error.
Complete(s, t) ==
    \A r \in Requests :
        Kind[r] = "module_upgrade_fw" /\ s.replies[r] = <<>>
            /\ Ok \in ToSet(t.replies[r])
        => t.flash = 1 .. Blocks /\ t.active /\ ~t.inBootloader

LEMMA SilentIsComplete ==
  ASSUME NEW s \in Objects, NEW t, Silent(s, t)
  PROVE  Complete(s, t)
<1> SUFFICES ASSUME NEW r \in Requests,
                    Kind[r] = "module_upgrade_fw", s.replies[r] = <<>>,
                    Ok \in ToSet(t.replies[r])
             PROVE  FALSE
  BY DEF Complete
<1>1. Ok \in ToSet(s.replies[r]) BY DEF Silent
<1>2. ToSet(<<>>) = {} BY DEF ToSet
<1>. QED BY <1>1, <1>2

LEMMA UpgradesFwUpgdRebooted ==
  ASSUME NEW s \in Objects, Upgrades(s, "nothing"), s.fwUpgrading # None, s.active,
         ~Chained(s, "nothing"), ~s.rebooting, 1 .. s.data \subseteq s.flash
  PROVE  LET t == FwUpgdRebooted(s)
         IN t \in Objects /\ Upgrades(t, "nothing") /\ Complete(s, t)
<1>. DEFINE r == s.fwUpgrading
            e == UpgradeEnd(s, r, Error)
            o == UpgradeEnd(s, r, Ok)
<1>1. FwUpgdRebooted(s) = IF s.inBootloader THEN e ELSE o
  BY DEF FwUpgdRebooted, FwUpgdError, UpgradeEnd
<1>2. /\ s.fault \in Excused
      /\ Pending(s)
      /\ RebootAlone(s, "nothing")
      /\ Placed(s)
  BY DEF Upgrades
<1>a. Error \in Responses /\ Error # Ok BY ResponseTypes, ResponseNames
<1>3. Ok \in Responses BY ResponseTypes
<1>4. r = s.fwUpgrading /\ r # None OBVIOUS
<1>5. /\ r \in Requests \ Malformed => s.data = Blocks
      /\ r \in Requests \cap Malformed => s.replies[r] # <<>>
  BY DEF Upgrades, Flashed
<1>. HIDE DEF r
<1>6. e \in Objects /\ Upgrades(e, "nothing") /\ Silent(s, e)
  BY <1>2, <1>a, <1>4, UpgradesEnd
<1>7. o \in Objects /\ Upgrades(o, "nothing") /\ ToldOnly(s, r, o)
  BY <1>2, <1>3, <1>4, UpgradesEnd
<1>. HIDE DEF o, e
<1>8. Complete(s, e) BY <1>6, SilentIsComplete
<1>9. ASSUME ~s.inBootloader PROVE Complete(s, o)
  <2> SUFFICES ASSUME NEW q \in Requests,
                      s.replies[q] = <<>>, Ok \in ToSet(o.replies[q])
               PROVE  o.flash = 1 .. Blocks /\ o.active /\ ~o.inBootloader
    BY DEF Complete
  <2>1. CASE q # r
    <3>1. ToSet(<<>>) = {} BY DEF ToSet
    <3>. QED BY <1>7, <2>1, <3>1 DEF ToldOnly
  <2>2. CASE q = r
    <3>1. s.data = Blocks BY <1>5, <2>2
    <3>2. s.flash \subseteq 1 .. Blocks BY DEF Objects
    <3>3. o.flash = 1 .. Blocks BY <1>7, <3>1, <3>2 DEF ToldOnly
    <3>. QED BY <1>7, <1>9, <3>3 DEF ToldOnly
  <2>. QED BY <2>1, <2>2
<1>. QED BY <1>1, <1>6, <1>7, <1>8, <1>9

LEMMA FullyActivatedFields ==
  ASSUME NEW s \in Objects
  PROVE  LET t == [s EXCEPT !.activating = FALSE, !.activationsRemaining = 0,
                            !.active = TRUE, !.rebooting = FALSE]
         IN /\ SameOther(s, t)
            /\ ~t.rebooting
            /\ ~t.activating
            /\ t.activationsRemaining = 0
            /\ t.active
            /\ t.replies = s.replies
BY DEF Objects, SameOther

LEMMA ActivatedObject ==
  ASSUME NEW s \in Objects
  PROVE  [s EXCEPT !.activating = FALSE, !.activationsRemaining = 0,
                   !.active = TRUE, !.rebooting = FALSE] \in Objects
<1>. DEFINE t == [s EXCEPT !.activating = FALSE, !.activationsRemaining = 0,
                           !.active = TRUE, !.rebooting = FALSE]
<1>1. Shaped(t) BY ObjectShape, Zenon DEF Shaped
<1>. 0 \in 0 .. MTB_MODULE_ACTIVATIONS BY MtbUniAssumption
<1>2. Typed(t) BY DEF Typed, Objects
<1>. HIDE DEF t
<1>3. t \in Objects BY <1>1, <1>2, ObjectType
<1>. QED BY <1>3 DEF t

LEMMA UpgradesFullyActivated ==
  ASSUME NEW s \in Objects, Upgrades(s, "activation")
  PROVE  LET t == FullyActivated(s)
         IN t \in Objects /\ Upgrades(t, "nothing") /\ Complete(s, t)
<1>. DEFINE t == [s EXCEPT !.activating = FALSE, !.activationsRemaining = 0,
                           !.active = TRUE, !.rebooting = FALSE]
<1>1. /\ SameOther(s, t)
      /\ ~t.rebooting
      /\ ~t.activating
      /\ t.activationsRemaining = 0
      /\ t.active
      /\ t.replies = s.replies
  BY FullyActivatedFields
<1>2. t \in Objects BY ActivatedObject
<1>3. FullyActivated(s) = CASE ~s.rebooting -> t
                            [] s.rebooting /\ s.onReboot = "upgrade" -> FwUpgdRebooted(t)
                            [] OTHER -> Reply(t, s.onReboot, Ok)
  BY DEF FullyActivated
<1>. HIDE DEF t
<1>4. Silent(s, t) /\ Answers(s, t) BY <1>1, SilentSame
<1>5. Upgrades(t, "nothing") BY <1>1, <1>4, UpgradesBack
<1>6. CASE ~s.rebooting
  BY <1>2, <1>3, <1>4, <1>5, <1>6, SilentIsComplete
<1>7. CASE s.rebooting /\ s.onReboot = "upgrade"
  <2>1. /\ s.fwUpgrading # None
        /\ 1 .. s.data \subseteq s.flash
        /\ ~Chained(s, "activation")
    BY <1>7 DEF Upgrades, OneChain, Flashed
  <2>2. /\ t.fwUpgrading # None
        /\ 1 .. t.data \subseteq t.flash
        /\ ~Chained(t, "nothing")
    BY <1>1, <2>1 DEF SameOther, Chained
  <2>. DEFINE u == FwUpgdRebooted(t)
  <2>3. u \in Objects /\ Upgrades(u, "nothing") /\ Complete(t, u)
    BY <1>1, <1>2, <1>5, <2>2, UpgradesFwUpgdRebooted
  <2>4. FullyActivated(s) = u BY <1>3, <1>7
  <2>. HIDE DEF u
  <2>5. Complete(s, u) BY <1>1, <2>3 DEF Complete
  <2>. QED BY <2>3, <2>4, <2>5
<1>8. CASE s.rebooting /\ s.onReboot # "upgrade"
  <2>. DEFINE r == s.onReboot
              u == Reply(t, r, Ok)
  <2>1. r \in Requests /\ Kind[r] = "module_reboot"
    BY <1>8 DEF Upgrades, RebootAlone, Placed, Objects
  <2>2. FullyActivated(s) = u BY <1>3, <1>8
  <2>. HIDE DEF r
  <2>3. u \in Objects /\ Upgrades(u, "nothing") /\ Silent(t, u)
    BY <1>2, <1>5, <2>1, ResponseTypes, UpgradesReply
  <2>. HIDE DEF u
  <2>4. Complete(s, u) BY <1>4, <2>3, SilentTrans, SilentIsComplete
  <2>. QED BY <2>2, <2>3, <2>4
<1>. QED BY <1>6, <1>7, <1>8

LEMMA AllOutputsResetWork ==
  ASSUME NEW s \in Objects
  PROVE  LET t == AllOutputsReset(s)
         IN SameWork(s, t) /\ t.replies = s.replies
BY DEF AllOutputsReset, Objects, SameWork

LEMMA UpgradesOutputsReset ==
  ASSUME NEW s \in Objects, Upgrades(s, "activation")
  PROVE  LET t == OutputsReset(s)
         IN t \in Objects /\ Upgrades(t, "nothing") /\ Complete(s, t)
<1>. DEFINE t == AllOutputsReset(s)
            u == FullyActivated(t)
<1>1. SameWork(s, t) /\ t.replies = s.replies BY AllOutputsResetWork
<1>2. t \in Objects BY AllOutputsResetFacts DEF CarriesOn
<1>3. OutputsReset(s) = u BY DEF OutputsReset
<1>. HIDE DEF t
<1>4. Upgrades(t, "activation") BY <1>1, SilentSame, SameUpgrades
<1>5. u \in Objects /\ Upgrades(u, "nothing") /\ Complete(t, u)
  BY <1>2, <1>4, UpgradesFullyActivated
<1>. HIDE DEF u
<1>6. Complete(s, u) BY <1>1, <1>5 DEF Complete
<1>. QED BY <1>3, <1>5, <1>6

LEMMA UpgradesMtbBusActivate ==
  ASSUME NEW s \in Objects, NEW b \in BOOLEAN, Upgrades(s, "activation")
  PROVE  LET t == MtbBusActivate(s, b)
         IN t \in Objects /\ Upgrades(t, "nothing") /\ Complete(s, t)
<1>. DEFINE t == ModuleActivate(s, b)
            u == IF b THEN OutputsReset(t) ELSE Activate(t)
<1>1. SameOther(s, t) /\ t.rebooting = s.rebooting /\ t.replies = s.replies
  BY ModuleActivateFields
<1>2. t \in Objects BY ModuleActivateFacts DEF CarriesOn
<1>3. MtbBusActivate(s, b) = u BY DEF MtbBusActivate
<1>. HIDE DEF t
<1>4. Upgrades(t, "activation") BY <1>1, SilentSame, UpgradesActing
<1>5. u \in Objects /\ Upgrades(u, "nothing") /\ Complete(t, u)
  BY <1>2, <1>4, UpgradesOutputsReset, UpgradesActivate, SilentIsComplete
<1>. HIDE DEF u
<1>6. Complete(s, u) BY <1>1, <1>5 DEF Complete
<1>. QED BY <1>3, <1>5, <1>6

\* Nothing is about to activate the module.
Calm(s) ==
    /\ ~s.activating
    /\ s.activationsRemaining = 0
    /\ NoAttempts(s)
    /\ ~Has(s.bus, {"ModuleInfo"})
    /\ ~Has(s.bus, ActivationCommands)

LEMMA UpgradesRebooting ==
  ASSUME NEW s, NEW h, Upgrades(s, h), NEW t, Calm(s), ~s.rebooting,
         h = "chain" \/ t.onReboot \in Requests,
         t.onReboot \in Requests => Kind[t.onReboot] = "module_reboot",
         t.onReboot \in Requests \cup {"upgrade"},
         t.onReboot = "upgrade" => h = "chain" /\ 1 .. s.data \subseteq s.flash,
         t.rebooting, ~t.activating, t.activationsRemaining = 0,
         \A K : Has(t.bus, K) <=> Has(s.bus, K) \/ "Reboot" \in K,
         Single(s.bus, UpgradeCommands) => Single(t.bus, UpgradeCommands),
         Single(s.bus, Steps) /\ ~Has(s.bus, Steps) => Single(t.bus, Steps),
         \A n : Block(s.bus, n) => Block(t.bus, n),
         Asks(s.bus) => Asks(t.bus),
         t.timers = s.timers, t.attempts = s.attempts, t.fwUpgrading = s.fwUpgrading,
         t.data = s.data, t.toWrite = s.toWrite, t.flash = s.flash,
         t.setOutputsSent = s.setOutputsSent, t.configWriting = s.configWriting,
         (s.fault \in Excused => t.fault \in Excused), t.replies = s.replies
  PROVE  Upgrades(t, "nothing")
<1>1. /\ Has(t.bus, UpgradeCommands) <=> Has(s.bus, UpgradeCommands)
      /\ Has(t.bus, Writes) <=> Has(s.bus, Writes)
      /\ Has(t.bus, {"ModuleInfo"}) <=> Has(s.bus, {"ModuleInfo"})
      /\ Has(t.bus, ActivationCommands) <=> Has(s.bus, ActivationCommands)
      /\ Has(t.bus, {"FwWriteFlashStatusRequest"})
            <=> Has(s.bus, {"FwWriteFlashStatusRequest"})
      /\ Has(t.bus, {"FwWriteFlash"}) <=> Has(s.bus, {"FwWriteFlash"})
  <2>1. \A K \in {UpgradeCommands, Writes, {"ModuleInfo"}, ActivationCommands,
                  {"FwWriteFlashStatusRequest"}, {"FwWriteFlash"}} : "Reboot" \notin K
    BY DEF UpgradeCommands, Writes, ActivationCommands
  <2>. QED BY <2>1, Zenon
<1>2. OneChain(t, "nothing")
  <2>1. Chained(t, "nothing") => h # "chain" /\ Chained(s, h)
    BY <1>1 DEF Upgrades, OneChain, Chained
  <2>2. "upgrade" \notin Requests BY RequestNames
  <2>. QED BY <1>1, <2>1, <2>2 DEF Upgrades, OneChain, Chained
<1>3. Pending(t) /\ t.fault \in Excused
  BY <1>1 DEF Upgrades, Pending
<1>4. Placed(t) BY DEF Upgrades, Placed
<1>5. /\ s.timers["reboot"] = 0
      /\ Single(t.bus, Steps)
  <2>1. ~Has(s.bus, RebootCommands) /\ s.timers["reboot"] = 0
    BY DEF Upgrades, RebootAlone
  <2>2. ~Has(s.bus, Steps) BY <2>1, Kinships DEF Calm
  <2>3. Single(s.bus, Steps) BY <2>2 DEF Single, Has
  <2>. QED BY <2>1, <2>2, <2>3
<1>6. RebootAlone(t, "nothing")
  <2>1. t.onReboot # None BY RequestNames DEF None
  <2>. QED BY <1>1, <1>5, <2>1 DEF RebootAlone, Calm, NoAttempts
<1>7. NotActivated(t, "nothing")
  BY <1>1 DEF NotActivated, Calm, NoAttempts
<1>8. Flashed(t, "nothing")
  <2>1. t.onReboot = "upgrade" => s.fwUpgrading # None /\ ~Has(s.bus, Writes)
    BY DEF Upgrades, OneChain, Chained
  <2>. QED BY <1>1, <2>1 DEF Upgrades, Flashed
<1>. QED BY <1>2, <1>3, <1>4, <1>6, <1>7, <1>8 DEF Upgrades

LEMMA UpgradesReboot ==
  ASSUME NEW s \in Objects, NEW h, Upgrades(s, h), s.rebooting \/ Calm(s),
         NEW who \in Requests \cup {"upgrade"},
         who \in Requests => Kind[who] = "module_reboot",
         who = "upgrade" => h = "chain" /\ 1 .. s.data \subseteq s.flash
  PROVE  LET t == Reboot(s, who)
         IN t \in Objects /\ Upgrades(t, "nothing") /\ Silent(s, t)
<1>1. Reboot(s, who) \in Objects BY RebootFacts DEF CarriesOn
<1>2. CASE s.rebooting
  <2>1. Reboot(s, who) = s BY <1>2 DEF Reboot
  <2>2. Silent(s, s) BY SilentSame
  <2>. QED BY <1>1, <2>1, <2>2, UpgradesDone
<1>3. CASE ~s.rebooting
  <2>. DEFINE u == [MtbBusLost(s) EXCEPT !.rebooting = TRUE,
                                         !.onReboot = who,
                                         !.activatedByMtbUsb = FALSE]
              c == Cmd("Reboot")
              t == Send(u, c)
  <2>1. Reboot(s, who) = t BY <1>3 DEF Reboot
  <2>2. c \in BusCommands BY PlainCommands
  <2>3. c.kind = "Reboot" BY DEF Cmd
  <2>4. MtbBusLost(s) \in Objects BY MtbBusLostFacts DEF CarriesOn
  <2>5. u \in Objects BY <2>4, RebootBeginsFacts DEF CarriesOn
  <2>6. LET v == MtbBusLost(s)
        IN /\ SameOther(s, v)
           /\ ~v.activating
           /\ v.activationsRemaining = 0
           /\ v.replies = s.replies
    BY MtbBusLostFields
  <2>7. /\ u.bus = MtbBusLost(s).bus
        /\ u.timers = MtbBusLost(s).timers
        /\ u.attempts = MtbBusLost(s).attempts
        /\ u.fwUpgrading = MtbBusLost(s).fwUpgrading
        /\ u.data = MtbBusLost(s).data
        /\ u.toWrite = MtbBusLost(s).toWrite
        /\ u.flash = MtbBusLost(s).flash
        /\ u.setOutputsSent = MtbBusLost(s).setOutputsSent
        /\ u.configWriting = MtbBusLost(s).configWriting
        /\ u.fault = MtbBusLost(s).fault
        /\ u.replies = MtbBusLost(s).replies
        /\ u.activating = MtbBusLost(s).activating
        /\ u.activationsRemaining = MtbBusLost(s).activationsRemaining
        /\ u.rebooting
        /\ u.onReboot = who
    <3>. DEFINE v == MtbBusLost(s)
    <3>1. v \in Objects BY <2>4
    <3>. HIDE DEF v
    <3>2. LET w == [v EXCEPT !.rebooting = TRUE, !.onReboot = who,
                             !.activatedByMtbUsb = FALSE]
          IN /\ w.bus = v.bus
             /\ w.timers = v.timers
             /\ w.attempts = v.attempts
             /\ w.fwUpgrading = v.fwUpgrading
             /\ w.data = v.data
             /\ w.toWrite = v.toWrite
             /\ w.flash = v.flash
             /\ w.setOutputsSent = v.setOutputsSent
             /\ w.configWriting = v.configWriting
             /\ w.fault = v.fault
             /\ w.replies = v.replies
             /\ w.activating = v.activating
             /\ w.activationsRemaining = v.activationsRemaining
             /\ w.rebooting
             /\ w.onReboot = who
      BY <3>1 DEF Objects
    <3>. QED BY <3>2 DEF v
  <2>. HIDE DEF u, c, t
  <2>8. /\ u.bus = s.bus
        /\ u.timers = s.timers
        /\ u.attempts = s.attempts
        /\ u.fwUpgrading = s.fwUpgrading
        /\ u.data = s.data
        /\ u.toWrite = s.toWrite
        /\ u.flash = s.flash
        /\ u.setOutputsSent = s.setOutputsSent
        /\ u.configWriting = s.configWriting
        /\ s.fault \in Excused => u.fault \in Excused
        /\ u.replies = s.replies
        /\ ~u.activating
        /\ u.activationsRemaining = 0
        /\ u.rebooting
        /\ u.onReboot = who
    BY <2>6, <2>7 DEF SameOther
  <2>9. /\ SameButBus(u, t)
        /\ \A K : Has(t.bus, K) <=> Has(u.bus, K) \/ c.kind \in K
        /\ \A K : Single(u.bus, K) /\ (c.kind \notin K \/ ~Has(u.bus, K))
                     => Single(t.bus, K)
        /\ \A n : Block(u.bus, n) /\ (c.kind = "FwWriteFlash" => c.block = n + 1)
                     => Block(t.bus, n)
        /\ Asks(u.bus)
           /\ (\A r \in Requests : Carries(c, r) => Kind[r] \in ForwardKinds)
              => Asks(t.bus)
        /\ Silent(u, t)
    BY <2>2, <2>5, SendWork DEF t
  <2>10. t \in Objects BY <2>2, <2>5, SentFacts DEF t
  <2>11. /\ \A K : Has(t.bus, K) <=> Has(s.bus, K) \/ "Reboot" \in K
         /\ Single(s.bus, UpgradeCommands) => Single(t.bus, UpgradeCommands)
         /\ Single(s.bus, Steps) /\ ~Has(s.bus, Steps) => Single(t.bus, Steps)
         /\ \A n : Block(s.bus, n) => Block(t.bus, n)
    <3>1. "Reboot" \notin UpgradeCommands /\ "Reboot" # "FwWriteFlash"
      BY DEF UpgradeCommands
    <3>. QED BY <2>3, <2>8, <2>9, <3>1, Zenon
  <2>12. Asks(s.bus) => Asks(t.bus)
    <3>1. \A r \in Requests : ~Carries(c, r) BY <2>3 DEF Carries
    <3>. QED BY <2>8, <2>9, <3>1
  <2>13. /\ t.timers = s.timers
         /\ t.attempts = s.attempts
         /\ t.fwUpgrading = s.fwUpgrading
         /\ t.data = s.data
         /\ t.toWrite = s.toWrite
         /\ t.flash = s.flash
         /\ t.setOutputsSent = s.setOutputsSent
         /\ t.configWriting = s.configWriting
         /\ s.fault \in Excused => t.fault \in Excused
         /\ t.replies = s.replies
         /\ ~t.activating
         /\ t.activationsRemaining = 0
         /\ t.rebooting
         /\ t.onReboot = who
    BY <2>8, <2>9 DEF SameButBus
  <2>14. Silent(s, t) BY <2>13, SilentSame
  <2>15. Calm(s) BY <1>3
  <2>16. who \in Requests => who # "upgrade" BY RequestNames
  <2>17. Upgrades(t, "nothing")
    BY <1>3, <2>11, <2>12, <2>13, <2>15, <2>16, UpgradesRebooting, Zenon
  <2>. QED BY <2>1, <2>10, <2>14, <2>17
<1>. QED BY <1>2, <1>3

LEMMA NotRebootingFields ==
  ASSUME NEW s \in Objects
  PROVE  LET t == [s EXCEPT !.rebooting = FALSE]
         IN /\ SameOther(s, t)
            /\ ~t.rebooting
            /\ t.activating = s.activating
            /\ t.activationsRemaining = s.activationsRemaining
            /\ t.replies = s.replies
BY DEF Objects, SameOther

LEMMA UpgradesRebootFailed ==
  ASSUME AllThere, NEW s \in Objects, Upgrades(s, "activation"), s.rebooting
  PROVE  LET t == RebootFailed(s)
         IN t \in Objects /\ Upgrades(t, "nothing") /\ Silent(s, t)
<1>. DEFINE t == [s EXCEPT !.rebooting = FALSE]
<1>1. /\ SameOther(s, t)
      /\ ~t.rebooting
      /\ t.replies = s.replies
  BY NotRebootingFields
<1>2. t \in Objects BY NotRebootingFacts DEF CarriesOn
<1>3. RebootFailed(s) = IF s.onReboot = "upgrade"
                        THEN FwUpgdError(t)
                        ELSE MtbBusLost(SendError(t, s.onReboot))
  BY DEF RebootFailed
<1>4. RebootFailed(s) \in Objects BY RebootFailedFacts DEF CarriesOn
<1>. HIDE DEF t
<1>5. CASE s.onReboot = "upgrade"
  <2>. DEFINE r == t.fwUpgrading
              u == UpgradeEnd(t, r, Error)
  <2>1. t.fwUpgrading # None BY <1>1, <1>5 DEF Upgrades, Flashed, SameOther
  <2>2. FwUpgdError(t) = u BY <2>1 DEF FwUpgdError, UpgradeEnd
  <2>3. ~Chained(t, "nothing")
    BY <1>1, <1>5 DEF Upgrades, OneChain, Chained, SameOther
  <2>4. /\ ~Has(s.bus, Steps)
        /\ s.timers["reboot"] = 0
    BY DEF Upgrades, RebootAlone
  <2>5. RebootAlone(t, "nothing")
    BY <1>1, <2>4, Kinships DEF RebootAlone, SameOther
  <2>6. Pending(t) /\ Placed(t) /\ t.fault \in Excused
    BY <1>1 DEF Upgrades, Pending, Placed, SameOther
  <2>7. Error \in Responses /\ Error # Ok BY ResponseTypes, ResponseNames
  <2>8. r = t.fwUpgrading /\ r # None BY <2>1
  <2>. HIDE DEF r
  <2>9. u \in Objects /\ Upgrades(u, "nothing") /\ Silent(t, u)
    BY <1>1, <1>2, <2>3, <2>5, <2>6, <2>7, <2>8, UpgradesEnd
  <2>. HIDE DEF u
  <2>10. Silent(s, u) BY <1>1, <2>9, SilentSame, SilentTrans
  <2>. QED BY <1>3, <1>5, <2>2, <2>9, <2>10
<1>6. CASE s.onReboot # "upgrade"
  <2>. DEFINE r == s.onReboot
              u == SendError(t, r)
              v == MtbBusLost(u)
  <2>1. RebootFailed(s) = v BY <1>3, <1>6
  <2>2. r \in Requests
    BY <1>6 DEF Upgrades, RebootAlone, Objects
  <2>. HIDE DEF r
  <2>5. u \in Objects /\ SameWork(t, u) /\ Answers(t, u) /\ Silent(t, u)
    BY <1>2, <2>2, SendErrorWork
  <2>. HIDE DEF u
  <2>6. /\ SameOther(u, v)
        /\ v.rebooting = u.rebooting
        /\ ~v.activating
        /\ v.activationsRemaining = 0
        /\ v.replies = u.replies
    BY <2>5, MtbBusLostFields
  <2>. HIDE DEF v
  <2>7. SameOther(s, v) BY <1>1, <2>5, <2>6 DEF SameOther, SameWork
  <2>8. ~v.rebooting BY <1>1, <2>5, <2>6 DEF SameWork
  <2>9. Answers(s, v) /\ Silent(s, v)
    BY <1>1, <2>5, <2>6, Zenon DEF Answers, Silent
  <2>10. Upgrades(v, "nothing") BY <2>6, <2>7, <2>8, <2>9, UpgradesBack
  <2>. QED BY <1>4, <2>1, <2>9, <2>10
<1>. QED BY <1>5, <1>6

\* All but the next block as it was.
SameButToWrite(s, t) ==
    /\ SameReboot(s, t)
    /\ t.fwUpgrading = s.fwUpgrading
    /\ t.data = s.data
    /\ t.flash = s.flash
    /\ t.setOutputsSent = s.setOutputsSent
    /\ t.configWriting = s.configWriting
    /\ t.fault = s.fault
    /\ t.replies = s.replies

LEMMA UpgradesToWrite ==
  ASSUME NEW s, NEW t, Upgrades(s, "chain"), SameButToWrite(s, t)
  PROVE  Upgrades(t, "chain")
<1>1. OneChain(t, "chain")
  BY DEF Upgrades, OneChain, Chained, SameButToWrite, SameReboot
<1>2. Pending(t) /\ Placed(t) /\ t.fault \in Excused
  BY DEF Upgrades, Pending, Placed, SameButToWrite, SameReboot
<1>3. RebootAlone(t, "chain")
  BY SameRebootAlone DEF Upgrades, SameButToWrite
<1>4. NotActivated(t, "chain")
  BY DEF Upgrades, NotActivated, Busied, Chained, NoAttempts, SameButToWrite, SameReboot
<1>5. /\ ~Has(s.bus, {"FwWriteFlashStatusRequest"})
      /\ ~Has(s.bus, {"FwWriteFlash"})
      /\ Block(s.bus, t.toWrite)
  BY Kinships DEF Upgrades, OneChain
<1>6. Flashed(t, "chain")
  BY <1>5 DEF Upgrades, Flashed, SameButToWrite, SameReboot
<1>. QED BY <1>1, <1>2, <1>3, <1>4, <1>6 DEF Upgrades

LEMMA UpgradesGotStatus ==
  ASSUME NEW s \in Objects, NEW w \in BOOLEAN, Upgrades(s, "chain"),
         s.toWrite <= s.data, (s.toWrite + 1) .. s.data \subseteq s.flash
  PROVE  LET t == FwUpgdGotStatus(s, w)
         IN t \in Objects /\ Upgrades(t, "nothing") /\ Silent(s, t)
<1>1. s.toWrite \in 0 .. Blocks /\ s.data \in 0 .. Blocks BY Limits
<1>2. Blocks \in Nat BY Limits
<1>3. CASE w
  BY <1>3, UpgradesGetStatus DEF FwUpgdGotStatus
<1>4. CASE ~w /\ s.toWrite = 0
  <2>1. FwUpgdGotStatus(s, w) = Reboot(s, "upgrade")
    BY <1>4 DEF FwUpgdGotStatus
  <2>2. 1 .. s.data \subseteq s.flash BY <1>4
  <2>3. s.rebooting \/ Calm(s)
    BY DEF Upgrades, OneChain, NotActivated, Busied, Chained, Calm
  <2>4. "upgrade" \notin Requests BY RequestNames
  <2>. QED BY <2>1, <2>2, <2>3, <2>4, UpgradesReboot
<1>5. CASE ~w /\ s.toWrite > 0
  <2>. DEFINE c == [kind |-> "FwWriteFlash", block |-> s.toWrite]
              u == [s EXCEPT !.toWrite = @ - 1]
              t == Send(u, c)
  <2>1. s.data # 0 BY <1>1, <1>2, <1>5
  <2>2. FwUpgdGotStatus(s, w) = t
    <3>1. FwUpgdGotStatus(s, w) = [Send(s, c) EXCEPT !.toWrite = @ - 1]
      BY <1>5, <2>1 DEF FwUpgdGotStatus
    <3>. QED BY <3>1 DEF Send, Objects
  <2>3. t \in Objects BY <2>2, FwUpgdGotStatusFacts DEF CarriesOn
  <2>4. c \in BusCommands
    <3>1. s.toWrite \in 1 .. Blocks BY <1>1, <1>2, <1>5
    <3>. QED BY <3>1 DEF BusCommands
  <2>5. c.kind = "FwWriteFlash" /\ c.block = s.toWrite OBVIOUS
  <2>. HIDE DEF c
  <2>6. u \in Objects BY <1>5, NextBlockFacts DEF CarriesOn
  <2>7. SameButToWrite(s, u) /\ u.toWrite = s.toWrite - 1
    BY DEF Objects, SameButToWrite, SameReboot
  <2>. HIDE DEF u
  <2>8. Upgrades(u, "chain") BY <2>7, UpgradesToWrite
  <2>9. /\ c.block = u.toWrite + 1
        /\ u.toWrite < u.data
        /\ (u.toWrite + 2) .. u.data \subseteq u.flash
    <3>1. u.data = s.data /\ u.flash = s.flash BY <2>7 DEF SameButToWrite
    <3>2. u.toWrite + 1 = s.toWrite /\ u.toWrite + 2 = s.toWrite + 1
      BY <1>1, <1>2, <2>7
    <3>. QED BY <1>1, <1>2, <2>5, <2>7, <3>1, <3>2
  <2>10. c.kind \in UpgradeCommands BY <2>5 DEF UpgradeCommands
  <2>11. Upgrades(t, "nothing")
    BY <2>4, <2>5, <2>6, <2>8, <2>9, <2>10, UpgradesSendChain
  <2>12. Silent(u, t) BY <2>4, <2>6, SendWork
  <2>13. Silent(s, u) BY <2>7, SilentSame DEF SameButToWrite
  <2>. QED BY <2>2, <2>3, <2>11, <2>12, <2>13, SilentTrans
<1>. QED BY <1>1, <1>3, <1>4, <1>5

-----------------------------------------------------------------------------
(* Writes of outputs and of the configuration, and an upgrade that waits *)

\* All but who waits for a write.
SameButWaiting(s, t) ==
    /\ SameReboot(s, t)
    /\ t.fwUpgrading = s.fwUpgrading
    /\ t.data = s.data
    /\ t.toWrite = s.toWrite
    /\ t.flash = s.flash
    /\ t.fault = s.fault

LEMMA UpgradesWaiting ==
  ASSUME NEW s, NEW t, NEW h, Upgrades(s, h), SameButWaiting(s, t), Answers(s, t),
         Pending(t),
         t.configWriting \in Requests => Kind[t.configWriting] = "module_set_config"
  PROVE  Upgrades(t, h)
<1>1. OneChain(t, h)
  BY DEF Upgrades, OneChain, Chained, SameButWaiting, SameReboot
<1>2. Placed(t) /\ t.fault \in Excused
  BY DEF Upgrades, Placed, SameButWaiting, SameReboot
<1>3. RebootAlone(t, h) BY SameRebootAlone DEF Upgrades, SameButWaiting
<1>4. NotActivated(t, h)
  BY DEF Upgrades, NotActivated, Busied, Chained, NoAttempts, SameButWaiting, SameReboot
<1>5. Flashed(t, h)
  BY DEF Upgrades, Flashed, Answers, SameButWaiting, SameReboot
<1>. QED BY <1>1, <1>2, <1>3, <1>4, <1>5 DEF Upgrades

\* The upgrade that waited for the write goes on.
LEMMA WriteIsChain ==
  ASSUME NEW s, Upgrades(s, "write"), ~Has(s.bus, Writes), s.fwUpgrading # None
  PROVE  Upgrades(s, "chain")
<1>1. ~Chained(s, "write") BY DEF Upgrades, OneChain
<1>2. ~Has(s.bus, UpgradeCommands) /\ s.timers["fwUpgdReqAck"] = 0
  BY <1>1 DEF Chained
<1>3. ~(s.rebooting /\ s.onReboot = "upgrade") BY DEF Upgrades, Flashed
<1>4. OneChain(s, "chain") BY <1>2, <1>3 DEF Upgrades, OneChain
<1>5. RebootAlone(s, "chain") BY DEF Upgrades, RebootAlone
<1>6. NotActivated(s, "chain")
  BY DEF Upgrades, NotActivated, Busied
<1>7. Flashed(s, "chain") BY DEF Upgrades, Flashed
<1>. QED BY <1>4, <1>5, <1>6, <1>7 DEF Upgrades

\* No upgrade waits: a write may begin.
LEMMA NoUpgradeIsWrite ==
  ASSUME NEW s, Upgrades(s, "nothing"), s.fwUpgrading = None
  PROVE  Upgrades(s, "write")
<1>1. OneChain(s, "write") BY DEF Upgrades, OneChain, Chained
<1>2. RebootAlone(s, "write") BY DEF Upgrades, RebootAlone
<1>3. NotActivated(s, "write") BY DEF NotActivated, Busied
<1>4. Flashed(s, "write") BY DEF Upgrades, Flashed
<1>. QED BY <1>1, <1>2, <1>3, <1>4 DEF Upgrades

LEMMA UpgradesSetOutputs ==
  ASSUME NEW s \in Objects, Upgrades(s, "write"), s.setOutputsWaiting # <<>>
  PROVE  LET t == SetOutputs(s)
         IN t \in Objects /\ Upgrades(t, "nothing") /\ Silent(s, t)
<1>. DEFINE t == [s EXCEPT !.setOutputsSent = s.setOutputsWaiting,
                           !.setOutputsWaiting = <<>>]
            c == [kind |-> "SetOutput", outputs |-> s.outputsWant]
<1>1. t \in Objects BY NothingSentFacts DEF CarriesOn
<1>2. c \in BusCommands /\ c.kind \in Writes
  BY DEF Objects, BusCommands, Writes
<1>3. SetOutputs(s) = Send(t, c) BY DEF SetOutputs
<1>4. /\ SameButWaiting(s, t)
      /\ t.setOutputsSent = s.setOutputsWaiting
      /\ t.configWriting = s.configWriting
      /\ t.replies = s.replies
  BY DEF Objects, SameButWaiting, SameReboot
<1>. HIDE DEF t, c
<1>5. Silent(s, t) /\ Answers(s, t) BY <1>4, SilentSame
<1>6. t.setOutputsSent # <<>> BY <1>4
<1>7. Pending(t) BY <1>6 DEF Pending
<1>8. Upgrades(t, "write")
  <2>1. t.configWriting \in Requests => Kind[t.configWriting] = "module_set_config"
    BY <1>4 DEF Upgrades, Placed
  <2>. QED BY <1>4, <1>5, <1>7, <2>1, UpgradesWaiting
<1>9. Upgrades(Send(t, c), "nothing") BY <1>1, <1>2, <1>6, <1>8, UpgradesSendWrite
<1>10. Send(t, c) \in Objects BY <1>1, <1>2, SentFacts
<1>11. Silent(t, Send(t, c)) BY <1>1, <1>2, SendWork
<1>. QED BY <1>3, <1>5, <1>9, <1>10, <1>11, SilentTrans

LEMMA UpgradesNextOutputs ==
  ASSUME NEW s \in Objects, Upgrades(s, "write"), ~Has(s.bus, Writes)
  PROVE  LET t == NextOutputs(s)
         IN t \in Objects /\ Upgrades(t, "nothing") /\ Silent(s, t)
<1>1. CASE s.setOutputsWaiting # <<>>
  <2>1. NextOutputs(s) = SetOutputs(s) BY <1>1 DEF NextOutputs
  <2>. QED BY <1>1, <2>1, UpgradesSetOutputs
<1>2. CASE s.setOutputsWaiting = <<>> /\ s.fwUpgrading # None
  <2>1. NextOutputs(s) = FwUpgdInit(s) BY <1>2 DEF NextOutputs
  <2>2. Upgrades(s, "chain") BY <1>2, WriteIsChain
  <2>. QED BY <2>1, <2>2, UpgradesInit
<1>3. CASE s.setOutputsWaiting = <<>> /\ s.fwUpgrading = None
  <2>1. NextOutputs(s) = s BY <1>3 DEF NextOutputs
  <2>2. Silent(s, s) BY SilentSame
  <2>. QED BY <2>1, <2>2, UpgradesDone
<1>. QED BY <1>1, <1>2, <1>3

LEMMA ReplySentWork ==
  ASSUME NEW s \in Objects, NEW response \in Responses, response # Ok
  PROVE  LET t == ReplySent(s, response)
         IN /\ SameButWaiting(s, t)
            /\ t.configWriting = s.configWriting
            /\ Answers(s, t)
            /\ Silent(s, t)
<1>. DEFINE told == {r \in ToSet(s.setOutputsSent) \ {Nobody} : Socket[r] \in clients}
            all == [r \in Requests |->
                       IF r \in told THEN Append(s.replies[r], response)
                       ELSE s.replies[r]]
            t == [s EXCEPT !.setOutputsSent = <<>>, !.replies = all]
<1>1. t = ReplySent(s, response) BY DEF ReplySent
<1>2. /\ \A r \in Requests : r \in told => all[r] = Append(s.replies[r], response)
      /\ \A r \in Requests : r \notin told => all[r] = s.replies[r]
  OBVIOUS
<1>. HIDE DEF all, told
<1>3. t.replies = all BY DEF Objects
<1>4. SameButWaiting(s, t) /\ t.configWriting = s.configWriting
  BY DEF Objects, SameButWaiting, SameReboot
<1>. HIDE DEF t
<1>5. \A r \in Requests :
        LET new == Append(s.replies[r], response)
        IN new # <<>> /\ ToSet(new) = ToSet(s.replies[r]) \cup {response}
  <2> SUFFICES ASSUME NEW r \in Requests
               PROVE  LET new == Append(s.replies[r], response)
                      IN new # <<>> /\ ToSet(new) = ToSet(s.replies[r]) \cup {response}
    OBVIOUS
  <2>1. s.replies[r] \in Seq(Responses) BY DEF Objects
  <2>. QED BY <2>1, AppendFacts
<1>6. Answers(s, t) BY <1>2, <1>3, <1>5 DEF Answers
<1>7. Silent(s, t)
  <2> SUFFICES ASSUME NEW r \in Requests, Ok \in ToSet(t.replies[r])
               PROVE  Ok \in ToSet(s.replies[r])
    BY DEF Silent
  <2>1. CASE r \notin told
    BY <1>2, <1>3, <2>1
  <2>2. CASE r \in told
    <3>1. t.replies[r] = Append(s.replies[r], response) BY <1>2, <1>3, <2>2
    <3>2. ToSet(Append(s.replies[r], response)) = ToSet(s.replies[r]) \cup {response}
      BY <1>5
    <3>3. Ok \in ToSet(s.replies[r]) \cup {response} BY <3>1, <3>2
    <3>. QED BY <3>3
  <2>. QED BY <2>1, <2>2
<1>. QED BY <1>1, <1>4, <1>6, <1>7

LEMMA UpgradesReplySent ==
  ASSUME NEW s \in Objects, Upgrades(s, "write"), ~Has(s.bus, Writes),
         NEW response \in Responses, response # Ok
  PROVE  LET t == ReplySent(s, response)
         IN /\ t \in Objects
            /\ Upgrades(t, "write")
            /\ ~Has(t.bus, Writes)
            /\ Silent(s, t)
<1>. DEFINE t == ReplySent(s, response)
<1>1. /\ SameButWaiting(s, t)
      /\ t.configWriting = s.configWriting
      /\ Answers(s, t)
      /\ Silent(s, t)
  BY ReplySentWork
<1>2. t \in Objects BY ReplySentFacts DEF CarriesOn
<1>. HIDE DEF t
<1>3. ~Has(t.bus, Writes) BY <1>1 DEF SameButWaiting, SameReboot
<1>4. Pending(t) BY <1>3 DEF Pending
<1>5. t.configWriting \in Requests => Kind[t.configWriting] = "module_set_config"
  BY <1>1 DEF Upgrades, Placed
<1>6. Upgrades(t, "write") BY <1>1, <1>4, <1>5, UpgradesWaiting
<1>. QED BY <1>1, <1>2, <1>3, <1>6 DEF t

LEMMA ConfirmedWork ==
  ASSUME NEW s \in Objects, NEW outputs
  PROVE  LET t == [s EXCEPT !.outputsConfirmed = outputs]
         IN SameWork(s, t) /\ t.replies = s.replies
BY DEF Objects, SameWork

LEMMA UpgradesOutputsSet ==
  ASSUME NEW s \in Objects, NEW outputs \in [Ports -> Values], Upgrades(s, "write"),
         ~Has(s.bus, Writes)
  PROVE  LET t == MtbBusOutputsSet(s, outputs)
         IN t \in Objects /\ Upgrades(t, "nothing") /\ Silent(s, t)
<1>. DEFINE t == [s EXCEPT !.outputsConfirmed = outputs]
            u == ReplySent(t, OutputsOk(outputs))
            v == NextOutputs(u)
<1>1. t \in Objects BY ConfirmedFacts DEF CarriesOn
<1>2. SameWork(s, t) /\ t.replies = s.replies BY ConfirmedWork
<1>3. MtbBusOutputsSet(s, outputs) = v BY DEF MtbBusOutputsSet
<1>. HIDE DEF t
<1>4. Upgrades(t, "write") BY <1>2, SilentSame, SameUpgrades
<1>5. ~Has(t.bus, Writes) BY <1>2 DEF SameWork
<1>6. OutputsOk(outputs) \in Responses /\ OutputsOk(outputs) # Ok
  BY ResponseTypes, ResponseNames
<1>7. u \in Objects /\ Upgrades(u, "write") /\ ~Has(u.bus, Writes) /\ Silent(t, u)
  BY <1>1, <1>4, <1>5, <1>6, UpgradesReplySent
<1>. HIDE DEF u
<1>8. v \in Objects /\ Upgrades(v, "nothing") /\ Silent(u, v)
  BY <1>7, UpgradesNextOutputs
<1>9. Silent(s, t) BY <1>2, SilentSame
<1>. HIDE DEF v
<1>10. Silent(s, v) BY <1>7, <1>8, <1>9, SilentTrans
<1>. QED BY <1>3, <1>8, <1>10

LEMMA UpgradesOutputsNotSet ==
  ASSUME NEW s \in Objects, Upgrades(s, "write"), ~Has(s.bus, Writes)
  PROVE  LET t == MtbBusOutputsNotSet(s)
         IN t \in Objects /\ Upgrades(t, "nothing") /\ Silent(s, t)
<1>. DEFINE t == ReplySent(s, Error)
            u == [t EXCEPT !.outputsConfirmed = s.outputsWant]
            v == NextOutputs(u)
<1>1. Error \in Responses /\ Error # Ok BY ResponseTypes, ResponseNames
<1>2. t \in Objects /\ Upgrades(t, "write") /\ ~Has(t.bus, Writes) /\ Silent(s, t)
  BY <1>1, UpgradesReplySent
<1>3. MtbBusOutputsNotSet(s) = v BY DEF MtbBusOutputsNotSet
<1>4. s.outputsWant \in [Ports -> Values] BY DEF Objects
<1>. HIDE DEF t
<1>5. u \in Objects BY <1>2, <1>4, ConfirmedFacts DEF CarriesOn
<1>6. SameWork(t, u) /\ u.replies = t.replies BY <1>2, ConfirmedWork
<1>. HIDE DEF u
<1>7. Upgrades(u, "write") BY <1>2, <1>6, SilentSame, SameUpgrades
<1>8. ~Has(u.bus, Writes) BY <1>2, <1>6 DEF SameWork
<1>9. v \in Objects /\ Upgrades(v, "nothing") /\ Silent(u, v)
  BY <1>5, <1>7, <1>8, UpgradesNextOutputs
<1>10. Silent(t, u) BY <1>6, SilentSame
<1>. HIDE DEF v
<1>11. Silent(s, v) BY <1>2, <1>9, <1>10, SilentTrans
<1>. QED BY <1>3, <1>9, <1>11

LEMMA NotWritingWork ==
  ASSUME NEW s \in Objects
  PROVE  LET t == [s EXCEPT !.configWriting = None]
         IN /\ SameButWaiting(s, t)
            /\ t.setOutputsSent = s.setOutputsSent
            /\ t.configWriting = None
            /\ t.replies = s.replies
BY DEF Objects, SameButWaiting, SameReboot

LEMMA UpgradesConfigDone ==
  ASSUME NEW s \in Objects, Upgrades(s, "write"), ~Has(s.bus, Writes),
         NEW response \in Responses
  PROVE  LET t == ConfigDone(s, response)
         IN t \in Objects /\ Upgrades(t, "nothing") /\ Silent(s, t)
<1>. DEFINE r == s.configWriting
            w == Reply(s, r, response)
            x == [w EXCEPT !.configWriting = None]
<1>1. ConfigDone(s, response) = IF x.fwUpgrading = None THEN x ELSE FwUpgdInit(x)
  BY DEF ConfigDone
<1>2. r \in Requests => Kind[r] # "module_upgrade_fw" BY DEF Upgrades, Placed
<1>. HIDE DEF r
<1>3. w \in Objects /\ Upgrades(w, "write") /\ Silent(s, w)
  BY <1>2, UpgradesReply
<1>4. SameWork(s, w) BY ReplyWork
<1>. HIDE DEF w
<1>5. ~Has(w.bus, Writes) BY <1>4 DEF SameWork
<1>6. /\ SameButWaiting(w, x)
      /\ x.configWriting = None
      /\ x.replies = w.replies
  BY <1>3, NotWritingWork
<1>7. x \in Objects BY <1>3, NotWritingFacts DEF CarriesOn
<1>. HIDE DEF x
<1>8. ~Has(x.bus, Writes) BY <1>5, <1>6 DEF SameButWaiting, SameReboot
<1>9. Pending(x) BY <1>8 DEF Pending
<1>10. x.configWriting \notin Requests BY <1>6, RequestNames
<1>11. Silent(w, x) /\ Answers(w, x) BY <1>6, SilentSame
<1>12. Upgrades(x, "write") BY <1>3, <1>6, <1>9, <1>10, <1>11, UpgradesWaiting
<1>13. Silent(s, x) BY <1>3, <1>11, SilentTrans
<1>14. CASE x.fwUpgrading = None
  BY <1>1, <1>7, <1>12, <1>13, <1>14, UpgradesDone
<1>15. CASE x.fwUpgrading # None
  <2>. DEFINE y == FwUpgdInit(x)
  <2>1. Upgrades(x, "chain") BY <1>8, <1>12, <1>15, WriteIsChain
  <2>2. y \in Objects /\ Upgrades(y, "nothing") /\ Silent(x, y)
    BY <1>7, <2>1, UpgradesInit
  <2>3. ConfigDone(s, response) = y BY <1>1, <1>15
  <2>. HIDE DEF y
  <2>4. Silent(s, y) BY <1>13, <2>2, SilentTrans
  <2>. QED BY <2>2, <2>3, <2>4
<1>. QED BY <1>14, <1>15

\* The file takes the configuration that was written.
LEMMA ConfigKeptWork ==
  ASSUME NEW s \in Objects
  PROVE  LET t == [s EXCEPT !.config = s.configToWrite]
         IN t \in Objects /\ SameWork(s, t) /\ t.replies = s.replies
<1>. DEFINE t == [s EXCEPT !.config = s.configToWrite]
<1>1. Shaped(t) BY ObjectShape, Zenon DEF Shaped
<1>2. Typed(t) BY DEF Typed, Objects
<1>3. SameWork(s, t) /\ t.replies = s.replies BY DEF Objects, SameWork
<1>. HIDE DEF t
<1>4. t \in Objects BY <1>1, <1>2, ObjectType
<1>. QED BY <1>3, <1>4 DEF t

LEMMA UpgradesConfigWritten ==
  ASSUME NEW s \in Objects, Upgrades(s, "write"), ~Has(s.bus, Writes)
  PROVE  LET t == MtbBusConfigWritten(s)
         IN t \in Objects /\ Upgrades(t, "nothing") /\ Silent(s, t)
<1>. DEFINE t == [s EXCEPT !.config = s.configToWrite]
            u == ConfigDone(t, Ok)
<1>1. t \in Objects /\ SameWork(s, t) /\ t.replies = s.replies BY ConfigKeptWork
<1>2. MtbBusConfigWritten(s) = u BY DEF MtbBusConfigWritten
<1>. HIDE DEF t
<1>3. Upgrades(t, "write") BY <1>1, SilentSame, SameUpgrades
<1>4. ~Has(t.bus, Writes) BY <1>1 DEF SameWork
<1>5. u \in Objects /\ Upgrades(u, "nothing") /\ Silent(t, u)
  BY <1>1, <1>3, <1>4, UpgradesConfigDone, ResponseTypes
<1>6. Silent(s, t) BY <1>1, SilentSame
<1>. HIDE DEF u
<1>. QED BY <1>2, <1>5, <1>6, SilentTrans

\* An upgrade is asked for, of a module that nothing activates.
LEMMA AcceptedFields ==
  ASSUME NEW s \in Objects, NEW r \in Requests
  PROVE  LET t == [s EXCEPT !.fwUpgrading = r, !.data = Blocks, !.flash = {}]
         IN /\ SameReboot(s, t)
            /\ t.fwUpgrading = r
            /\ t.data = Blocks
            /\ t.setOutputsSent = s.setOutputsSent
            /\ t.configWriting = s.configWriting
            /\ t.fault = s.fault
            /\ t.replies = s.replies
BY DEF Objects, SameReboot

LEMMA UpgradeOfFields ==
  ASSUME NEW s \in Objects, NEW r \in Requests
  PROVE  LET t == [s EXCEPT !.fwUpgrading = r]
         IN /\ SameReboot(s, t)
            /\ t.fwUpgrading = r
            /\ t.setOutputsSent = s.setOutputsSent
            /\ t.configWriting = s.configWriting
            /\ t.fault = s.fault
            /\ t.replies = s.replies
BY DEF Objects, SameReboot

\* The upgrade begins at once (chain), or waits.
LEMMA UpgradesBegins ==
  ASSUME NEW s, Upgrades(s, "nothing"), s.fwUpgrading = None,
         NEW t, NEW r \in Requests, Kind[r] = "module_upgrade_fw",
         SameReboot(s, t),
         t.fwUpgrading = r,
         t.setOutputsSent = s.setOutputsSent,
         t.configWriting = s.configWriting,
         s.fault \in Excused => t.fault \in Excused,
         r \notin Malformed => t.data = Blocks,
         r \in Malformed => t.replies[r] # <<>>,
         Calm(s),
         NEW h, (h = "chain" /\ ~Has(s.bus, Writes)) \/ h = "nothing"
  PROVE  Upgrades(t, h)
<1>1. ~Has(t.bus, UpgradeCommands) /\ t.timers["fwUpgdReqAck"] = 0
  BY DEF Upgrades, OneChain, Chained, SameReboot
<1>2. ~(t.rebooting /\ t.onReboot = "upgrade")
  BY DEF Upgrades, Flashed, SameReboot
<1>3. r # None BY RequestNames
<1>4. Single(t.bus, UpgradeCommands) BY <1>1 DEF Single, Has
<1>5. h = "chain" => ~Has(t.bus, Writes) BY DEF SameReboot
<1>6. OneChain(t, h) BY <1>1, <1>2, <1>3, <1>4, <1>5 DEF OneChain, Chained
<1>7. Pending(t) /\ Placed(t) /\ t.fault \in Excused
  BY DEF Upgrades, Pending, Placed, SameReboot
<1>8. RebootAlone(t, h)
  <2>1. RebootAlone(t, "nothing") BY SameRebootAlone DEF Upgrades
  <2>. QED BY <2>1 DEF RebootAlone
<1>9. NotActivated(t, h)
  <2>1. Calm(t) BY DEF Calm, NoAttempts, SameReboot
  <2>. QED BY <2>1 DEF Calm, NotActivated
<1>10. Flashed(t, h)
  <2>1. /\ ~Has(t.bus, {"FwWriteFlashStatusRequest"})
        /\ ~Has(t.bus, {"FwWriteFlash"})
        /\ Block(t.bus, t.toWrite)
    BY <1>1, Kinships
  <2>. QED BY <1>2, <2>1 DEF Flashed
<1>. QED BY <1>6, <1>7, <1>8, <1>9, <1>10 DEF Upgrades

LEMMA UpgradesAccepted ==
  ASSUME NEW s \in Objects, Upgrades(s, "nothing"), s.fwUpgrading = None,
         NEW r \in Requests, Kind[r] = "module_upgrade_fw", Socket[r] \in clients,
         Calm(s),
         NEW h, (h = "chain" /\ ~Has(s.bus, Writes)) \/ h = "nothing"
  PROVE  LET t == FwUpgradeAccepted(s, r)
         IN t \in Objects /\ Upgrades(t, h) /\ Silent(s, t)
<1>1. FwUpgradeAccepted(s, r) \in Objects BY FwUpgradeAcceptedFacts DEF CarriesOn
<1>2. CASE r \notin Malformed
  <2>. DEFINE t == [s EXCEPT !.fwUpgrading = r, !.data = Blocks, !.flash = {}]
  <2>1. FwUpgradeAccepted(s, r) = t BY <1>2 DEF FwUpgradeAccepted
  <2>2. /\ SameReboot(s, t)
        /\ t.fwUpgrading = r
        /\ t.data = Blocks
        /\ t.setOutputsSent = s.setOutputsSent
        /\ t.configWriting = s.configWriting
        /\ t.fault = s.fault
        /\ t.replies = s.replies
    BY AcceptedFields
  <2>. HIDE DEF t
  <2>3. Upgrades(t, h) BY <1>2, <2>2, UpgradesBegins
  <2>4. Silent(s, t) BY <2>2, SilentSame
  <2>. QED BY <1>1, <2>1, <2>3, <2>4
<1>3. CASE r \in Malformed
  <2>. DEFINE t == [s EXCEPT !.fwUpgrading = r]
              u == Reply(t, r, Error)
  <2>1. /\ SameReboot(s, t)
        /\ t.fwUpgrading = r
        /\ t.setOutputsSent = s.setOutputsSent
        /\ t.configWriting = s.configWriting
        /\ t.fault = s.fault
        /\ t.replies = s.replies
    BY UpgradeOfFields
  <2>2. t \in Objects BY UpgradeOfFacts DEF CarriesOn
  <2>3. FwUpgradeAccepted(s, r) = SendError(t, r) BY <1>3 DEF FwUpgradeAccepted
  <2>. HIDE DEF t
  <2>4. SendError(t, r) = u
    BY RequestNames DEF SendError
  <2>5. Error \in Responses /\ Error # Ok BY ResponseTypes, ResponseNames
  <2>6. /\ SameWork(t, u)
        /\ Silent(t, u)
        /\ u.replies[r] # <<>>
    BY <2>2, <2>5, ReplyWork
  <2>. HIDE DEF u
  <2>7. SameReboot(s, u) BY <2>1, <2>6, SameWorkReboot, SameRebootTrans
  <2>8. /\ u.fwUpgrading = r
        /\ u.setOutputsSent = s.setOutputsSent
        /\ u.configWriting = s.configWriting
        /\ s.fault \in Excused => u.fault \in Excused
    BY <2>1, <2>6 DEF SameWork
  <2>9. Upgrades(u, h) BY <1>3, <2>6, <2>7, <2>8, UpgradesBegins
  <2>10. Silent(s, u) BY <2>1, <2>6, SilentSame, SilentTrans
  <2>. QED BY <1>1, <2>3, <2>4, <2>9, <2>10
<1>. QED BY <1>2, <1>3

-----------------------------------------------------------------------------
(* What the end of a command leaves to its handler *)

LEMMA RestWork ==
  ASSUME m \in Objects, NEW i \in DOMAIN m.bus
  PROVE  LET t == Rest(i)
         IN /\ t \in Objects
            /\ t.bus = RemoveAt(m.bus, i)
            /\ SameButBus(m, t)
            /\ t.active = m.active
            /\ t.moduleConfig = m.moduleConfig
<1>1. /\ Rest(i).bus = RemoveAt(m.bus, i)
      /\ SameButBus(m, Rest(i))
      /\ Rest(i).active = m.active
      /\ Rest(i).moduleConfig = m.moduleConfig
  BY DEF Rest, Objects, SameButBus
<1>2. Rest(i) \in Objects
  <2>. DEFINE t == Rest(i)
  <2>1. m.bus \in Seq(BusCommands) BY DEF Objects
  <2>2. RemoveAt(m.bus, i) \in Seq(BusCommands) BY <2>1, RemoveAtPlaces
  <2>3. Shaped(t) BY ObjectShape, Zenon DEF Shaped, Rest
  <2>4. Typed(t) BY <2>2 DEF Typed, Objects, Rest
  <2>. HIDE DEF t
  <2>5. t \in Objects BY <2>3, <2>4, ObjectType
  <2>. QED BY <2>5 DEF t
<1>. QED BY <1>1, <1>2

\* What an object with fewer commands keeps.
Fewer(s, t) ==
    /\ SameButBus(s, t)
    /\ \A K : Has(t.bus, K) => Has(s.bus, K)
    /\ \A K : Single(s.bus, K) => Single(t.bus, K)
    /\ \A n : Block(s.bus, n) => Block(t.bus, n)
    /\ Asks(s.bus) => Asks(t.bus)

\* What the handler holds is what ended.
Holds(s, t, h) ==
    \/ h = "nothing"
    \/ h = "chain" /\ Has(s.bus, UpgradeCommands) /\ ~Has(t.bus, UpgradeCommands)
    \/ h = "write" /\ Has(s.bus, Writes)
    \/ /\ h = "activation"
       /\ Has(s.bus, Steps)
       /\ Single(s.bus, Steps) => ~Has(t.bus, Steps)
    \/ h = "activation" /\ Has(s.bus, {"ModuleInfo"})

LEMMA UpgradesFewer ==
  ASSUME NEW s, Upgrades(s, "nothing"), NEW t, Fewer(s, t), NEW h,
         Pending(t),
         Holds(s, t, h)
  PROVE  Upgrades(t, h)
<1>. \A K : Has(t.bus, K) => Has(s.bus, K) BY DEF Fewer
<1>1. Has(s.bus, Steps) <=> Has(s.bus, ActivationCommands) \/ Has(s.bus, RebootCommands)
  BY Kinships
<1>2. /\ h = "chain" => Chained(s, "nothing")
      /\ Chained(t, h) => Chained(s, "nothing")
      /\ Busied(t, h) => Busied(s, "nothing")
  BY DEF Holds, Chained, Busied, Fewer, SameButBus
<1>3. OneChain(t, h)
  <2>1. h = "write" => ~Chained(s, "nothing")
    BY DEF Holds, Upgrades, OneChain
  <2>. QED BY <1>2, <2>1 DEF Holds, Upgrades, OneChain, Chained, Fewer, SameButBus
<1>4. Placed(t) /\ t.fault \in Excused BY DEF Upgrades, Placed, Fewer, SameButBus
<1>5. RebootAlone(t, h)
  BY <1>1 DEF Holds, Upgrades, RebootAlone, NoAttempts, Fewer, SameButBus
<1>6. NotActivated(t, h)
  <2>1. Busied(s, "nothing") /\ ~s.rebooting => h # "activation"
    BY <1>1 DEF Holds, Upgrades, NotActivated, RebootAlone
  <2>. QED BY <1>2, <2>1 DEF Upgrades, NotActivated, NoAttempts, Fewer, SameButBus
<1>7. Flashed(t, h)
  <2>1. s.rebooting /\ s.onReboot = "upgrade" => h # "write"
    BY DEF Holds, Upgrades, Flashed
  <2>. QED BY <2>1 DEF Upgrades, Flashed, Fewer, SameButBus
<1>. QED BY <1>3, <1>4, <1>5, <1>6, <1>7 DEF Upgrades

LEMMA RestIsFewer ==
  ASSUME m \in Objects, NEW i \in DOMAIN m.bus
  PROVE  LET t == Rest(i)
         IN /\ Fewer(m, t)
            /\ \A K : m.bus[i].kind \in K =>
                  Has(m.bus, K) /\ (Single(m.bus, K) => ~Has(t.bus, K))
<1>1. m.bus \in Seq(BusCommands) BY DEF Objects
<1>2. Rest(i).bus = RemoveAt(m.bus, i) /\ SameButBus(m, Rest(i)) BY RestWork
<1>3. LET a == RemoveAt(m.bus, i)
      IN /\ \A K : Has(a, K) => Has(m.bus, K)
         /\ \A K : Single(m.bus, K) => Single(a, K) /\ (m.bus[i].kind \in K => ~Has(a, K))
         /\ \A n : Block(m.bus, n) => Block(a, n)
         /\ Asks(m.bus) => Asks(a)
  BY <1>1, HasRemoved
<1>4. \A K : m.bus[i].kind \in K => Has(m.bus, K) BY DEF Has
<1>. QED BY <1>2, <1>3, <1>4, Zenon DEF Fewer

LEMMA UpgradesRest ==
  ASSUME m \in Objects, Upgrades(m, "nothing"), OneWrite, NEW i \in DOMAIN m.bus
  PROVE  LET t == Rest(i)
             kind == m.bus[i].kind
         IN /\ kind \in {"Forward", "ResetOutputs"} => Upgrades(t, "nothing")
            /\ kind \in UpgradeCommands => Upgrades(t, "chain")
            /\ kind \in Writes => Upgrades(t, "write") /\ ~Has(t.bus, Writes)
            /\ kind \in Steps \cup {"ModuleInfo"} => Upgrades(t, "activation")
            /\ kind \in RebootCommands => t.rebooting /\ t.activationsRemaining = 0
            /\ kind \in ActivationCommands => (t.rebooting => t.activating)
            /\ t.replies = m.replies
            /\ kind = "FwWriteFlashStatusRequest" =>
                  t.toWrite <= t.data /\ (t.toWrite + 1) .. t.data \subseteq t.flash
            /\ kind = "FwWriteFlash" =>
                  /\ m.bus[i].block = t.toWrite + 1
                  /\ t.toWrite < t.data
                  /\ (t.toWrite + 2) .. t.data \subseteq t.flash
<1>. DEFINE t == Rest(i)
            kind == m.bus[i].kind
<1>1. /\ Fewer(m, t)
      /\ \A K : kind \in K => Has(m.bus, K) /\ (Single(m.bus, K) => ~Has(t.bus, K))
  BY RestIsFewer
<1>. HIDE DEF t, kind
<1>2. SameButBus(m, t) /\ (\A K : Has(t.bus, K) => Has(m.bus, K)) BY <1>1 DEF Fewer
<1>3. kind \notin Writes => Pending(t)
  <2>1. Pending(m) BY DEF Upgrades
  <2>. QED BY <1>2, <2>1 DEF Pending, SameButBus
<1>4. kind \in Writes => ~Has(t.bus, Writes) /\ Pending(t)
  BY <1>1 DEF OneWrite, Pending
<1>5. ASSUME kind \in {"Forward", "ResetOutputs"} PROVE Upgrades(t, "nothing")
  <2>1. kind \notin Writes BY <1>5 DEF Writes
  <2>2. Holds(m, t, "nothing") BY DEF Holds
  <2>. QED BY <1>1, <1>3, <2>1, <2>2, UpgradesFewer
<1>6. ASSUME kind \in UpgradeCommands PROVE Upgrades(t, "chain")
  <2>1. kind \notin Writes BY <1>6 DEF Writes, UpgradeCommands
  <2>2. Has(m.bus, UpgradeCommands) /\ ~Has(t.bus, UpgradeCommands)
    BY <1>1, <1>6 DEF Upgrades, OneChain
  <2>3. Holds(m, t, "chain") BY <2>2 DEF Holds
  <2>. QED BY <1>1, <1>3, <2>1, <2>3, UpgradesFewer
<1>7. ASSUME kind \in Writes PROVE Upgrades(t, "write")
  <2>1. Has(m.bus, Writes) BY <1>1, <1>7
  <2>2. Holds(m, t, "write") BY <2>1 DEF Holds
  <2>. QED BY <1>1, <1>4, <1>7, <2>2, UpgradesFewer
<1>8. ASSUME kind \in Steps PROVE Upgrades(t, "activation")
  <2>1. kind \notin Writes
    BY <1>8 DEF Writes, Steps, ActivationCommands, RebootCommands
  <2>2. Has(m.bus, Steps) /\ (Single(m.bus, Steps) => ~Has(t.bus, Steps))
    BY <1>1, <1>8
  <2>3. Holds(m, t, "activation") BY <2>2 DEF Holds
  <2>. QED BY <1>1, <1>3, <2>1, <2>3, UpgradesFewer
<1>9. ASSUME kind = "ModuleInfo" PROVE Upgrades(t, "activation")
  <2>1. kind \notin Writes BY <1>9 DEF Writes
  <2>2. Has(m.bus, {"ModuleInfo"}) BY <1>1, <1>9
  <2>3. Holds(m, t, "activation") BY <2>2 DEF Holds
  <2>. QED BY <1>1, <1>3, <2>1, <2>3, UpgradesFewer
<1>10. kind \in RebootCommands => t.rebooting /\ t.activationsRemaining = 0
  <2>1. kind \in RebootCommands => Has(m.bus, RebootCommands) BY <1>1
  <2>. QED BY <1>2, <2>1 DEF Upgrades, RebootAlone, SameButBus
<1>11. t.replies = m.replies BY <1>2 DEF SameButBus
<1>12. kind = "FwWriteFlashStatusRequest" =>
          t.toWrite <= t.data /\ (t.toWrite + 1) .. t.data \subseteq t.flash
  <2>1. kind = "FwWriteFlashStatusRequest" => Has(m.bus, {"FwWriteFlashStatusRequest"})
    BY <1>1
  <2>. QED BY <1>2, <2>1 DEF Upgrades, Flashed, SameButBus
<1>13. kind = "FwWriteFlash" =>
          /\ m.bus[i].block = t.toWrite + 1
          /\ t.toWrite < t.data
          /\ (t.toWrite + 2) .. t.data \subseteq t.flash
  <2>1. kind = "FwWriteFlash" => Has(m.bus, {"FwWriteFlash"}) BY <1>1
  <2>2. Block(m.bus, m.toWrite) BY DEF Upgrades, Flashed
  <2>3. kind = "FwWriteFlash" => m.bus[i].block = m.toWrite + 1
    BY <2>2 DEF Block, kind
  <2>. QED BY <1>2, <2>1, <2>3 DEF Upgrades, Flashed, SameButBus
<1>14. kind \in Steps \cup {"ModuleInfo"} => Upgrades(t, "activation") BY <1>8, <1>9
<1>15. kind \in ActivationCommands => (t.rebooting => t.activating)
  <2>1. kind \in ActivationCommands => Has(m.bus, ActivationCommands) BY <1>1
  <2>. QED BY <1>2, <2>1 DEF Upgrades, RebootAlone, SameButBus
<1>. QED BY <1>4, <1>5, <1>6, <1>7, <1>10, <1>11, <1>15, <1>12, <1>13, <1>14 DEF t, kind

-----------------------------------------------------------------------------
(* Timers and blocks *)

SameButTimers(s, t) ==
    /\ t.bus = s.bus
    /\ t.attempts = s.attempts
    /\ t.rebooting = s.rebooting
    /\ t.onReboot = s.onReboot
    /\ t.activating = s.activating
    /\ t.activationsRemaining = s.activationsRemaining
    /\ t.fwUpgrading = s.fwUpgrading
    /\ t.data = s.data
    /\ t.toWrite = s.toWrite
    /\ t.flash = s.flash
    /\ t.setOutputsSent = s.setOutputsSent
    /\ t.configWriting = s.configWriting
    /\ t.fault = s.fault
    /\ t.replies = s.replies

\* The chain waits for its timer (nothing), or its timer ended (chain).
LEMMA UpgradesChainTimer ==
  ASSUME NEW s, NEW t, NEW g, NEW h, Upgrades(s, g), SameButTimers(s, t),
         ~Has(s.bus, UpgradeCommands), g = "chain" \/ s.timers["fwUpgdReqAck"] # 0,
         t.timers["reboot"] = s.timers["reboot"],
         g = "chain" \/ g = "nothing",
         \/ h = "chain" /\ t.timers["fwUpgdReqAck"] = 0
         \/ h = "nothing" /\ t.timers["fwUpgdReqAck"] = 1
  PROVE  Upgrades(t, h)
<1>1. Chained(s, g) BY DEF Chained
<1>2. OneChain(t, h)
  BY <1>1 DEF Upgrades, OneChain, Chained, SameButTimers
<1>3. Pending(t) /\ Placed(t) /\ t.fault \in Excused
  BY DEF Upgrades, Pending, Placed, SameButTimers
<1>4. RebootAlone(t, h)
  BY DEF Upgrades, RebootAlone, NoAttempts, SameButTimers
<1>5. NotActivated(t, h)
  <2>1. s.fwUpgrading # None BY <1>1 DEF Upgrades, OneChain
  <2>2. Busied(s, g) BY <1>1, <2>1 DEF Busied
  <2>. QED BY <2>2 DEF Upgrades, NotActivated, NoAttempts, SameButTimers
<1>6. Flashed(t, h) BY DEF Upgrades, Flashed, SameButTimers
<1>. QED BY <1>2, <1>3, <1>4, <1>5, <1>6 DEF Upgrades

\* The reboot waits for its timer (nothing), or its timer ended (activation).
LEMMA UpgradesRebootTimer ==
  ASSUME NEW s, NEW t, NEW g, NEW h, Upgrades(s, g), SameButTimers(s, t),
         s.rebooting, ~Has(s.bus, Steps), s.activationsRemaining = 0,
         t.timers["fwUpgdReqAck"] = s.timers["fwUpgdReqAck"],
         g = "activation" \/ g = "nothing",
         \/ h = "activation" /\ t.timers["reboot"] = 0
         \/ h = "nothing" /\ t.timers["reboot"] = 1
  PROVE  Upgrades(t, h)
<1>1. OneChain(t, h)
  BY DEF Upgrades, OneChain, Chained, SameButTimers
<1>2. Pending(t) /\ Placed(t) /\ t.fault \in Excused
  BY DEF Upgrades, Pending, Placed, SameButTimers
<1>3. ~Has(s.bus, RebootCommands) /\ ~Has(s.bus, ActivationCommands) BY Kinships
<1>4. RebootAlone(t, h)
  BY <1>3 DEF Upgrades, RebootAlone, NoAttempts, SameButTimers
<1>5. NotActivated(t, h)
  BY DEF Upgrades, RebootAlone, NotActivated, NoAttempts, SameButTimers
<1>6. Flashed(t, h) BY DEF Upgrades, Flashed, SameButTimers
<1>. QED BY <1>1, <1>2, <1>4, <1>5, <1>6 DEF Upgrades

LEMMA TimerWork ==
  ASSUME NEW s \in Objects, NEW k \in Nat
  PROVE  /\ LET t == [s EXCEPT !.timers["fwUpgdReqAck"] = k]
            IN /\ SameButTimers(s, t)
               /\ t.timers["fwUpgdReqAck"] = k
               /\ t.timers["reboot"] = s.timers["reboot"]
               /\ t.activatedByMtbUsb = s.activatedByMtbUsb
         /\ LET t == [s EXCEPT !.timers["reboot"] = k]
            IN /\ SameButTimers(s, t)
               /\ t.timers["reboot"] = k
               /\ t.timers["fwUpgdReqAck"] = s.timers["fwUpgdReqAck"]
               /\ t.activatedByMtbUsb = s.activatedByMtbUsb
<1>1. s.timers \in [{"fwUpgdReqAck", "reboot"} -> Nat] BY DEF Objects
<1>2. LET t == [s EXCEPT !.timers["fwUpgdReqAck"] = k]
      IN /\ SameButTimers(s, t)
         /\ t.timers = [s.timers EXCEPT !["fwUpgdReqAck"] = k]
         /\ t.activatedByMtbUsb = s.activatedByMtbUsb
  BY DEF Objects, SameButTimers
<1>3. LET t == [s EXCEPT !.timers["reboot"] = k]
      IN /\ SameButTimers(s, t)
         /\ t.timers = [s.timers EXCEPT !["reboot"] = k]
         /\ t.activatedByMtbUsb = s.activatedByMtbUsb
  BY DEF Objects, SameButTimers
<1>4. /\ [s.timers EXCEPT !["fwUpgdReqAck"] = k]["fwUpgdReqAck"] = k
      /\ [s.timers EXCEPT !["fwUpgdReqAck"] = k]["reboot"] = s.timers["reboot"]
      /\ [s.timers EXCEPT !["reboot"] = k]["reboot"] = k
      /\ [s.timers EXCEPT !["reboot"] = k]["fwUpgdReqAck"] = s.timers["fwUpgdReqAck"]
  BY <1>1
<1>. QED BY <1>2, <1>3, <1>4

SameButAttempts(s, t) ==
    /\ t.bus = s.bus
    /\ t.timers = s.timers
    /\ t.rebooting = s.rebooting
    /\ t.fwUpgrading = s.fwUpgrading
    /\ t.data = s.data
    /\ t.toWrite = s.toWrite
    /\ t.flash = s.flash
    /\ t.setOutputsSent = s.setOutputsSent
    /\ t.configWriting = s.configWriting
    /\ t.onReboot = s.onReboot
    /\ t.fault = s.fault
    /\ t.replies = s.replies

\* While nothing reboots and no upgrade is busy, activations come as they like.
LEMMA UpgradesAttempts ==
  ASSUME NEW s, NEW t, Upgrades(s, "nothing"), SameButAttempts(s, t),
         ~s.rebooting, ~Busied(s, "nothing")
  PROVE  Upgrades(t, "nothing") /\ ~Busied(t, "nothing")
<1>1. OneChain(t, "nothing")
  BY DEF Upgrades, OneChain, Chained, SameButAttempts
<1>2. Pending(t) /\ Placed(t) /\ t.fault \in Excused
  BY DEF Upgrades, Pending, Placed, SameButAttempts
<1>3. RebootAlone(t, "nothing")
  BY DEF Upgrades, RebootAlone, SameButAttempts
<1>4. ~Busied(t, "nothing") BY DEF Busied, Chained, SameButAttempts
<1>5. NotActivated(t, "nothing") BY <1>4 DEF NotActivated
<1>6. Flashed(t, "nothing") BY DEF Upgrades, Flashed, SameButAttempts
<1>. QED BY <1>1, <1>2, <1>3, <1>4, <1>5, <1>6 DEF Upgrades

\* A block that was written joins the others.
LEMMA UpgradesBlock ==
  ASSUME NEW s \in Objects, Upgrades(s, "chain"), NEW b \in Nat, b = s.toWrite + 1,
         s.toWrite < s.data, (s.toWrite + 2) .. s.data \subseteq s.flash
  PROVE  LET t == [s EXCEPT !.flash = @ \cup {b}]
         IN /\ Upgrades(t, "chain")
            /\ t.toWrite <= t.data
            /\ (t.toWrite + 1) .. t.data \subseteq t.flash
            /\ t.replies = s.replies
<1>. DEFINE t == [s EXCEPT !.flash = @ \cup {b}]
<1>1. /\ SameReboot(s, t)
      /\ t.fwUpgrading = s.fwUpgrading
      /\ t.data = s.data
      /\ t.toWrite = s.toWrite
      /\ t.flash = s.flash \cup {b}
      /\ t.setOutputsSent = s.setOutputsSent
      /\ t.configWriting = s.configWriting
      /\ t.fault = s.fault
      /\ t.replies = s.replies
  BY DEF Objects, SameReboot
<1>. HIDE DEF t
<1>2. s.toWrite \in Nat /\ s.data \in Nat
  <2>1. Blocks \in Nat /\ s.toWrite \in 0 .. Blocks /\ s.data \in 0 .. Blocks BY Limits
  <2>. QED BY <2>1
<1>3. (s.toWrite + 1) .. s.data \subseteq s.flash \cup {b}
  <2>1. \A k \in (s.toWrite + 1) .. s.data : k = b \/ k \in (s.toWrite + 2) .. s.data
    BY <1>2
  <2>. QED BY <2>1
<1>4. OneChain(t, "chain") BY <1>1 DEF Upgrades, OneChain, Chained, SameReboot
<1>5. Pending(t) /\ Placed(t) /\ t.fault \in Excused
  BY <1>1 DEF Upgrades, Pending, Placed, SameReboot
<1>6. RebootAlone(t, "chain") BY <1>1, SameRebootAlone DEF Upgrades
<1>7. NotActivated(t, "chain")
  BY <1>1 DEF Upgrades, NotActivated, Busied, Chained, NoAttempts, SameReboot
<1>8. Flashed(t, "chain")
  <2>1. t.bus = s.bus /\ t.rebooting = s.rebooting /\ t.onReboot = s.onReboot
    BY <1>1 DEF SameReboot
  <2>2. ~Has(s.bus, {"FwWriteFlashStatusRequest"}) /\ ~Has(s.bus, {"FwWriteFlash"})
    BY Kinships DEF Upgrades, OneChain
  <2>3. ~(s.rebooting /\ s.onReboot = "upgrade")
    BY DEF Upgrades, OneChain, Chained
  <2>. QED BY <1>1, <2>1, <2>2, <2>3 DEF Upgrades, Flashed
<1>9. Upgrades(t, "chain") BY <1>4, <1>5, <1>6, <1>7, <1>8 DEF Upgrades
<1>10. t.toWrite <= t.data /\ (t.toWrite + 1) .. t.data \subseteq t.flash
  BY <1>1, <1>2, <1>3
<1>. QED BY <1>1, <1>9, <1>10 DEF t

\* What neither the upgrade nor the reboot is about.
LEMMA HeldWork ==
  ASSUME NEW s \in Objects, NEW h, Upgrades(s, h), NEW c \in Configs
  PROVE  /\ LET t == [s EXCEPT !.moduleConfig = c]
            IN t \in Objects /\ Upgrades(t, h) /\ t.replies = s.replies
         /\ LET t == [s EXCEPT !.config = c]
            IN t \in Objects /\ Upgrades(t, h) /\ t.replies = s.replies
<1>. DEFINE t == [s EXCEPT !.moduleConfig = c]
            u == [s EXCEPT !.config = c]
<1>1. t \in Objects BY HeldFacts DEF CarriesOn
<1>2. u \in Objects
  <2>1. Shaped(u) BY ObjectShape, Zenon DEF Shaped
  <2>2. Typed(u) BY DEF Typed, Objects
  <2>. HIDE DEF u
  <2>. QED BY <2>1, <2>2, ObjectType
<1>3. SameWork(s, t) /\ t.replies = s.replies BY DEF SameWork, Objects
<1>4. SameWork(s, u) /\ u.replies = s.replies BY DEF SameWork, Objects
<1>. HIDE DEF t, u
<1>5. Upgrades(t, h) BY <1>3, SilentSame, SameUpgrades
<1>6. Upgrades(u, h) BY <1>4, SilentSame, SameUpgrades
<1>. QED BY <1>1, <1>2, <1>3, <1>4, <1>5, <1>6 DEF t, u

\* The bus is asked for nothing, or for a step of the activation.
LEMMA UpgradesStepOn ==
  ASSUME NEW s \in Objects, Upgrades(s, "activation"), s.rebooting => s.activating,
         NEW k \in {"activate: GetInputs", "activate: ResetOutputs"}
  PROVE  LET t == Send(s, Cmd(k))
         IN Upgrades(t, "nothing") /\ t.replies = s.replies
<1>1. Cmd(k) \in BusCommands /\ Cmd(k).kind = k BY DEF Cmd, BusCommands
<1>2. k \in ActivationCommands BY DEF ActivationCommands
<1>. DEFINE c == Cmd(k)
<1>. HIDE DEF c
<1>3. c.kind \in ActivationCommands /\ c \in BusCommands BY <1>1, <1>2 DEF c
<1>4. Upgrades(Send(s, c), "nothing") BY <1>3, UpgradesSendStep
<1>5. Send(s, c).replies = s.replies BY <1>3, SendWork DEF SameButBus
<1>. QED BY <1>4, <1>5 DEF c

\* An answer tells the upgrades nothing new, or they are complete.
LEMMA SilentLater ==
  ASSUME NEW s, NEW t, NEW u, t.replies = s.replies
  PROVE  /\ Silent(t, u) => Silent(s, u)
         /\ Complete(t, u) => Complete(s, u)
BY Zenon DEF Silent, Complete


LEMMA WriteCallbacks ==
  ASSUME UniIInv, Upgrades(m, "nothing"), OneWrite, NEW i \in DOMAIN m.bus,
         \/ OutputsSet(i) \/ OutputsNotSet(i)
         \/ ConfigWritten(i) \/ ConfigNotWritten(i)
  PROVE  Upgrades(m', "nothing") /\ Silent(m, m')
<1>. DEFINE s == Rest(i)
            held(c) == [s EXCEPT !.moduleConfig = c]
            kind == m.bus[i].kind
<1>0. m \in Objects BY DEF UniIInv, Sound, Kept
<1>1. s \in Objects BY RestIsObject
<1>2. kind \in Writes
  BY DEF OutputsSet, OutputsNotSet, ConfigWritten, ConfigNotWritten, Succeeds, Ends, Writes
<1>3. Upgrades(s, "write") /\ ~Has(s.bus, Writes) /\ s.replies = m.replies
  BY <1>0, <1>2, UpgradesRest
<1>4. m.bus[i] \in BusCommands BY RestFacts
<1>5. m.moduleConfig \in Configs BY <1>0 DEF Objects
<1>6. CASE OutputsSet(i) \/ OutputsNotSet(i)
  <2>1. m' = MtbBusOutputsSet(s, m.bus[i].outputs) \/ m' = MtbBusOutputsNotSet(s)
    BY <1>6 DEF OutputsSet, OutputsNotSet
  <2>2. m.bus[i].outputs \in [Ports -> Values]
    BY <1>4, <1>6, CommandFacts DEF OutputsSet, OutputsNotSet, Succeeds, Ends
  <2>. HIDE DEF s
  <2>3. Upgrades(m', "nothing") /\ Silent(s, m')
    BY <1>1, <1>3, <2>1, <2>2, UpgradesOutputsSet, UpgradesOutputsNotSet
  <2>. QED BY <1>3, <2>3, SilentLater
<1>7. CASE ConfigWritten(i) \/ ConfigNotWritten(i)
  <2>1. m.bus[i].config \in Configs
    BY <1>4, <1>7, CommandFacts DEF ConfigWritten, ConfigNotWritten, Succeeds, Ends
  <2>2. PICK c \in Configs : m' = MtbBusConfigWritten(held(c)) \/ m' = ConfigDone(held(c), Error)
    BY <1>5, <1>7, <2>1 DEF ConfigWritten, ConfigNotWritten
  <2>. HIDE DEF s
  <2>3. /\ held(c) \in Objects
        /\ Upgrades(held(c), "write")
        /\ held(c).replies = s.replies
    BY <1>1, <1>3, HeldWork
  <2>4. held(c).bus = s.bus BY <1>1 DEF Objects
  <2>. HIDE DEF held
  <2>5. Upgrades(m', "nothing") /\ Silent(held(c), m')
    BY <1>3, <2>2, <2>3, <2>4, UpgradesConfigDone, UpgradesConfigWritten, ResponseTypes
  <2>. QED BY <1>3, <2>3, <2>5, SilentLater
<1>. QED BY <1>6, <1>7

LEMMA ForwardCallbacks ==
  ASSUME UniIInv, AllThere, Upgrades(m, "nothing"), OneWrite, NEW i \in DOMAIN m.bus,
         \/ ForwardOk(i) \/ ForwardFailed(i)
         \/ OutputsResetOk(i) \/ OutputsResetFailed(i)
  PROVE  Upgrades(m', "nothing") /\ Silent(m, m')
<1>. DEFINE s == Rest(i)
            kind == m.bus[i].kind
            r == m.bus[i].request
<1>0. m \in Objects BY DEF UniIInv, Sound, Kept
<1>1. s \in Objects BY RestIsObject
<1>2. kind \in {"Forward", "ResetOutputs"}
  BY DEF ForwardOk, ForwardFailed, OutputsResetOk, OutputsResetFailed, Succeeds, Ends
<1>3. Upgrades(s, "nothing") /\ s.replies = m.replies
  BY <1>0, <1>2, UpgradesRest
<1>4. m.bus[i] \in BusCommands BY RestFacts
<1>5. r \in Requests \cup {Nobody} BY <1>2, <1>4, CommandFacts
<1>6. r \in Requests => Kind[r] # "module_upgrade_fw"
  <2>1. r \in Requests => Kind[r] \in ForwardKinds
    BY <1>2 DEF Upgrades, Placed, Asks, Carries
  <2>. QED BY <2>1 DEF ForwardKinds
<1>7. m' = Reply(s, r, Ok) \/ m' = SendError(s, r)
  BY DEF ForwardOk, ForwardFailed, OutputsResetOk, OutputsResetFailed
<1>. HIDE DEF s, r, kind
<1>8. Upgrades(m', "nothing") /\ Silent(s, m')
  BY <1>1, <1>3, <1>5, <1>6, <1>7, UpgradesReply, UpgradesSendError, ResponseTypes
<1>. QED BY <1>3, <1>8, SilentLater

LEMMA ActivationCallbacks ==
  ASSUME UniIInv, Upgrades(m, "nothing"), OneWrite, NEW i \in DOMAIN m.bus,
         ActivationStep(i) \/ ActivationFailed(i)
  PROVE  Upgrades(m', "nothing") /\ Complete(m, m')
<1>. DEFINE s == Rest(i)
            held(c) == [s EXCEPT !.moduleConfig = c]
            kind == m.bus[i].kind
<1>0. m \in Objects BY DEF UniIInv, Sound, Kept
<1>1. s \in Objects BY RestIsObject
<1>2. kind \in ActivationCommands
  BY DEF ActivationStep, ActivationFailed, Succeeds, Ends, ActivationCommands
<1>3. /\ Upgrades(s, "activation")
      /\ s.rebooting => s.activating
      /\ s.replies = m.replies
  BY <1>0, <1>2, UpgradesRest DEF Steps
<1>4. m.bus[i] \in BusCommands BY RestFacts
<1>5. m.moduleConfig \in Configs BY <1>0 DEF Objects
<1>6. kind = "activate: SetConfig" => m.bus[i].config \in Configs
  BY <1>4, CommandFacts
<1>7. ASSUME NEW c \in Configs
      PROVE  /\ held(c) \in Objects
             /\ Upgrades(held(c), "activation")
             /\ held(c).replies = m.replies
             /\ held(c).rebooting => held(c).activating
  <2>. HIDE DEF s
  <2>1. held(c).rebooting = s.rebooting /\ held(c).activating = s.activating
    BY <1>1 DEF Objects
  <2>. QED BY <1>1, <1>3, <2>1, HeldWork
<1>8. CASE ActivationStep(i)
  <2>. DEFINE read == [s EXCEPT !.config = m.moduleConfig]
  <2>1. \/ \E c \in Configs : m' = Send(held(c), Cmd("activate: GetInputs"))
        \/ m' = Send(read, Cmd("activate: GetInputs"))
        \/ m' = Send(s, Cmd("activate: ResetOutputs"))
        \/ m' = OutputsReset(s)
    BY <1>6, <1>8 DEF ActivationStep, Succeeds, Ends
  <2>. HIDE DEF s
  <2>2. /\ read \in Objects
        /\ Upgrades(read, "activation")
        /\ read.replies = m.replies
    BY <1>1, <1>3, <1>5, HeldWork
  <2>3. read.rebooting => read.activating BY <1>1, <1>3 DEF Objects
  <2>. HIDE DEF held, read
  <2>4. ASSUME NEW t \in Objects, Upgrades(t, "activation"), t.replies = m.replies,
               t.rebooting => t.activating,
               NEW k \in {"activate: GetInputs", "activate: ResetOutputs"},
               m' = Send(t, Cmd(k))
        PROVE  Upgrades(m', "nothing") /\ Complete(m, m')
    <3>1. Upgrades(m', "nothing") /\ m'.replies = m.replies BY <2>4, UpgradesStepOn
    <3>2. Silent(m, m') BY <3>1, SilentSame
    <3>. QED BY <1>0, <3>1, <3>2, SilentIsComplete
  <2>5. CASE m' = OutputsReset(s)
    <3>1. Upgrades(m', "nothing") /\ Complete(s, m')
      BY <1>1, <1>3, <2>5, UpgradesOutputsReset
    <3>. QED BY <1>3, <3>1, SilentLater
  <2>6. CASE \E c \in Configs : m' = Send(held(c), Cmd("activate: GetInputs"))
    BY <1>7, <2>4, <2>6
  <2>7. CASE m' = Send(read, Cmd("activate: GetInputs"))
    BY <2>2, <2>3, <2>4, <2>7
  <2>8. CASE m' = Send(s, Cmd("activate: ResetOutputs"))
    BY <1>1, <1>3, <2>4, <2>8
  <2>. QED BY <2>1, <2>5, <2>6, <2>7, <2>8
<1>9. CASE ActivationFailed(i)
  <2>1. PICK c \in Configs : m' = ActivationError(held(c))
    BY <1>5, <1>6, <1>9 DEF ActivationFailed
  <2>. HIDE DEF held
  <2>2. Upgrades(m', "nothing") /\ Silent(held(c), m')
    BY <1>7, <2>1, UpgradesActivationError
  <2>3. Silent(m, m') BY <1>7, <2>2, SilentLater
  <2>. QED BY <1>0, <2>2, <2>3, SilentIsComplete
<1>. QED BY <1>8, <1>9

LEMMA RebootCallbacks ==
  ASSUME UniIInv, AllThere, Upgrades(m, "nothing"), OneWrite, NEW i \in DOMAIN m.bus,
         \/ RebootAck(i) \/ RebootError(i)
         \/ \E b \in BOOLEAN : RebootGotInfo(i, b) \/ ModuleGotInfo(i, b)
  PROVE  Upgrades(m', "nothing") /\ Complete(m, m')
<1>. DEFINE s == Rest(i)
            kind == m.bus[i].kind
<1>0. m \in Objects BY DEF UniIInv, Sound, Kept
<1>1. s \in Objects BY RestIsObject
<1>2. kind \in RebootCommands \cup {"ModuleInfo"}
  BY DEF RebootAck, RebootError, RebootGotInfo, ModuleGotInfo, Succeeds, Ends,
         RebootCommands
<1>3. Upgrades(s, "activation") /\ s.replies = m.replies
  BY <1>0, <1>2, UpgradesRest DEF Steps
<1>4. kind \in RebootCommands => s.rebooting /\ s.activationsRemaining = 0
  BY <1>0, UpgradesRest
<1>5. CASE RebootAck(i)
  <2>1. m' = [s EXCEPT !.timers["reboot"] = @ + 1] /\ kind = "Reboot"
    BY <1>5 DEF RebootAck, Succeeds, Ends
  <2>. HIDE DEF s, kind
  <2>2. s.rebooting /\ s.activationsRemaining = 0
    BY <1>4, <2>1 DEF RebootCommands
  <2>3. ~Has(s.bus, Steps) /\ s.timers["reboot"] = 0
    BY <1>3, <2>2 DEF Upgrades, RebootAlone
  <2>4. s.timers["reboot"] + 1 = 1 BY <2>3
  <2>5. m' = [s EXCEPT !.timers["reboot"] = 1] BY <2>1, <2>4
  <2>6. /\ SameButTimers(s, m')
        /\ m'.timers["reboot"] = 1
        /\ m'.timers["fwUpgdReqAck"] = s.timers["fwUpgdReqAck"]
    BY <1>1, <2>5, TimerWork
  <2>7. Upgrades(m', "nothing")
    BY <1>3, <2>2, <2>3, <2>6, UpgradesRebootTimer
  <2>8. Silent(m, m')
    BY <1>3, <2>6, SilentSame DEF SameButTimers
  <2>. QED BY <1>0, <2>7, <2>8, SilentIsComplete
<1>6. CASE RebootError(i)
  <2>1. m' = RebootFailed(s) /\ kind \in RebootCommands
    BY <1>6 DEF RebootError, Ends, RebootCommands
  <2>. HIDE DEF s, kind
  <2>2. Upgrades(m', "nothing") /\ Silent(s, m')
    BY <1>1, <1>3, <1>4, <2>1, UpgradesRebootFailed
  <2>3. Silent(m, m') BY <1>3, <2>2, SilentLater
  <2>. QED BY <1>0, <2>2, <2>3, SilentIsComplete
<1>7. CASE \E b \in BOOLEAN : RebootGotInfo(i, b) \/ ModuleGotInfo(i, b)
  <2>1. PICK b \in BOOLEAN : m' = MtbBusActivate(s, b)
    BY <1>7 DEF RebootGotInfo, ModuleGotInfo
  <2>. HIDE DEF s
  <2>2. Upgrades(m', "nothing") /\ Complete(s, m')
    BY <1>1, <1>3, <2>1, UpgradesMtbBusActivate
  <2>. QED BY <1>3, <2>2, SilentLater
<1>. QED BY <1>5, <1>6, <1>7

LEMMA ChainCallbacks ==
  ASSUME UniIInv, Upgrades(m, "nothing"), OneWrite, NEW i \in DOMAIN m.bus,
         \/ FwUpgdReqAck(i) \/ FwUpgdWritten(i) \/ FwUpgdFailed(i)
         \/ \E b \in BOOLEAN : FwUpgdInfo(i, b) \/ FwUpgdStatus(i, b)
  PROVE  Upgrades(m', "nothing") /\ Silent(m, m')
<1>. DEFINE s == Rest(i)
            kind == m.bus[i].kind
            t == [s EXCEPT !.flash = @ \cup {m.bus[i].block}]
<1>0. m \in Objects BY DEF UniIInv, Sound, Kept
<1>1. s \in Objects BY RestIsObject
<1>2. kind \in UpgradeCommands
  BY DEF FwUpgdReqAck, FwUpgdWritten, FwUpgdFailed, FwUpgdInfo, FwUpgdStatus,
         Succeeds, Ends, UpgradeCommands
<1>3. /\ Upgrades(s, "chain")
      /\ s.replies = m.replies
      /\ kind = "FwWriteFlashStatusRequest" =>
            s.toWrite <= s.data /\ (s.toWrite + 1) .. s.data \subseteq s.flash
      /\ kind = "FwWriteFlash" =>
            /\ m.bus[i].block = s.toWrite + 1
            /\ s.toWrite < s.data
            /\ (s.toWrite + 2) .. s.data \subseteq s.flash
  BY <1>0, <1>2, UpgradesRest
<1>4. m.bus[i] \in BusCommands BY RestFacts
<1>5. SUFFICES Upgrades(m', "nothing") /\ Silent(s, m')
  BY <1>3, SilentLater
<1>6. CASE FwUpgdReqAck(i)
  <2>1. m' = [s EXCEPT !.timers["fwUpgdReqAck"] = @ + 1] BY <1>6 DEF FwUpgdReqAck
  <2>. HIDE DEF s
  <2>2. ~Has(s.bus, UpgradeCommands) /\ s.timers["fwUpgdReqAck"] = 0
    BY <1>3 DEF Upgrades, OneChain
  <2>3. s.timers["fwUpgdReqAck"] + 1 = 1 BY <2>2
  <2>4. m' = [s EXCEPT !.timers["fwUpgdReqAck"] = 1] BY <2>1, <2>3
  <2>5. /\ SameButTimers(s, m')
        /\ m'.timers["fwUpgdReqAck"] = 1
        /\ m'.timers["reboot"] = s.timers["reboot"]
    BY <1>1, <2>4, TimerWork
  <2>6. Upgrades(m', "nothing") BY <1>3, <2>2, <2>5, UpgradesChainTimer
  <2>7. Silent(s, m') BY <2>5, SilentSame DEF SameButTimers
  <2>. QED BY <2>6, <2>7
<1>7. CASE FwUpgdWritten(i)
  <2>1. m' = FwUpgdGetStatus(t) /\ kind = "FwWriteFlash"
    BY <1>7 DEF FwUpgdWritten, Succeeds, Ends
  <2>2. m.bus[i].block \in 1 .. Blocks BY <1>4, <2>1, CommandFacts
  <2>3. m.bus[i].block \in Nat
    <3>1. Blocks \in Nat BY MtbUniAssumption
    <3>. QED BY <2>2, <3>1
  <2>. HIDE DEF s
  <2>4. t \in Objects BY <1>1, <2>2, FlashedFacts DEF CarriesOn
  <2>5. /\ Upgrades(t, "chain")
        /\ t.toWrite <= t.data
        /\ (t.toWrite + 1) .. t.data \subseteq t.flash
        /\ t.replies = s.replies
    <3>. DEFINE b == m.bus[i].block
    <3>1. /\ b \in Nat /\ b = s.toWrite + 1
          /\ s.toWrite < s.data
          /\ (s.toWrite + 2) .. s.data \subseteq s.flash
      BY <1>3, <2>1, <2>3
    <3>. HIDE DEF b
    <3>2. LET u == [s EXCEPT !.flash = @ \cup {b}]
          IN /\ Upgrades(u, "chain")
             /\ u.toWrite <= u.data
             /\ (u.toWrite + 1) .. u.data \subseteq u.flash
             /\ u.replies = s.replies
      BY <1>1, <1>3, <3>1, UpgradesBlock
    <3>. QED BY <3>2 DEF b
  <2>. HIDE DEF t, kind
  <2>6. Upgrades(m', "nothing") /\ Silent(t, m')
    BY <2>1, <2>4, <2>5, UpgradesGetStatus
  <2>. QED BY <2>5, <2>6, SilentLater
<1>8. CASE FwUpgdFailed(i)
  <2>1. m' = FwUpgdError(s) BY <1>8 DEF FwUpgdFailed
  <2>. HIDE DEF s
  <2>. QED BY <1>1, <1>3, <2>1, UpgradesFwUpgdError
<1>9. CASE \E b \in BOOLEAN : FwUpgdInfo(i, b)
  <2>1. PICK b \in BOOLEAN : m' = FwUpgdGotInfo(s, b) BY <1>9 DEF FwUpgdInfo
  <2>. HIDE DEF s
  <2>. QED BY <1>1, <1>3, <2>1, UpgradesGotInfo
<1>10. CASE \E b \in BOOLEAN : FwUpgdStatus(i, b)
  <2>1. PICK b \in BOOLEAN : m' = FwUpgdGotStatus(s, b) /\ kind = "FwWriteFlashStatusRequest"
    BY <1>10 DEF FwUpgdStatus, Succeeds, Ends
  <2>. HIDE DEF s, kind
  <2>. QED BY <1>1, <1>3, <2>1, UpgradesGotStatus
<1>. QED BY <1>6, <1>7, <1>8, <1>9, <1>10

\* The module did not tell its information: it is asked again later.
LEMMA NoInfoCallback ==
  ASSUME UniIInv, Upgrades(m, "nothing"), OneWrite, NEW i \in DOMAIN m.bus,
         ModuleNoInfo(i)
  PROVE  Upgrades(m', "nothing") /\ Silent(m, m')
<1>. DEFINE s == Rest(i)
            kind == m.bus[i].kind
            n == m.bus[i].attempts
<1>0. m \in Objects BY DEF UniIInv, Sound, Kept
<1>1. s \in Objects BY RestIsObject
<1>2. kind = "ModuleInfo" BY DEF ModuleNoInfo, Ends
<1>3. Upgrades(s, "activation") /\ s.replies = m.replies
  BY <1>0, <1>2, UpgradesRest
<1>4. Upgrades(s, "nothing") BY <1>3, UpgradesDone
<1>5. /\ Fewer(m, s)
      /\ Has(m.bus, {"ModuleInfo"})
  BY <1>0, <1>2, RestIsFewer
<1>6. m' = s \/ m' = [s EXCEPT !.attempts[n] = @ + 1] BY DEF ModuleNoInfo
<1>. HIDE DEF s, kind, n
<1>7. ~m.rebooting /\ ~Busied(m, "nothing")
  BY <1>5 DEF Upgrades, RebootAlone, NotActivated
<1>8. ~s.rebooting /\ ~Busied(s, "nothing")
  BY <1>5, <1>7 DEF Fewer, SameButBus, Busied, Chained
<1>9. CASE m' = s
  BY <1>3, <1>4, <1>9, SilentSame
<1>10. CASE m' = [s EXCEPT !.attempts[n] = @ + 1]
  <2>1. SameButAttempts(s, m') BY <1>1, <1>10 DEF SameButAttempts, Objects
  <2>2. Upgrades(m', "nothing") BY <1>4, <1>8, <2>1, UpgradesAttempts
  <2>3. Silent(m, m') BY <1>3, <2>1, SilentSame DEF SameButAttempts
  <2>. QED BY <2>2, <2>3
<1>. QED BY <1>6, <1>9, <1>10

\* The ends of the commands leave the upgrades right.
LEMMA UpgradesCallback ==
  ASSUME UniIInv, AllThere, Upgrades(m, "nothing"), OneWrite, NEW i \in DOMAIN m.bus,
         \/ Callback(i)
         \/ \E b \in BOOLEAN : ModuleGotInfo(i, b)
         \/ ModuleNoInfo(i)
  PROVE  Upgrades(m', "nothing") /\ Complete(m, m')
<1>0. m \in Objects BY DEF UniIInv, Sound, Kept
<1>1. CASE \/ OutputsSet(i) \/ OutputsNotSet(i)
           \/ ConfigWritten(i) \/ ConfigNotWritten(i)
  BY <1>0, <1>1, WriteCallbacks, SilentIsComplete
<1>2. CASE \/ ForwardOk(i) \/ ForwardFailed(i)
           \/ OutputsResetOk(i) \/ OutputsResetFailed(i)
  BY <1>0, <1>2, ForwardCallbacks, SilentIsComplete
<1>3. CASE ActivationStep(i) \/ ActivationFailed(i)
  BY <1>3, ActivationCallbacks
<1>4. CASE \/ RebootAck(i) \/ RebootError(i)
           \/ \E b \in BOOLEAN : RebootGotInfo(i, b) \/ ModuleGotInfo(i, b)
  BY <1>4, RebootCallbacks
<1>5. CASE \/ FwUpgdReqAck(i) \/ FwUpgdWritten(i) \/ FwUpgdFailed(i)
           \/ \E b \in BOOLEAN : FwUpgdInfo(i, b) \/ FwUpgdStatus(i, b)
  BY <1>0, <1>5, ChainCallbacks, SilentIsComplete
<1>6. CASE ModuleNoInfo(i)
  BY <1>0, <1>6, NoInfoCallback, SilentIsComplete
<1>. QED BY <1>1, <1>2, <1>3, <1>4, <1>5, <1>6, Zenon DEF Callback

\* What a handler that sends nothing leaves as it is.
Keeps(s, t) ==
    /\ t \in Objects
    /\ t.bus = s.bus
    /\ t.timers = s.timers
    /\ t.rebooting => s.rebooting

\* A handler sends one command at most, and the one that reboots the module
\* is its request to do so.
Adds(s, t) ==
    /\ t \in Objects
    /\ Len(t.bus) <= Len(s.bus) + 1
    /\ t.timers = s.timers
    /\ t.rebooting => s.rebooting \/ Has(t.bus, {"Reboot"})

LEMMA KeepsAdds ==
  ASSUME NEW s \in Objects, NEW t, NEW u, Keeps(s, t)
  PROVE  /\ Adds(s, t)
         /\ Keeps(t, u) => Keeps(s, u)
         /\ Adds(t, u) => Adds(s, u)
<1>1. Len(s.bus) \in Nat
  <2>1. s.bus \in Seq(BusCommands) BY DEF Objects
  <2>. QED BY <2>1
<1>2. Len(s.bus) <= Len(s.bus) + 1 BY <1>1
<1>. QED BY <1>2 DEF Keeps, Adds

LEMMA KeepsSelf ==
  ASSUME NEW s \in Objects
  PROVE  Keeps(s, s)
BY DEF Keeps

LEMMA KeepsSame ==
  ASSUME NEW s, NEW t \in Objects
  PROVE  /\ SameWork(s, t) => Keeps(s, t)
         /\ SameReboot(s, t) => Keeps(s, t)
         /\ SameButWaiting(s, t) => Keeps(s, t)
         /\ SameOther(s, t) /\ (t.rebooting => s.rebooting) => Keeps(s, t)
<1>1. SameWork(s, t) => Keeps(s, t) BY DEF Keeps, SameWork
<1>2. SameReboot(s, t) => Keeps(s, t) BY DEF Keeps, SameReboot
<1>3. SameButWaiting(s, t) => Keeps(s, t) BY DEF Keeps, SameButWaiting, SameReboot
<1>4. SameOther(s, t) /\ (t.rebooting => s.rebooting) => Keeps(s, t)
  BY DEF Keeps, SameOther
<1>. QED BY <1>1, <1>2, <1>3, <1>4

LEMMA AddsSend ==
  ASSUME NEW s \in Objects, NEW c \in BusCommands
  PROVE  LET t == Send(s, c)
         IN Adds(s, t) /\ t.rebooting = s.rebooting
<1>. DEFINE t == Send(s, c)
<1>1. t \in Objects BY SentFacts
<1>2. t.bus = Append(s.bus, c) /\ SameButBus(s, t) BY SendWork
<1>3. Len(Append(s.bus, c)) = Len(s.bus) + 1
  <2>1. s.bus \in Seq(BusCommands) BY DEF Objects
  <2>. QED BY <2>1, AppendFacts
<1>4. Len(s.bus) + 1 <= Len(s.bus) + 1
  <2>1. s.bus \in Seq(BusCommands) BY DEF Objects
  <2>. QED BY <2>1
<1>. HIDE DEF t
<1>5. Adds(s, t) /\ t.rebooting = s.rebooting
  BY <1>1, <1>2, <1>3, <1>4 DEF Adds, SameButBus
<1>. QED BY <1>5 DEF t

LEMMA KeepsReply ==
  ASSUME NEW s \in Objects, NEW r, NEW response \in Responses
  PROVE  Keeps(s, Reply(s, r, response))
<1>. DEFINE t == Reply(s, r, response)
<1>1. t \in Objects BY ReplyFacts DEF CarriesOn
<1>2. SameWork(s, t) BY ReplyWork
<1>. HIDE DEF t
<1>3. Keeps(s, t) BY <1>1, <1>2, KeepsSame
<1>. QED BY <1>3 DEF t

LEMMA KeepsFault ==
  ASSUME NEW s \in Objects, NEW what \in {"no upgrade", "deleted socket", "toWrite"}
  PROVE  Keeps(s, Fault(s, what))
<1>. DEFINE t == Fault(s, what)
<1>1. t \in Objects BY FaultFacts DEF CarriesOn
<1>2. SameReboot(s, t) BY DEF SameReboot, Fault, Objects
<1>. HIDE DEF t
<1>3. Keeps(s, t) BY <1>1, <1>2, KeepsSame
<1>. QED BY <1>3 DEF t

LEMMA KeepsSendError ==
  ASSUME NEW s \in Objects, NEW r
  PROVE  Keeps(s, SendError(s, r))
BY KeepsSelf, KeepsFault, KeepsReply, ResponseTypes DEF SendError

LEMMA KeepsFwUpgdError ==
  ASSUME NEW s \in Objects
  PROVE  Keeps(s, FwUpgdError(s))
<1>1. CASE s.fwUpgrading = None
  BY <1>1, KeepsFault DEF FwUpgdError
<1>2. CASE s.fwUpgrading # None
  <2>. DEFINE w == Reply(s, s.fwUpgrading, Error)
              t == [w EXCEPT !.fwUpgrading = None, !.data = 0]
  <2>1. FwUpgdError(s) = t BY <1>2 DEF FwUpgdError
  <2>2. Keeps(s, w) BY KeepsReply, ResponseTypes
  <2>. HIDE DEF w
  <2>3. w \in Objects BY <2>2 DEF Keeps
  <2>4. SameReboot(w, t) BY <2>3, UpgradeEndWork
  <2>5. t \in Objects BY <2>3, UpgradeEndFacts DEF CarriesOn
  <2>. HIDE DEF t
  <2>6. Keeps(w, t) BY <2>4, <2>5, KeepsSame
  <2>. QED BY <2>1, <2>2, <2>6, KeepsAdds
<1>. QED BY <1>1, <1>2

LEMMA AddsInit ==
  ASSUME NEW s \in Objects
  PROVE  Adds(s, FwUpgdInit(s))
<1>. DEFINE t == [s EXCEPT !.inBootloader = TRUE, !.toWrite = s.data]
            c == Cmd("FwWriteFlashStatusRequest")
            d == Cmd("FwUpgradeReq")
<1>1. t \in Objects BY InBootloaderFacts DEF CarriesOn
<1>2. SameReboot(s, t) BY DEF SameReboot, Objects
<1>3. c \in BusCommands /\ d \in BusCommands BY PlainCommands
<1>4. FwUpgdInit(s) = IF s.inBootloader THEN Send(t, c) ELSE Send(s, d)
  BY DEF FwUpgdInit, FwUpgdGotInfo, FwUpgdGetStatus
<1>. HIDE DEF t, c, d
<1>5. Keeps(s, t) BY <1>1, <1>2, KeepsSame
<1>6. Adds(t, Send(t, c)) /\ Adds(s, Send(s, d)) BY <1>1, <1>3, AddsSend
<1>7. Adds(s, Send(t, c)) BY <1>5, <1>6, KeepsAdds
<1>. QED BY <1>4, <1>6, <1>7

LEMMA AddsSetOutputs ==
  ASSUME NEW s \in Objects
  PROVE  Adds(s, SetOutputs(s))
<1>. DEFINE t == [s EXCEPT !.setOutputsSent = s.setOutputsWaiting,
                           !.setOutputsWaiting = <<>>]
            c == [kind |-> "SetOutput", outputs |-> s.outputsWant]
<1>1. t \in Objects BY NothingSentFacts DEF CarriesOn
<1>2. c \in BusCommands BY DEF Objects, BusCommands
<1>3. SetOutputs(s) = Send(t, c) BY DEF SetOutputs
<1>4. SameButWaiting(s, t) BY DEF Objects, SameButWaiting, SameReboot
<1>. HIDE DEF t, c
<1>5. Keeps(s, t) BY <1>1, <1>4, KeepsSame
<1>6. Adds(t, Send(t, c)) BY <1>1, <1>2, AddsSend
<1>. QED BY <1>3, <1>5, <1>6, KeepsAdds

LEMMA AddsNextOutputs ==
  ASSUME NEW s \in Objects
  PROVE  Adds(s, NextOutputs(s))
<1>1. NextOutputs(s) \in {SetOutputs(s), FwUpgdInit(s), s} BY DEF NextOutputs
<1>2. Adds(s, s) BY KeepsSelf, KeepsAdds
<1>. QED BY <1>1, <1>2, AddsSetOutputs, AddsInit

LEMMA AddsOutputsNotSet ==
  ASSUME NEW s \in Objects
  PROVE  Adds(s, MtbBusOutputsNotSet(s))
<1>. DEFINE t == ReplySent(s, Error)
            u == [t EXCEPT !.outputsConfirmed = s.outputsWant]
<1>1. Error \in Responses /\ Error # Ok BY ResponseTypes, ResponseNames
<1>2. t \in Objects BY <1>1, ReplySentFacts DEF CarriesOn
<1>3. SameButWaiting(s, t) BY <1>1, ReplySentWork
<1>4. MtbBusOutputsNotSet(s) = NextOutputs(u) BY DEF MtbBusOutputsNotSet
<1>5. s.outputsWant \in [Ports -> Values] BY DEF Objects
<1>. HIDE DEF t
<1>6. u \in Objects BY <1>2, <1>5, ConfirmedFacts DEF CarriesOn
<1>7. SameWork(t, u) BY <1>2, ConfirmedWork
<1>. HIDE DEF u
<1>8. Keeps(s, t) /\ Keeps(t, u) BY <1>2, <1>3, <1>6, <1>7, KeepsSame
<1>9. Keeps(s, u) BY <1>8, KeepsAdds
<1>. QED BY <1>4, <1>6, <1>9, KeepsAdds, AddsNextOutputs

LEMMA AddsConfigDone ==
  ASSUME NEW s \in Objects, NEW response \in Responses
  PROVE  Adds(s, ConfigDone(s, response))
<1>. DEFINE r == s.configWriting
            w == Reply(s, r, response)
            x == [w EXCEPT !.configWriting = None]
<1>1. ConfigDone(s, response) = IF x.fwUpgrading = None THEN x ELSE FwUpgdInit(x)
  BY DEF ConfigDone
<1>2. Keeps(s, w) BY KeepsReply
<1>. HIDE DEF r, w
<1>3. w \in Objects BY <1>2 DEF Keeps
<1>4. x \in Objects BY <1>3, NotWritingFacts DEF CarriesOn
<1>5. SameButWaiting(w, x) BY <1>3, NotWritingWork
<1>. HIDE DEF x
<1>6. Keeps(w, x) BY <1>4, <1>5, KeepsSame
<1>7. Keeps(s, x) BY <1>2, <1>6, KeepsAdds
<1>8. Adds(s, x) /\ Adds(s, FwUpgdInit(x)) BY <1>4, <1>7, KeepsAdds, AddsInit
<1>. QED BY <1>1, <1>8

LEMMA AddsConfigWritten ==
  ASSUME NEW s \in Objects
  PROVE  Adds(s, MtbBusConfigWritten(s))
<1>. DEFINE u == [s EXCEPT !.config = s.configToWrite]
<1>1. u \in Objects /\ SameWork(s, u) BY ConfigKeptWork
<1>2. MtbBusConfigWritten(s) = ConfigDone(u, Ok) BY DEF MtbBusConfigWritten
<1>. HIDE DEF u
<1>3. Keeps(s, u) BY <1>1, KeepsSame
<1>. QED BY <1>1, <1>2, <1>3, KeepsAdds, AddsConfigDone, ResponseTypes

LEMMA KeepsAccepted ==
  ASSUME NEW s \in Objects, NEW r \in Requests
  PROVE  Keeps(s, FwUpgradeAccepted(s, r))
<1>. DEFINE t == [s EXCEPT !.fwUpgrading = r]
            u == [s EXCEPT !.fwUpgrading = r, !.data = Blocks, !.flash = {}]
<1>1. t \in Objects BY UpgradeOfFacts DEF CarriesOn
<1>2. u \in Objects BY AcceptedFacts DEF CarriesOn
<1>3. SameReboot(s, t) /\ SameReboot(s, u) BY UpgradeOfFields, AcceptedFields
<1>4. FwUpgradeAccepted(s, r) = IF r \in Malformed THEN SendError(t, r) ELSE u
  BY DEF FwUpgradeAccepted
<1>. HIDE DEF t, u
<1>5. Keeps(s, t) /\ Keeps(s, u) BY <1>1, <1>2, <1>3, KeepsSame
<1>6. Keeps(s, SendError(t, r)) BY <1>1, <1>5, KeepsSendError, KeepsAdds
<1>. QED BY <1>4, <1>5, <1>6

LEMMA AddsReboot ==
  ASSUME NEW s \in Objects, NEW who \in Requests \cup {"upgrade"}
  PROVE  Adds(s, Reboot(s, who))
<1>1. CASE s.rebooting
  BY <1>1, KeepsSelf, KeepsAdds DEF Reboot
<1>2. CASE ~s.rebooting
  <2>. DEFINE v == MtbBusLost(s)
              u == [v EXCEPT !.rebooting = TRUE, !.onReboot = who,
                             !.activatedByMtbUsb = FALSE]
              c == Cmd("Reboot")
              t == Send(u, c)
  <2>1. Reboot(s, who) = t BY <1>2 DEF Reboot
  <2>2. v \in Objects BY MtbBusLostFacts DEF CarriesOn
  <2>3. SameOther(s, v) BY MtbBusLostFields
  <2>4. c \in BusCommands /\ c.kind = "Reboot" BY PlainCommands DEF Cmd
  <2>. HIDE DEF v, c
  <2>5. u \in Objects BY <2>2, RebootBeginsFacts DEF CarriesOn
  <2>6. u.bus = v.bus /\ u.timers = v.timers BY <2>2 DEF Objects
  <2>. HIDE DEF u
  <2>7. Adds(u, t) BY <2>4, <2>5, AddsSend
  <2>8. Has(t.bus, {"Reboot"})
    BY <2>4, <2>5, SendWork
  <2>9. Adds(s, t) BY <2>3, <2>6, <2>7, <2>8 DEF Adds, SameOther
  <2>. QED BY <2>1, <2>9
<1>. QED BY <1>1, <1>2

\* A reboot that failed is over.
LEMMA KeepsRebootFailed ==
  ASSUME NEW s \in Objects
  PROVE  LET t == RebootFailed(s)
         IN Keeps(s, t) /\ ~t.rebooting
<1>. DEFINE t == [s EXCEPT !.rebooting = FALSE]
            u == SendError(t, s.onReboot)
            v == MtbBusLost(u)
<1>1. SameOther(s, t) /\ ~t.rebooting BY NotRebootingFields
<1>2. t \in Objects BY NotRebootingFacts DEF CarriesOn
<1>3. RebootFailed(s) = IF s.onReboot = "upgrade" THEN FwUpgdError(t) ELSE v
  BY DEF RebootFailed
<1>. HIDE DEF t
<1>4. Keeps(s, t) BY <1>1, <1>2, KeepsSame
<1>5. Keeps(t, FwUpgdError(t)) BY <1>2, KeepsFwUpgdError
<1>6. Keeps(t, u) BY <1>2, KeepsSendError
<1>. HIDE DEF u
<1>7. u \in Objects BY <1>6 DEF Keeps
<1>8. SameOther(u, v) /\ v.rebooting = u.rebooting BY <1>7, MtbBusLostFields
<1>9. v \in Objects BY <1>7, MtbBusLostFacts DEF CarriesOn
<1>. HIDE DEF v
<1>10. Keeps(u, v) BY <1>8, <1>9, KeepsSame
<1>11. Keeps(t, v) BY <1>2, <1>6, <1>10, KeepsAdds
<1>12. RebootFailed(s) \in {FwUpgdError(t), v} BY <1>3
<1>13. Keeps(t, RebootFailed(s)) BY <1>5, <1>11, <1>12
<1>. HIDE DEF RebootFailed
<1>14. ~RebootFailed(s).rebooting BY <1>1, <1>13 DEF Keeps
<1>15. Keeps(s, RebootFailed(s)) BY <1>4, <1>13, KeepsAdds
<1>. QED BY <1>14, <1>15

LEMMA KeepsActivationError ==
  ASSUME NEW s \in Objects
  PROVE  Keeps(s, ActivationError(s))
<1>. DEFINE t == ActivationError(s)
<1>1. SameOther(s, t) /\ t.rebooting = s.rebooting BY ActivationErrorFields
<1>2. t \in Objects BY ActivationErrorFacts DEF CarriesOn
<1>. HIDE DEF t
<1>3. Keeps(s, t) BY <1>1, <1>2, KeepsSame
<1>. QED BY <1>3 DEF t

\* A set of outputs waits, or is sent when none is under way.
LEMMA UpgradesJsonSetOutput ==
  ASSUME UniIInv, AllThere, Upgrades(m, "nothing"), NEW r \in Requests, JsonSetOutput(r)
  PROVE  Upgrades(m', "nothing") /\ Silent(m, m') /\ Adds(m, m')
<1>. DEFINE new == [p \in Ports |-> IF p \in DOMAIN Outputs[r] THEN Outputs[r][p]
                                    ELSE m.outputsWant[p]]
            who == [p \in Ports |-> IF new[p] = m.outputsWant[p]
                                    THEN m.whoSetOutput[p] ELSE Socket[r]]
            wait == Append(m.setOutputsWaiting, r)
            t == [m EXCEPT !.outputsWant = new, !.whoSetOutput = who,
                           !.setOutputsWaiting = wait]
<1>0. /\ m \in Objects
      /\ m.outputsWant \in [Ports -> Values]
      /\ m.outputsConfirmed \in [Ports -> Values]
      /\ m.whoSetOutput \in [Ports -> {Socket[q] : q \in Requests} \cup {Nobody}]
      /\ m.setOutputsWaiting \in Seq(Requests \cup {Nobody})
  BY DEF UniIInv, Sound, Kept, Objects
<1>1. \/ m' = SendError(m, r)
      \/ m' = Reply(m, r, OutputsOk(m.outputsConfirmed))
      \/ m' \in {SetOutputs(t), t} /\ m.fwUpgrading = None
  BY DEF JsonSetOutput, Upgrading
<1>2. CASE m' = SendError(m, r)
  BY <1>0, <1>2, UpgradesSendError, KeepsSendError, KeepsAdds
<1>3. CASE m' = Reply(m, r, OutputsOk(m.outputsConfirmed))
  <2>1. OutputsOk(m.outputsConfirmed) \in Responses BY <1>0, ResponseTypes
  <2>2. OutputsOk(m.outputsConfirmed) # Ok BY ResponseNames
  <2>. HIDE DEF new, who, wait, t
  <2>3. Adds(m, m') BY <1>0, <1>3, <2>1, KeepsReply, KeepsAdds
  <2>. QED BY <1>0, <1>3, <2>1, <2>2, <2>3, UpgradesReply
<1>4. CASE m' \in {SetOutputs(t), t} /\ m.fwUpgrading = None
  <2>1. t \in Objects
    <3>1. new \in [Ports -> Values] BY <1>0, MtbUniAssumption
    <3>2. who \in [Ports -> {Socket[q] : q \in Requests} \cup {Nobody}] BY <1>0
    <3>3. wait \in Seq(Requests \cup {Nobody}) BY <1>0
    <3>. HIDE DEF new, who, wait
    <3>4. Shaped(t) BY <1>0, ObjectShape, Zenon DEF Shaped
    <3>5. Typed(t) BY <1>0, <3>1, <3>2, <3>3 DEF Typed, Objects
    <3>. HIDE DEF t
    <3>. QED BY <3>4, <3>5, ObjectType
  <2>2. wait # <<>> BY <1>0, AppendFacts
  <2>. HIDE DEF new, who, wait
  <2>3. SameWork(m, t) /\ t.replies = m.replies /\ t.setOutputsWaiting = wait
    BY <1>0 DEF SameWork, Objects
  <2>. HIDE DEF t
  <2>4. Upgrades(t, "nothing") /\ Silent(m, t)
    BY <2>3, SilentSame, SameUpgrades
  <2>5. Upgrades(t, "write")
    BY <1>4, <2>3, <2>4, NoUpgradeIsWrite DEF SameWork
  <2>6. Upgrades(SetOutputs(t), "nothing") /\ Silent(t, SetOutputs(t))
    BY <2>1, <2>2, <2>3, <2>5, UpgradesSetOutputs
  <2>7. Silent(m, SetOutputs(t)) BY <2>3, <2>6, SilentLater
  <2>8. Keeps(m, t) BY <2>1, <2>3, KeepsSame
  <2>9. Adds(m, t) /\ Adds(m, SetOutputs(t))
    BY <1>0, <2>1, <2>8, KeepsAdds, AddsSetOutputs
  <2>. QED BY <1>4, <2>4, <2>6, <2>7, <2>9
<1>. QED BY <1>1, <1>2, <1>3, <1>4

\* The configuration of a module that is not there is kept in the file alone.
LEMMA UpgradesConfigFiled ==
  ASSUME NEW s \in Objects, Upgrades(s, "nothing"), s.fwUpgrading = None,
         Has(s.bus, Writes) => s.setOutputsSent # <<>>
  PROVE  LET t == MtbBusConfigWritten(s)
         IN Upgrades(t, "nothing") /\ Silent(s, t)
<1>. DEFINE u == [s EXCEPT !.config = s.configToWrite]
            r == u.configWriting
            w == Reply(u, r, Ok)
            x == [w EXCEPT !.configWriting = None]
<1>1. MtbBusConfigWritten(s) = IF x.fwUpgrading = None THEN x ELSE FwUpgdInit(x)
  BY DEF MtbBusConfigWritten, ConfigDone
<1>2. u \in Objects /\ SameWork(s, u) /\ u.replies = s.replies BY ConfigKeptWork
<1>. HIDE DEF u
<1>3. Upgrades(u, "nothing") BY <1>2, SilentSame, SameUpgrades
<1>4. r \in Requests => Kind[r] # "module_upgrade_fw"
  BY <1>3 DEF Upgrades, Placed
<1>. HIDE DEF r
<1>5. w \in Objects /\ Upgrades(w, "nothing") /\ Silent(u, w)
  BY <1>2, <1>3, <1>4, UpgradesReply, ResponseTypes
<1>6. SameWork(u, w) BY <1>2, ReplyWork, ResponseTypes
<1>. HIDE DEF w
<1>7. /\ SameButWaiting(w, x)
      /\ x.setOutputsSent = w.setOutputsSent
      /\ x.configWriting = None
      /\ x.replies = w.replies
  BY <1>5, NotWritingWork
<1>. HIDE DEF x
<1>8. Pending(x)
  BY <1>2, <1>6, <1>7 DEF Pending, SameWork, SameButWaiting, SameReboot
<1>9. x.configWriting \notin Requests BY <1>7, RequestNames
<1>10. Silent(w, x) /\ Answers(w, x) BY <1>7, SilentSame
<1>11. Upgrades(x, "nothing") BY <1>5, <1>7, <1>8, <1>9, <1>10, UpgradesWaiting
<1>12. x.fwUpgrading = None BY <1>2, <1>6, <1>7 DEF SameWork, SameButWaiting
<1>13. Silent(u, x) BY <1>5, <1>10, SilentTrans
<1>14. Silent(s, x) BY <1>2, <1>13, SilentLater
<1>. QED BY <1>1, <1>11, <1>12, <1>14

LEMMA UpgradesJsonSetConfig ==
  ASSUME UniIInv, AllThere, Upgrades(m, "nothing"), NEW r \in Requests, JsonSetConfig(r)
  PROVE  Upgrades(m', "nothing") /\ Silent(m, m') /\ Adds(m, m')
<1>. DEFINE t == [m EXCEPT !.configToWrite = NewConfig[r], !.configWriting = r]
            c == [kind |-> "SetConfig", config |-> NewConfig[r]]
<1>0. m \in Objects BY DEF UniIInv, Sound, Kept
<1>1. Kind[r] = "module_set_config" BY DEF JsonSetConfig, Receive
<1>2. \/ m' = SendError(m, r)
      \/ /\ m' \in {Send(t, c), MtbBusConfigWritten(t)}
         /\ m.fwUpgrading = None
         /\ m.configWriting = None
  BY DEF JsonSetConfig, Upgrading
<1>3. CASE m' = SendError(m, r)
  BY <1>0, <1>3, UpgradesSendError, KeepsSendError, KeepsAdds
<1>4. CASE /\ m' \in {Send(t, c), MtbBusConfigWritten(t)}
           /\ m.fwUpgrading = None
           /\ m.configWriting = None
  <2>1. NewConfig[r] \in Configs BY MtbUniAssumption
  <2>2. t \in Objects
    <3>1. Shaped(t) BY <1>0, ObjectShape, Zenon DEF Shaped
    <3>2. Typed(t) BY <1>0, <2>1 DEF Typed, Objects
    <3>. HIDE DEF t
    <3>. QED BY <3>1, <3>2, ObjectType
  <2>3. c \in BusCommands /\ c.kind = "SetConfig" BY <2>1 DEF BusCommands
  <2>4. /\ SameButWaiting(m, t)
        /\ t.setOutputsSent = m.setOutputsSent
        /\ t.configWriting = r
        /\ t.replies = m.replies
    BY <1>0 DEF SameButWaiting, SameReboot, Objects
  <2>5. r # None BY RequestNames
  <2>. HIDE DEF t, c
  <2>6. Pending(t) BY <2>4, <2>5 DEF Pending
  <2>7. Silent(m, t) /\ Answers(m, t) BY <2>4, SilentSame
  <2>8. Upgrades(t, "nothing") BY <1>1, <2>4, <2>6, <2>7, UpgradesWaiting
  <2>9. t.fwUpgrading = None BY <1>4, <2>4 DEF SameButWaiting
  <2>12. Keeps(m, t) BY <2>2, <2>4, KeepsSame
  <2>13. Adds(m, Send(t, c)) /\ Adds(m, MtbBusConfigWritten(t))
    BY <1>0, <2>2, <2>3, <2>12, KeepsAdds, AddsSend, AddsConfigWritten
  <2>10. CASE m' = Send(t, c)
    <3>1. Upgrades(t, "write") BY <2>8, <2>9, NoUpgradeIsWrite
    <3>2. c.kind \in Writes BY <2>3 DEF Writes
    <3>3. Upgrades(m', "nothing")
      BY <2>2, <2>3, <2>4, <2>5, <2>10, <3>1, <3>2, UpgradesSendWrite
    <3>4. Silent(t, m') BY <2>2, <2>3, <2>10, SendWork
    <3>. QED BY <2>4, <2>10, <2>13, <3>3, <3>4, SilentLater
  <2>11. CASE m' = MtbBusConfigWritten(t)
    <3>1. Has(t.bus, Writes) => t.setOutputsSent # <<>>
      BY <1>4, <2>4 DEF Upgrades, Pending, SameButWaiting, SameReboot
    <3>2. Upgrades(m', "nothing") /\ Silent(t, m')
      BY <2>2, <2>8, <2>9, <2>11, <3>1, UpgradesConfigFiled
    <3>. QED BY <2>4, <2>11, <2>13, <3>2, SilentLater
  <2>. QED BY <1>4, <2>10, <2>11, <2>13
<1>. QED BY <1>2, <1>3, <1>4

\* Nobody asks for an upgrade or a reboot of a module that is being activated.
LEMMA CalmRequest ==
  ASSUME m \in Objects, NoOverlap, "overlap" \notin Events
  PROVE  Calm(m)
<1>1. ~ActivationUnderWay BY DEF NoOverlap
<1>2. /\ m.activationsRemaining \in Nat
      /\ m.attempts \in [1 .. ATTEMPTS -> Nat]
  <2>1. MTB_MODULE_ACTIVATIONS \in Nat BY MtbUniAssumption
  <2>2. m.activationsRemaining \in 0 .. MTB_MODULE_ACTIVATIONS BY DEF Objects
  <2>3. m.attempts \in [1 .. ATTEMPTS -> Nat] BY DEF Objects
  <2>. QED BY <2>1, <2>2, <2>3
<1>3. ~m.activating /\ ~(m.activationsRemaining > 0) BY <1>1 DEF ActivationUnderWay
<1>4. m.activationsRemaining = 0 BY <1>2, <1>3
<1>5. NoAttempts(m)
  <2> SUFFICES ASSUME NEW n \in 1 .. ATTEMPTS PROVE m.attempts[n] = 0
    BY DEF NoAttempts
  <2>1. ~(m.attempts[n] > 0) /\ m.attempts[n] \in Nat
    BY <1>1, <1>2 DEF ActivationUnderWay
  <2>. QED BY <2>1
<1>6. ~Has(m.bus, {"ModuleInfo"}) /\ ~Has(m.bus, ActivationCommands)
  BY <1>1 DEF ActivationUnderWay, Has
<1>. QED BY <1>3, <1>4, <1>5, <1>6 DEF Calm

LEMMA UpgradesJsonUpgradeFw ==
  ASSUME UniIInv, AllThere, Upgrades(m, "nothing"), "overlap" \notin Events,
         NEW r \in Requests, JsonUpgradeFw(r)
  PROVE  Upgrades(m', "nothing") /\ Silent(m, m') /\ Adds(m, m')
<1>. DEFINE t == FwUpgradeAccepted(m, r)
<1>0. m \in Objects BY DEF UniIInv, Sound, Kept
<1>1. Kind[r] = "module_upgrade_fw" /\ Socket[r] \in clients
  BY DEF JsonUpgradeFw, Receive
<1>2. NoOverlap BY DEF JsonUpgradeFw
<1>3. Calm(m) BY <1>0, <1>2, CalmRequest
<1>4. \/ m' = SendError(m, r)
      \/ /\ m' = FwUpgdInit(t)
         /\ m.fwUpgrading = None
         /\ m.configWriting = None /\ m.setOutputsSent = <<>>
      \/ m' = t /\ m.fwUpgrading = None
  BY DEF JsonUpgradeFw, Upgrading
<1>. HIDE DEF t
<1>8. Keeps(m, t) BY <1>0, KeepsAccepted DEF t
<1>5. CASE m' = SendError(m, r)
  BY <1>0, <1>5, UpgradesSendError, KeepsSendError, KeepsAdds
<1>6. CASE /\ m' = FwUpgdInit(t)
           /\ m.fwUpgrading = None
           /\ m.configWriting = None /\ m.setOutputsSent = <<>>
  <2>1. ~Has(m.bus, Writes) BY <1>6 DEF Upgrades, Pending
  <2>2. t \in Objects /\ Upgrades(t, "chain") /\ Silent(m, t)
    BY <1>0, <1>1, <1>3, <1>6, <2>1, UpgradesAccepted DEF t
  <2>3. Upgrades(m', "nothing") /\ Silent(t, m') BY <1>6, <2>2, UpgradesInit
  <2>4. Adds(m, m') BY <1>0, <1>6, <1>8, <2>2, KeepsAdds, AddsInit
  <2>. QED BY <2>2, <2>3, <2>4, SilentTrans
<1>7. CASE m' = t /\ m.fwUpgrading = None
  <2>1. Upgrades(t, "nothing") /\ Silent(m, t)
    BY <1>0, <1>1, <1>3, <1>7, UpgradesAccepted DEF t
  <2>2. Adds(m, t) BY <1>0, <1>8, KeepsAdds
  <2>. QED BY <1>7, <2>1, <2>2
<1>. QED BY <1>4, <1>5, <1>6, <1>7

LEMMA UpgradesOtherRequest ==
  ASSUME UniIInv, AllThere, Upgrades(m, "nothing"), "overlap" \notin Events,
         NEW r \in Requests,
         JsonReboot(r) \/ JsonSetAddress(r) \/ JsonBeacon(r)
  PROVE  Upgrades(m', "nothing") /\ Silent(m, m') /\ Adds(m, m')
<1>0. m \in Objects BY DEF UniIInv, Sound, Kept
<1>1. /\ Upgrades(SendError(m, r), "nothing")
      /\ Silent(m, SendError(m, r))
      /\ Adds(m, SendError(m, r))
  BY <1>0, UpgradesSendError, KeepsSendError, KeepsAdds
<1>2. CASE JsonReboot(r)
  <2>1. Kind[r] = "module_reboot" BY <1>2 DEF JsonReboot, Receive
  <2>2. NoOverlap BY <1>2 DEF JsonReboot
  <2>3. Calm(m) BY <1>0, <2>2, CalmRequest
  <2>4. r # "upgrade" BY RequestNames
  <2>5. Upgrades(Reboot(m, r), "nothing") /\ Silent(m, Reboot(m, r))
    BY <1>0, <2>1, <2>3, <2>4, UpgradesReboot
  <2>6. Adds(m, Reboot(m, r)) BY <1>0, AddsReboot
  <2>. QED BY <1>1, <1>2, <2>5, <2>6 DEF JsonReboot
<1>3. CASE JsonSetAddress(r) \/ JsonBeacon(r)
  <2>. DEFINE c == [kind |-> "Forward", request |-> r]
  <2>1. m' = SendError(m, r) \/ m' = Send(m, c)
    BY <1>3 DEF JsonSetAddress, JsonBeacon
  <2>2. c \in BusCommands /\ c.kind \in {"Forward", "ResetOutputs"}
    BY DEF BusCommands
  <2>3. Kind[r] \in ForwardKinds
    BY <1>3 DEF JsonSetAddress, JsonBeacon, Receive, ForwardKinds
  <2>4. \A q \in Requests : Carries(c, q) => q = r BY DEF Carries
  <2>. HIDE DEF c
  <2>5. Upgrades(Send(m, c), "nothing")
    BY <1>0, <2>2, <2>3, <2>4, UpgradesSendOther
  <2>6. Silent(m, Send(m, c)) /\ Adds(m, Send(m, c))
    BY <1>0, <2>2, SendWork, AddsSend
  <2>. QED BY <1>1, <2>1, <2>5, <2>6
<1>. QED BY <1>2, <1>3

\* The clients' requests leave the upgrades right, but for that for its outputs
\* to be reset.
LEMMA UpgradesRequest ==
  ASSUME UniIInv, AllThere, Upgrades(m, "nothing"), "overlap" \notin Events,
         NEW r \in Requests, Request(r), ~ResetMyOutputs(r)
  PROVE  Upgrades(m', "nothing") /\ Silent(m, m') /\ Adds(m, m')
BY UpgradesJsonSetOutput, UpgradesJsonSetConfig, UpgradesJsonUpgradeFw,
   UpgradesOtherRequest DEF Request

-----------------------------------------------------------------------------
(* Upgrades: the timers, the daemon and the port *)

\* Before the daemon got the list of modules, nothing but a command that the
\* closed port ends is under way.
NotListed ==
    ~listed =>
        /\ port # "closing"
        /\ port = "open" => m.bus = <<>>
        /\ m.timers["fwUpgdReqAck"] = 0
        /\ Len(m.bus) <= 1
        /\ m.rebooting => Has(m.bus, {"Reboot"})

\* The step leaves the upgrades right.
Right == Upgrades(m', "nothing") /\ Silent(m, m')

LEMMA UpgradesFwTimer ==
  ASSUME UniIInv, Upgrades(m, "nothing"), FwUpgdReqTimer
  PROVE  Right
<1>. DEFINE t == [m EXCEPT !.timers["fwUpgdReqAck"] = 0]
            c == Cmd("fw: ModuleInfo")
<1>0. m \in Objects BY DEF UniIInv, Sound, Kept
<1>1. m.timers["fwUpgdReqAck"] > 0 BY DEF FwUpgdReqTimer, Expires
<1>2. m.timers["fwUpgdReqAck"] \in {0, 1} BY DEF Upgrades, OneChain
<1>3. m.timers["fwUpgdReqAck"] = 1 BY <1>1, <1>2
<1>4. m.timers["fwUpgdReqAck"] - 1 = 0 BY <1>3
<1>5. m' = Send(t, c) BY <1>4 DEF FwUpgdReqTimer, Expired
<1>6. CarriesOn(m, [m EXCEPT !.timers["fwUpgdReqAck"] = @ - 1])
  BY <1>0, <1>1, TimerFacts
<1>7. t \in Objects BY <1>4, <1>6 DEF CarriesOn
<1>8. /\ SameButTimers(m, t)
      /\ t.timers["fwUpgdReqAck"] = 0
      /\ t.timers["reboot"] = m.timers["reboot"]
  BY <1>0, TimerWork
<1>9. /\ c \in BusCommands
      /\ c.kind \in UpgradeCommands
      /\ c.kind # "FwWriteFlash" /\ c.kind # "FwWriteFlashStatusRequest"
  BY PlainCommands DEF Cmd, UpgradeCommands
<1>. HIDE DEF t, c
<1>10. ~Has(m.bus, UpgradeCommands) BY <1>3 DEF Upgrades, OneChain
<1>11. Upgrades(t, "chain") BY <1>3, <1>8, <1>10, UpgradesChainTimer
<1>12. Upgrades(Send(t, c), "nothing") BY <1>7, <1>9, <1>11, UpgradesSendChain
<1>13. Silent(t, Send(t, c)) BY <1>7, <1>9, SendWork
<1>14. Silent(m, Send(t, c)) BY <1>8, <1>13, SilentLater DEF SameButTimers
<1>. QED BY <1>5, <1>12, <1>14 DEF Right

LEMMA UpgradesBootTimer ==
  ASSUME UniIInv, Upgrades(m, "nothing"), RebootTimer
  PROVE  Right
<1>. DEFINE t == [m EXCEPT !.timers["reboot"] = 0]
            c == Cmd("reboot: ModuleInfo")
<1>0. m \in Objects BY DEF UniIInv, Sound, Kept
<1>1. m.timers["reboot"] > 0 BY DEF RebootTimer, Expires
<1>2. m.timers["reboot"] \in {0, 1} BY DEF Upgrades, RebootAlone
<1>3. m.timers["reboot"] = 1 BY <1>1, <1>2
<1>4. m.timers["reboot"] - 1 = 0 BY <1>3
<1>5. m' = t \/ m' = Send(t, c) BY <1>4 DEF RebootTimer, Expired
<1>6. CarriesOn(m, [m EXCEPT !.timers["reboot"] = @ - 1])
  BY <1>0, <1>1, TimerFacts
<1>7. t \in Objects BY <1>4, <1>6 DEF CarriesOn
<1>8. /\ SameButTimers(m, t)
      /\ t.timers["reboot"] = 0
      /\ t.timers["fwUpgdReqAck"] = m.timers["fwUpgdReqAck"]
  BY <1>0, TimerWork
<1>9. c \in BusCommands /\ c.kind = "reboot: ModuleInfo" BY PlainCommands DEF Cmd
<1>. HIDE DEF t, c
<1>10. m.rebooting BY <1>3 DEF Upgrades, RebootAlone
<1>11. ~Has(m.bus, Steps) /\ m.activationsRemaining = 0
  BY <1>3, <1>10 DEF Upgrades, RebootAlone
<1>12. Upgrades(t, "activation")
  BY <1>8, <1>10, <1>11, UpgradesRebootTimer
<1>13. t.rebooting /\ t.activationsRemaining = 0
  BY <1>8, <1>10, <1>11 DEF SameButTimers
<1>14. Upgrades(Send(t, c), "nothing")
  BY <1>7, <1>9, <1>12, <1>13, UpgradesSendStep
<1>15. Upgrades(t, "nothing") BY <1>12, UpgradesDone
<1>16. Silent(t, Send(t, c)) BY <1>7, <1>9, SendWork
<1>17. t.replies = m.replies BY <1>8 DEF SameButTimers
<1>18. Silent(m, t) /\ Silent(m, Send(t, c)) BY <1>16, <1>17, SilentSame, SilentLater
<1>. QED BY <1>5, <1>14, <1>15, <1>18 DEF Right

LEMMA UpgradesReactivate ==
  ASSUME UniIInv, Upgrades(m, "nothing"), ReactivateTick
  PROVE  Right
<1>0. m \in Objects BY DEF UniIInv, Sound, Kept
<1>1. ~m.activating /\ m.activationsRemaining > 0 /\ m' = Activate(m)
  BY DEF ReactivateTick
<1>2. m.activationsRemaining # 0 BY <1>1
<1>3. Has(m.bus, Steps) <=> Has(m.bus, ActivationCommands) \/ Has(m.bus, RebootCommands)
  BY Kinships
<1>4. OneChain(m, "activation") BY DEF Upgrades, OneChain, Chained
<1>5. RebootAlone(m, "activation")
  BY <1>1, <1>2, <1>3 DEF Upgrades, RebootAlone
<1>6. NotActivated(m, "activation")
  BY <1>2 DEF Upgrades, NotActivated, Busied, Chained
<1>7. Flashed(m, "activation") BY DEF Upgrades, Flashed
<1>8. Upgrades(m, "activation") BY <1>4, <1>5, <1>6, <1>7 DEF Upgrades
<1>. QED BY <1>0, <1>1, <1>8, UpgradesActivate DEF Right

\* A command to ask the module, once nothing reboots and no upgrade is busy.
LEMMA UpgradesActivateModule ==
  ASSUME NEW s \in Objects, NEW n \in 0 .. ATTEMPTS, Upgrades(s, "nothing"),
         ~s.rebooting, ~Busied(s, "nothing")
  PROVE  LET t == ActivateModule(s, n)
         IN Upgrades(t, "nothing") /\ Silent(s, t)
<1>. DEFINE c == [kind |-> "ModuleInfo", attempts |-> n]
<1>1. c \in BusCommands /\ c.kind = "ModuleInfo" BY DEF BusCommands
<1>2. ActivateModule(s, n) = Send(s, c) BY DEF ActivateModule
<1>. HIDE DEF c
<1>3. Upgrades(Send(s, c), "nothing") BY <1>1, UpgradesSendInfo
<1>4. Silent(s, Send(s, c)) BY <1>1, SendWork
<1>. QED BY <1>2, <1>3, <1>4

LEMMA UpgradesAttemptTimer ==
  ASSUME UniIInv, Upgrades(m, "nothing"), NEW n \in 1 .. ATTEMPTS, AttemptTimer(n)
  PROVE  Right
<1>. DEFINE t == [m EXCEPT !.attempts[n] = m.attempts[n] - 1]
<1>0. m \in Objects BY DEF UniIInv, Sound, Kept
<1>1. m' \in {ActivateModule(t, n - 1), t} /\ m.attempts[n] > 0
  BY DEF AttemptTimer
<1>2. m.attempts[n] # 0 BY <1>1
<1>3. ~m.rebooting /\ ~Busied(m, "nothing")
  BY <1>2 DEF Upgrades, RebootAlone, NotActivated, NoAttempts
<1>4. t \in Objects
  <2>1. m.attempts \in [1 .. ATTEMPTS -> Nat] BY <1>0 DEF Objects
  <2>2. m.attempts[n] \in Nat BY <2>1
  <2>3. m.attempts[n] - 1 \in Nat BY <1>1, <2>2
  <2>4. CarriesOn(m, t) BY <1>0, <2>3, AttemptsFacts
  <2>. QED BY <2>4 DEF CarriesOn
<1>5. n - 1 \in 0 .. ATTEMPTS
  <2>1. ATTEMPTS \in Nat BY MtbUniAssumption
  <2>. QED BY <2>1
<1>6. SameButAttempts(m, t) BY <1>0 DEF SameButAttempts, Objects
<1>. HIDE DEF t
<1>7. Upgrades(t, "nothing") /\ ~Busied(t, "nothing")
  BY <1>3, <1>6, UpgradesAttempts
<1>8. ~t.rebooting /\ t.replies = m.replies BY <1>3, <1>6 DEF SameButAttempts
<1>9. /\ Upgrades(ActivateModule(t, n - 1), "nothing")
      /\ Silent(t, ActivateModule(t, n - 1))
  BY <1>4, <1>5, <1>7, <1>8, UpgradesActivateModule
<1>10. Silent(m, t) /\ Silent(m, ActivateModule(t, n - 1))
  BY <1>8, <1>9, SilentSame, SilentLater
<1>. QED BY <1>1, <1>7, <1>9, <1>10 DEF Right

LEMMA UpgradesNewModule ==
  ASSUME UniIInv, NotListed, Upgrades(m, "nothing"),
         MtbUsbGotModules \/ MtbUsbOnNewModule
  PROVE  Right
<1>0. m \in Objects BY DEF UniIInv, Sound, Kept
<1>1. m' = m \/ m' = ActivateModule(m, ATTEMPTS)
  BY DEF MtbUsbGotModules, MtbUsbOnNewModule
<1>2. ATTEMPTS \in 0 .. ATTEMPTS BY MtbUniAssumption
<1>3. ~m.rebooting /\ ~Busied(m, "nothing")
  <2>1. CASE MtbUsbGotModules
    <3>1. m.bus = <<>> /\ m.timers["fwUpgdReqAck"] = 0
          /\ (m.rebooting => Has(m.bus, {"Reboot"}))
      BY <2>1 DEF MtbUsbGotModules, NotListed
    <3>2. \A K : ~Has(m.bus, K) BY <3>1 DEF Has
    <3>. QED BY <3>1, <3>2 DEF Busied, Chained
  <2>2. CASE MtbUsbOnNewModule
    BY <2>2 DEF MtbUsbOnNewModule, Upgrading, Busied
  <2>. QED BY <2>1, <2>2
<1>4. /\ Upgrades(ActivateModule(m, ATTEMPTS), "nothing")
      /\ Silent(m, ActivateModule(m, ATTEMPTS))
  BY <1>0, <1>2, <1>3, UpgradesActivateModule
<1>5. Silent(m, m) BY SilentSame
<1>. QED BY <1>1, <1>4, <1>5 DEF Right

LEMMA UpgradesModuleFail ==
  ASSUME UniIInv, Upgrades(m, "nothing"), MtbUsbOnModuleFail
  PROVE  Right
<1>. DEFINE t == MtbBusLost(m)
<1>0. m \in Objects BY DEF UniIInv, Sound, Kept
<1>1. m.fwUpgrading = None /\ ~m.rebooting /\ m' = t
  BY DEF MtbUsbOnModuleFail, Upgrading
<1>2. /\ SameOther(m, t)
      /\ t.rebooting = m.rebooting
      /\ ~t.activating
      /\ t.activationsRemaining = 0
      /\ t.replies = m.replies
  BY <1>0, MtbBusLostFields
<1>. HIDE DEF t
<1>3. OneChain(m, "activation") BY DEF Upgrades, OneChain, Chained
<1>4. RebootAlone(m, "activation") BY <1>1 DEF Upgrades, RebootAlone
<1>5. NotActivated(m, "activation") BY <1>1 DEF NotActivated, Busied
<1>6. Flashed(m, "activation") BY DEF Upgrades, Flashed
<1>7. Upgrades(m, "activation") BY <1>3, <1>4, <1>5, <1>6 DEF Upgrades
<1>8. Silent(m, t) /\ Answers(m, t) BY <1>2, SilentSame
<1>9. Upgrades(t, "nothing") BY <1>1, <1>2, <1>7, <1>8, UpgradesBack
<1>. QED BY <1>1, <1>8, <1>9 DEF Right

LEMMA UpgradesDisconnected ==
  ASSUME UniIInv, Upgrades(m, "nothing"), MtbUsbDisconnected
  PROVE  Right
<1>. DEFINE t == [m EXCEPT !.active = FALSE]
            u == AllOutputsReset(t)
<1>0. m \in Objects BY DEF UniIInv, Sound, Kept
<1>1. m' = u BY DEF MtbUsbDisconnected
<1>2. t \in Objects BY <1>0, InactiveFacts DEF CarriesOn
<1>3. SameWork(m, t) /\ t.replies = m.replies BY <1>0 DEF SameWork, Objects
<1>. HIDE DEF t
<1>4. SameWork(t, u) /\ u.replies = t.replies BY <1>2, AllOutputsResetWork
<1>. HIDE DEF u
<1>5. Upgrades(t, "nothing") BY <1>3, SilentSame, SameUpgrades
<1>6. Upgrades(u, "nothing") BY <1>4, <1>5, SilentSame, SameUpgrades
<1>7. Silent(m, u) BY <1>3, <1>4, SilentSame
<1>. QED BY <1>1, <1>6, <1>7 DEF Right

\* The timers, the daemon and the port leave the upgrades right.
LEMMA UpgradesTimer ==
  ASSUME UniIInv, NotListed, Upgrades(m, "nothing"),
         FwUpgdReqTimer \/ RebootTimer \/ ReactivateTick \/ Daemon
  PROVE  Right
<1>1. CASE Connect \/ Disconnect
  <2>1. m' = m BY <1>1 DEF Connect, Disconnect
  <2>2. Silent(m, m) BY SilentSame
  <2>. QED BY <2>1, <2>2 DEF Right
<1>. QED BY <1>1, UpgradesFwTimer, UpgradesBootTimer, UpgradesReactivate,
            UpgradesAttemptTimer, UpgradesNewModule, UpgradesModuleFail,
            UpgradesDisconnected DEF Daemon

\* The error callbacks send a command at most; that of a reboot ends it.
LEMMA ErrorAdds ==
  ASSUME UniIInv, NEW i \in DOMAIN m.bus, port # "open",
         \/ Callback(i)
         \/ \E b \in BOOLEAN : ModuleGotInfo(i, b)
         \/ ModuleNoInfo(i)
  PROVE  /\ Adds(Rest(i), m')
         /\ m.bus[i].kind = "Reboot" => ~m'.rebooting
<1>. DEFINE s == Rest(i)
            held(c) == [s EXCEPT !.moduleConfig = c]
            kind == m.bus[i].kind
            n == m.bus[i].attempts
<1>1. s \in Objects BY RestIsObject
<1>2. m.bus[i] \in BusCommands BY RestFacts
<1>3. \A c : ~Succeeds(i, c) BY DEF Succeeds
<1>4. m.moduleConfig \in Configs BY DEF UniIInv, Sound, Kept, Objects
<1>5. ASSUME NEW c \in Configs PROVE held(c) \in Objects /\ Keeps(s, held(c))
  <2>. HIDE DEF s
  <2>1. held(c) \in Objects BY <1>1, HeldFacts DEF CarriesOn
  <2>2. SameReboot(s, held(c)) BY <1>1 DEF SameReboot, Objects
  <2>. HIDE DEF held
  <2>. QED BY <2>1, <2>2, KeepsSame
<1>6. \/ OutputsNotSet(i) \/ ConfigNotWritten(i)
      \/ ForwardFailed(i) \/ OutputsResetFailed(i)
      \/ ActivationFailed(i) \/ RebootError(i)
      \/ FwUpgdFailed(i) \/ ModuleNoInfo(i)
  BY <1>3, Zenon DEF Callback, OutputsSet, ConfigWritten, ForwardOk, OutputsResetOk,
     ActivationStep, RebootAck, FwUpgdReqAck, FwUpgdWritten, RebootGotInfo,
     FwUpgdInfo, FwUpgdStatus, ModuleGotInfo
<1>7. CASE OutputsNotSet(i)
  <2>1. m' = MtbBusOutputsNotSet(s) /\ kind = "SetOutput"
    BY <1>7 DEF OutputsNotSet, Ends
  <2>. HIDE DEF s
  <2>. QED BY <1>1, <2>1, AddsOutputsNotSet DEF s
<1>8. CASE ConfigNotWritten(i)
  <2>1. kind = "SetConfig" BY <1>8 DEF ConfigNotWritten, Ends
  <2>2. m.bus[i].config \in Configs BY <1>2, <2>1, CommandFacts
  <2>3. PICK c \in Configs : m' = ConfigDone(held(c), Error)
    BY <1>4, <1>8, <2>2 DEF ConfigNotWritten
  <2>4. held(c) \in Objects /\ Keeps(s, held(c)) BY <1>5
  <2>. HIDE DEF s, held
  <2>5. Adds(held(c), m') BY <2>3, <2>4, AddsConfigDone, ResponseTypes
  <2>6. Adds(s, m') BY <1>1, <2>4, <2>5, KeepsAdds
  <2>. QED BY <2>1, <2>6 DEF s
<1>9. CASE ForwardFailed(i) \/ OutputsResetFailed(i)
  <2>1. m' = SendError(s, m.bus[i].request) /\ kind \in {"Forward", "ResetOutputs"}
    BY <1>9 DEF ForwardFailed, OutputsResetFailed, Ends
  <2>. HIDE DEF s
  <2>2. Adds(s, m') BY <1>1, <2>1, KeepsSendError, KeepsAdds
  <2>. QED BY <2>1, <2>2 DEF s
<1>10. CASE ActivationFailed(i)
  <2>1. kind \in ActivationCommands BY <1>10 DEF ActivationFailed, Ends
  <2>2. kind = "activate: SetConfig" => m.bus[i].config \in Configs
    BY <1>2, CommandFacts
  <2>3. PICK c \in Configs : m' = ActivationError(held(c))
    BY <1>4, <1>10, <2>2 DEF ActivationFailed
  <2>4. held(c) \in Objects /\ Keeps(s, held(c)) BY <1>5
  <2>. HIDE DEF s, held
  <2>5. Keeps(held(c), m') BY <2>3, <2>4, KeepsActivationError
  <2>6. Adds(s, m') BY <1>1, <2>4, <2>5, KeepsAdds
  <2>. QED BY <2>1, <2>6 DEF s, ActivationCommands
<1>11. CASE RebootError(i)
  <2>1. m' = RebootFailed(s) BY <1>11 DEF RebootError
  <2>. HIDE DEF s
  <2>2. Keeps(s, m') /\ ~m'.rebooting BY <1>1, <2>1, KeepsRebootFailed
  <2>3. Adds(s, m') BY <1>1, <2>2, KeepsAdds
  <2>. QED BY <2>2, <2>3 DEF s
<1>12. CASE FwUpgdFailed(i)
  <2>1. m' = FwUpgdError(s) /\ kind # "Reboot"
    BY <1>12 DEF FwUpgdFailed, Ends
  <2>. HIDE DEF s
  <2>2. Adds(s, m') BY <1>1, <2>1, KeepsFwUpgdError, KeepsAdds
  <2>. QED BY <2>1, <2>2 DEF s
<1>13. CASE ModuleNoInfo(i)
  <2>1. kind = "ModuleInfo" BY <1>13 DEF ModuleNoInfo, Ends
  <2>2. m' = IF n > 0 THEN [s EXCEPT !.attempts[n] = @ + 1] ELSE s
    BY <1>13 DEF ModuleNoInfo
  <2>3. n \in 0 .. ATTEMPTS /\ ATTEMPTS \in Nat
    BY <1>2, <2>1, CommandFacts, MtbUniAssumption
  <2>4. s.attempts \in [1 .. ATTEMPTS -> Nat] BY <1>1 DEF Objects
  <2>. HIDE DEF s, n
  <2>5. Keeps(s, m')
    <3>1. CASE n > 0
      <4>1. n \in 1 .. ATTEMPTS /\ s.attempts[n] + 1 \in Nat BY <2>3, <2>4, <3>1
      <4>. DEFINE k == s.attempts[n] + 1
                  t == [s EXCEPT !.attempts[n] = k]
      <4>2. m' = t BY <2>2, <3>1
      <4>. HIDE DEF k
      <4>3. k \in Nat BY <4>1 DEF k
      <4>4. t \in Objects BY <1>1, <4>1, <4>3, AttemptsFacts DEF CarriesOn
      <4>5. t.bus = s.bus /\ t.timers = s.timers /\ t.rebooting = s.rebooting
        BY <1>1 DEF Objects
      <4>. QED BY <4>2, <4>4, <4>5 DEF Keeps
    <3>2. CASE ~(n > 0)
      BY <1>1, <2>2, <3>2, KeepsSelf
    <3>. QED BY <3>1, <3>2
  <2>6. Adds(s, m') BY <1>1, <2>5, KeepsAdds
  <2>. QED BY <2>1, <2>6 DEF s
<1>. QED BY <1>6, <1>7, <1>8, <1>9, <1>10, <1>11, <1>12, <1>13

\* Nothing happens before the list of modules but through the closed port.
ClosedAtFirst == {"replug", "early"} \cap Events = {}

\* What was not listed before a step that keeps the port.
LEMMA NotListedAfter ==
  ASSUME NEW s, UNCHANGED <<port, listed>>,
         ~listed => /\ port = "closed"
                    /\ s.bus = <<>>
                    /\ s.timers["fwUpgdReqAck"] = 0
                    /\ Adds(s, m')
                    /\ m'.rebooting => Has(m'.bus, {"Reboot"})
  PROVE  NotListed'
<1> SUFFICES ASSUME ~listed PROVE NotListed'
  BY DEF NotListed
<1>1. Len(m'.bus) <= 1
  <2>1. Len(m'.bus) <= Len(s.bus) + 1 BY DEF Adds
  <2>2. s.bus = <<>> OBVIOUS
  <2>. QED BY <2>1, <2>2
<1>2. m'.timers["fwUpgdReqAck"] = 0 BY DEF Adds
<1>. QED BY <1>1, <1>2 DEF NotListed, Has

\* Without the list, what the program is ready for finds nothing under way.
LEMMA ReadyNotListed ==
  ASSUME ClosedAtFirst, UniIInv, NotListed, Ready, ~listed
  PROVE  /\ port = "closed"
         /\ m.bus = <<>>
         /\ m.timers["fwUpgdReqAck"] = 0
         /\ ~m.rebooting
<1>1. port = "closed" BY DEF ClosedAtFirst, UniIInv, Ready
<1>2. m.bus = <<>> BY <1>1 DEF Ready
<1>. QED BY <1>1, <1>2 DEF NotListed, Has

LEMMA NotListedRequest ==
  ASSUME ClosedAtFirst, UniIInv, NotListed, Ready, UNCHANGED <<port, listed>>,
         Adds(m, m')
  PROVE  NotListed'
<1>1. ~listed => (m'.rebooting => Has(m'.bus, {"Reboot"}))
  BY ReadyNotListed DEF Adds
<1>. QED BY <1>1, ReadyNotListed, NotListedAfter

LEMMA OnlyPlace ==
  ASSUME NEW S, NEW q \in Seq(S), NEW i \in DOMAIN q, Len(q) <= 1
  PROVE  Len(q) = 1 /\ i = 1
<1>. DEFINE n == Len(q)
<1>1. n \in Nat /\ i \in 1 .. n /\ n <= 1 OBVIOUS
<1>. HIDE DEF n
<1>2. i \in Int /\ 1 <= i /\ i <= n BY <1>1
<1>3. n = 1 /\ i = 1 BY <1>1, <1>2
<1>. QED BY <1>3 DEF n

LEMMA NotListedCallback ==
  ASSUME UniIInv, NotListed, NEW i \in DOMAIN m.bus, UNCHANGED daemon,
         \/ Callback(i)
         \/ \E b \in BOOLEAN : ModuleGotInfo(i, b)
         \/ ModuleNoInfo(i)
  PROVE  NotListed'
<1>. DEFINE s == Rest(i)
<1>0. m \in Objects /\ m.bus \in Seq(BusCommands)
  BY DEF UniIInv, Sound, Kept, Objects
<1>1. UNCHANGED <<port, listed>> BY DEF daemon
<1>2. ASSUME ~listed => /\ port = "closed"
                        /\ s.bus = <<>>
                        /\ s.timers["fwUpgdReqAck"] = 0
                        /\ Adds(s, m')
                        /\ m'.rebooting => Has(m'.bus, {"Reboot"})
      PROVE  NotListed'
  <2>. HIDE DEF s
  <2>. QED BY <1>1, <1>2, NotListedAfter
<1> SUFFICES ASSUME ~listed PROVE NotListed'
  BY <1>1 DEF NotListed
<1>3. m.bus # <<>> BY <1>0
<1>4. port = "closed" BY <1>3 DEF NotListed, UniIInv
<1>5. Len(m.bus) = 1 /\ i = 1
  <2>1. Len(m.bus) <= 1 BY DEF NotListed
  <2>. QED BY <1>0, <2>1, OnlyPlace
<1>6. s.bus = RemoveAt(m.bus, i) /\ SameButBus(m, s) BY <1>0, RestWork
<1>7. Adds(s, m') /\ (m.bus[i].kind = "Reboot" => ~m'.rebooting)
  BY <1>4, ErrorAdds
<1>. HIDE DEF s
<1>8. s.bus = <<>>
  <2>1. RemoveAt(m.bus, i) \in Seq(BusCommands)
        /\ DOMAIN RemoveAt(m.bus, i) = 1 .. (Len(m.bus) - 1)
    BY <1>0, RemoveAtPlaces
  <2>. DEFINE q == RemoveAt(m.bus, i)
  <2>2. q \in Seq(BusCommands) /\ DOMAIN q = 1 .. 0 BY <1>5, <2>1
  <2>. HIDE DEF q
  <2>3. q = <<>> BY <2>2
  <2>. QED BY <1>6, <2>3 DEF q
<1>9. s.timers["fwUpgdReqAck"] = 0 BY <1>6 DEF NotListed, SameButBus
<1>10. s.rebooting => m.bus[i].kind = "Reboot"
  <2>1. s.rebooting => Has(m.bus, {"Reboot"}) BY <1>6 DEF NotListed, SameButBus
  <2>2. \A j \in DOMAIN m.bus : j = i BY <1>0, <1>5
  <2>. QED BY <2>1, <2>2 DEF Has
<1>11. m'.rebooting => Has(m'.bus, {"Reboot"}) BY <1>7, <1>10 DEF Adds
<1>. QED BY <1>2, <1>4, <1>7, <1>8, <1>9, <1>11

LEMMA NotListedTimer ==
  ASSUME ClosedAtFirst, UniIInv, NotListed, Upgrades(m, "nothing"),
         FwUpgdReqTimer \/ RebootTimer \/ ReactivateTick \/ Daemon
  PROVE  NotListed'
<1>0. m \in Objects BY DEF UniIInv, Sound, Kept
<1>1. CASE FwUpgdReqTimer \/ RebootTimer
  <2>1. Ready /\ UNCHANGED <<port, listed>>
    BY <1>1 DEF FwUpgdReqTimer, RebootTimer, Expires, daemon
  <2>2. m.timers["fwUpgdReqAck"] > 0 \/ m.timers["reboot"] > 0
    BY <1>1 DEF FwUpgdReqTimer, RebootTimer, Expires
  <2>3. m.timers["reboot"] > 0 => m.rebooting
    <3>1. m.timers["reboot"] > 0 => m.timers["reboot"] # 0 OBVIOUS
    <3>. QED BY <3>1 DEF Upgrades, RebootAlone
  <2>4. listed
    <3> SUFFICES ASSUME ~listed PROVE FALSE
      OBVIOUS
    <3>1. m.timers["fwUpgdReqAck"] = 0 /\ ~m.rebooting BY <2>1, ReadyNotListed
    <3>. QED BY <2>2, <2>3, <3>1
  <2>. QED BY <2>1, <2>4 DEF NotListed
<1>2. CASE ReactivateTick \/ MtbUsbOnNewModule \/ MtbUsbOnModuleFail
  <2>1. Ready /\ port = "open" /\ listed' = listed
    BY <1>2 DEF ReactivateTick, MtbUsbOnNewModule, MtbUsbOnModuleFail, daemon
  <2>2. listed BY <2>1 DEF Ready, ClosedAtFirst
  <2>. QED BY <2>1, <2>2 DEF NotListed
<1>3. CASE MtbUsbGotModules
  BY <1>3 DEF MtbUsbGotModules, NotListed
<1>4. ASSUME NEW n \in 1 .. ATTEMPTS, AttemptTimer(n) PROVE NotListed'
  <2>1. Ready /\ UNCHANGED <<port, listed>> BY <1>4 DEF AttemptTimer, daemon
  <2>2. CASE listed
    BY <2>1, <2>2 DEF NotListed
  <2>3. CASE ~listed
    <3>1. port = "closed" BY <2>1, <2>3, ReadyNotListed
    <3>2. m' = [m EXCEPT !.attempts[n] = @ - 1] BY <1>4, <3>1 DEF AttemptTimer
    <3>3. m'.bus = m.bus /\ m'.timers = m.timers /\ m'.rebooting = m.rebooting
      BY <1>0, <3>2 DEF Objects
    <3>. QED BY <2>1, <3>3 DEF NotListed, Has
  <2>. QED BY <2>2, <2>3
<1>5. CASE Connect
  <2>1. Ready /\ port = "closed" /\ ~listed /\ m' = m
        /\ port' = "open" /\ listed' = FALSE
    BY <1>5 DEF Connect, ClosedAtFirst
  <2>2. m.bus = <<>> BY <2>1 DEF Ready
  <2>. QED BY <2>1, <2>2 DEF NotListed, Has
<1>6. CASE Disconnect
  <2>1. listed /\ listed' = listed BY <1>6 DEF Disconnect, Ready, ClosedAtFirst
  <2>. QED BY <2>1 DEF NotListed
<1>7. CASE MtbUsbDisconnected
  <2>1. listed /\ listed' = listed BY <1>7 DEF MtbUsbDisconnected, NotListed
  <2>. QED BY <2>1 DEF NotListed
<1>. QED BY <1>1, <1>2, <1>3, <1>4, <1>5, <1>6, <1>7 DEF Daemon

\* What the theorems on upgrades assume of the environment: the port is opened
\* once and nothing comes before the list of modules, and nobody upgrades or
\* reboots a module that is being activated.
Undisturbed == {"replug", "early", "overlap"} \cap Events = {}

UpInv == AllThere /\ Upgrades(m, "nothing") /\ NotListed

\* UpInv is about the object, its clients and its port.
LEMMA UpgradesNext ==
  ASSUME Upgrades(m', "nothing")
  PROVE  Upgrades(m, "nothing")'
<1>1. OneChain(m, "nothing")' BY DEF Upgrades, OneChain, Chained, Has, Single
<1>2. Pending(m)' BY DEF Upgrades, Pending, Has
<1>3. RebootAlone(m, "nothing")'
  BY DEF Upgrades, RebootAlone, NoAttempts, Has, Single
<1>4. NotActivated(m, "nothing")'
  BY DEF Upgrades, NotActivated, Busied, Chained, NoAttempts, Has
<1>5. Flashed(m, "nothing")' BY DEF Upgrades, Flashed, Has, Block
<1>6. Placed(m)' BY DEF Upgrades, Placed, Asks, Carries
<1>7. (m.fault \in Excused)' BY DEF Upgrades
<1>. QED BY <1>1, <1>2, <1>3, <1>4, <1>5, <1>6, <1>7 DEF Upgrades

LEMMA UpNext ==
  ASSUME AllThere, UNCHANGED clients, Upgrades(m', "nothing"), NotListed'
  PROVE  UpInv'
<1>1. AllThere' BY DEF AllThere
<1>2. Upgrades(m, "nothing")' BY UpgradesNext
<1>. QED BY <1>1, <1>2 DEF UpInv

LEMMA InitUpInv == Init => UpInv
<1> SUFFICES ASSUME Init PROVE UpInv
  OBVIOUS
<1>1. PICK file \in InitConfigs, factory \in Configs :
        m = [f \in DOMAIN NewModule \cup DOMAIN NewUni(file, factory) |->
                IF f \in DOMAIN NewModule THEN NewModule[f]
                ELSE NewUni(file, factory)[f]]
  BY DEF Init
<1>2. /\ ~m.activating /\ m.activationsRemaining = 0
      /\ ~m.rebooting /\ m.onReboot = None
      /\ m.configWriting = None /\ m.fwUpgrading = None
      /\ m.bus = <<>>
      /\ m.timers = [t \in {"fwUpgdReqAck", "reboot"} |-> 0]
      /\ m.fault = None
  BY <1>1 DEF NewModule, NewUni
<1>3. \A K : ~Has(m.bus, K) BY <1>2 DEF Has
<1>4. \A K : Single(m.bus, K) BY <1>2 DEF Single
<1>5. m.timers["fwUpgdReqAck"] = 0 /\ m.timers["reboot"] = 0 BY <1>2
<1>6. None \notin Requests BY RequestNames
<1>7. OneChain(m, "nothing") BY <1>3, <1>4, <1>5 DEF OneChain, Chained
<1>8. Pending(m) BY <1>3 DEF Pending
<1>9. RebootAlone(m, "nothing") BY <1>2, <1>3, <1>5 DEF RebootAlone
<1>10. NotActivated(m, "nothing") BY <1>2 DEF NotActivated, Busied
<1>11. Flashed(m, "nothing") BY <1>2, <1>3, <1>6 DEF Flashed, Block
<1>12. Placed(m) BY <1>2, <1>6 DEF Placed, Asks
<1>13. AllThere BY DEF Init, AllThere
<1>14. NotListed
  <2>1. port = "closed" BY DEF Init
  <2>2. Len(<<>>) <= 1 OBVIOUS
  <2>. QED BY <1>2, <1>5, <2>1, <2>2 DEF NotListed
<1>15. m.fault \in Excused BY <1>2 DEF Excused
<1>. QED BY <1>7, <1>8, <1>9, <1>10, <1>11, <1>12, <1>13, <1>14, <1>15
         DEF UpInv, Upgrades

LEMMA FewUnder ==
  ASSUME NEW q, NEW K, Single(q, K)
  PROVE  LET chain == {i \in DOMAIN q : q[i].kind \in K}
         IN Cardinality(chain) = IF chain = {} THEN 0 ELSE 1
<1>. DEFINE chain == {i \in DOMAIN q : q[i].kind \in K}
<1>1. CASE chain = {}
  <2>1. Cardinality({}) = 0 BY FS_EmptySet
  <2>. QED BY <1>1, <2>1
<1>2. CASE chain # {}
  <2>1. PICK i : i \in chain BY <1>2
  <2>2. \A j \in chain : j = i BY <2>1 DEF Single
  <2>3. chain = {i} BY <2>1, <2>2
  <2>4. Cardinality({i}) = 1 BY FS_Singleton
  <2>. HIDE DEF chain
  <2>5. Cardinality(chain) = 1 BY <2>3, <2>4
  <2>. USE DEF chain
  <2>. QED BY <1>2, <2>5
<1>. QED BY <1>1, <1>2

LEMMA UpInvAlone == UniIInv /\ UpInv => UpgradeAlone
<1> SUFFICES ASSUME UpInv PROVE UpgradeAlone
  OBVIOUS
<1>. DEFINE chain == {i \in DOMAIN m.bus : m.bus[i].kind \in UpgradeCommands}
            others == {i \in DOMAIN m.bus : m.bus[i].kind \in {"SetOutput", "SetConfig"}}
<1>1. OneChain(m, "nothing") BY DEF UpInv, Upgrades
<1>2. Single(m.bus, UpgradeCommands) BY <1>1 DEF OneChain
<1>3. Cardinality(chain) = IF chain = {} THEN 0 ELSE 1 BY <1>2, FewUnder
<1>4. chain # {} => Has(m.bus, UpgradeCommands) BY DEF Has
<1>5. /\ m.timers["fwUpgdReqAck"] \in {0, 1}
      /\ chain # {} => m.timers["fwUpgdReqAck"] = 0
  BY <1>1, <1>4 DEF OneChain
<1>6. chain # {} => others = {}
  <2>1. chain # {} => ~Has(m.bus, Writes) BY <1>1, <1>4 DEF OneChain, Chained
  <2>. QED BY <2>1 DEF Has, Writes
<1>. HIDE DEF chain, others
<1>7. Cardinality(chain) + m.timers["fwUpgdReqAck"] <= 1 BY <1>3, <1>5
<1>. QED BY <1>6, <1>7 DEF UpgradeAlone, chain, others

-----------------------------------------------------------------------------
(* One write at a time *)

\* No client sets outputs.
NoneSetsOutputs == \A r \in Requests : Kind[r] # "module_set_outputs"

\* No set of outputs waits or was sent, and the outputs belong to nobody.
Bare(s) ==
    /\ s \in Objects
    /\ s.setOutputsWaiting = <<>>
    /\ s.setOutputsSent = <<>>
    /\ s.whoSetOutput = Unset

\* What sends nothing.
Still(s, t) == Bare(t) /\ t.bus = s.bus

\* What sends one command at most, and no write.
Extra(s, t) ==
    /\ Bare(t)
    /\ \/ t.bus = s.bus
       \/ \E c \in BusCommands : c.kind \notin Writes /\ t.bus = Append(s.bus, c)

LEMMA StillExtra ==
  ASSUME NEW s, NEW t, NEW u, Still(s, t)
  PROVE  /\ Extra(s, t)
         /\ Still(t, u) => Still(s, u)
         /\ Extra(t, u) => Extra(s, u)
BY DEF Still, Extra

LEMMA StillSelf == \A s : Bare(s) => Still(s, s)
BY DEF Still

LEMMA StillSame ==
  ASSUME NEW s, NEW t \in Objects, Bare(s), t.bus = s.bus,
         t.setOutputsWaiting = s.setOutputsWaiting,
         t.setOutputsSent = s.setOutputsSent,
         t.whoSetOutput = s.whoSetOutput
  PROVE  Still(s, t)
BY DEF Still, Bare

LEMMA ExtraSend ==
  ASSUME NEW s, Bare(s), NEW c \in BusCommands, c.kind \notin Writes
  PROVE  Extra(s, Send(s, c))
<1>. DEFINE t == Send(s, c)
<1>1. s \in Objects BY DEF Bare
<1>2. t \in Objects BY <1>1, SentFacts
<1>3. /\ t.bus = Append(s.bus, c)
      /\ t.setOutputsWaiting = s.setOutputsWaiting
      /\ t.setOutputsSent = s.setOutputsSent
      /\ t.whoSetOutput = s.whoSetOutput
  BY <1>1 DEF Send, Objects
<1>. HIDE DEF t
<1>4. Extra(s, t) BY <1>2, <1>3 DEF Extra, Bare
<1>. QED BY <1>4 DEF t

LEMMA ExtraCmd ==
  ASSUME NEW s, Bare(s),
         NEW k \in {"activate: GetConfig", "activate: GetInputs",
                    "activate: ResetOutputs", "Reboot", "reboot: ModuleInfo",
                    "FwUpgradeReq", "fw: ModuleInfo", "FwWriteFlashStatusRequest"}
  PROVE  Extra(s, Send(s, Cmd(k)))
<1>1. Cmd(k) \in BusCommands /\ Cmd(k).kind = k BY CommandTypes
<1>2. k \notin Writes BY DEF Writes
<1>. QED BY <1>1, <1>2, ExtraSend

LEMMA StillReply ==
  ASSUME NEW s, Bare(s), NEW r, NEW response \in Responses
  PROVE  Still(s, Reply(s, r, response))
<1>. DEFINE t == Reply(s, r, response)
<1>1. s \in Objects BY DEF Bare
<1>2. t \in Objects BY <1>1, ReplyFacts DEF CarriesOn
<1>3. /\ t.bus = s.bus
      /\ t.setOutputsWaiting = s.setOutputsWaiting
      /\ t.setOutputsSent = s.setOutputsSent
      /\ t.whoSetOutput = s.whoSetOutput
  BY <1>1 DEF Reply, Objects
<1>. HIDE DEF t
<1>4. Still(s, t) BY <1>2, <1>3, StillSame
<1>. QED BY <1>4 DEF t

LEMMA StillSendError ==
  ASSUME NEW s, Bare(s), NEW r
  PROVE  Still(s, SendError(s, r))
<1>. DEFINE t == Fault(s, "deleted socket")
<1>1. s \in Objects BY DEF Bare
<1>2. t \in Objects BY <1>1, FaultFacts DEF CarriesOn
<1>3. /\ t.bus = s.bus
      /\ t.setOutputsWaiting = s.setOutputsWaiting
      /\ t.setOutputsSent = s.setOutputsSent
      /\ t.whoSetOutput = s.whoSetOutput
  BY <1>1 DEF Fault, Objects
<1>4. SendError(s, r) \in {s, t, Reply(s, r, Error)} BY DEF SendError
<1>. HIDE DEF t
<1>5. Still(s, t) BY <1>2, <1>3, StillSame
<1>6. Still(s, s) /\ Still(s, Reply(s, r, Error))
  BY StillSelf, StillReply, ResponseTypes
<1>. QED BY <1>4, <1>5, <1>6

\* The end of an upgrade, right (Ok) or wrong (Error).
LEMMA StillUpgradeEnds ==
  ASSUME NEW s, Bare(s), NEW response \in Responses
  PROVE  LET w == Reply(s, s.fwUpgrading, response)
         IN Still(s, [w EXCEPT !.fwUpgrading = None, !.data = 0])
<1>. DEFINE w == Reply(s, s.fwUpgrading, response)
            t == [w EXCEPT !.fwUpgrading = None, !.data = 0]
<1>1. Still(s, w) BY StillReply
<1>. HIDE DEF w
<1>2. Bare(w) /\ w \in Objects BY <1>1 DEF Still, Bare
<1>3. t \in Objects BY <1>2, UpgradeEndFacts DEF CarriesOn
<1>4. /\ t.bus = w.bus
      /\ t.setOutputsWaiting = w.setOutputsWaiting
      /\ t.setOutputsSent = w.setOutputsSent
      /\ t.whoSetOutput = w.whoSetOutput
  BY <1>2 DEF Objects
<1>. HIDE DEF t
<1>5. Still(w, t) BY <1>2, <1>3, <1>4, StillSame
<1>6. Still(s, t) BY <1>1, <1>5, StillExtra
<1>. QED BY <1>6 DEF t, w

LEMMA StillFwUpgdError ==
  ASSUME NEW s, Bare(s)
  PROVE  Still(s, FwUpgdError(s))
<1>. DEFINE t == Fault(s, "no upgrade")
            w == Reply(s, s.fwUpgrading, Error)
            u == [w EXCEPT !.fwUpgrading = None, !.data = 0]
<1>1. s \in Objects BY DEF Bare
<1>2. t \in Objects BY <1>1, FaultFacts DEF CarriesOn
<1>3. /\ t.bus = s.bus
      /\ t.setOutputsWaiting = s.setOutputsWaiting
      /\ t.setOutputsSent = s.setOutputsSent
      /\ t.whoSetOutput = s.whoSetOutput
  BY <1>1 DEF Fault, Objects
<1>4. FwUpgdError(s) \in {t, u} BY DEF FwUpgdError
<1>5. Still(s, u) BY StillUpgradeEnds, ResponseTypes
<1>. HIDE DEF t, u
<1>6. Still(s, t) BY <1>2, <1>3, StillSame
<1>. QED BY <1>4, <1>5, <1>6

LEMMA StillFwUpgdRebooted ==
  ASSUME NEW s, Bare(s)
  PROVE  Still(s, FwUpgdRebooted(s))
<1>. DEFINE w == Reply(s, s.fwUpgrading, Ok)
            u == [w EXCEPT !.fwUpgrading = None, !.data = 0]
<1>1. FwUpgdRebooted(s) \in {FwUpgdError(s), u} BY DEF FwUpgdRebooted
<1>2. Still(s, u) BY StillUpgradeEnds, ResponseTypes
<1>. HIDE DEF u
<1>. QED BY <1>1, <1>2, StillFwUpgdError

LEMMA StillMtbBusLost ==
  ASSUME NEW s, Bare(s)
  PROVE  Still(s, MtbBusLost(s))
<1>. DEFINE t == MtbBusLost(s)
<1>1. s \in Objects BY DEF Bare
<1>2. t \in Objects BY <1>1, MtbBusLostFacts DEF CarriesOn
<1>3. /\ t.bus = s.bus
      /\ t.setOutputsWaiting = s.setOutputsWaiting
      /\ t.setOutputsSent = s.setOutputsSent
      /\ t.whoSetOutput = s.whoSetOutput
  BY <1>1 DEF MtbBusLost, Objects
<1>. HIDE DEF t
<1>4. Still(s, t) BY <1>2, <1>3, StillSame
<1>. QED BY <1>4 DEF t

LEMMA ExtraReboot ==
  ASSUME NEW s, Bare(s), NEW who \in Requests \cup {"upgrade"}
  PROVE  Extra(s, Reboot(s, who))
<1>. DEFINE v == MtbBusLost(s)
            u == [v EXCEPT !.rebooting = TRUE, !.onReboot = who,
                           !.activatedByMtbUsb = FALSE]
            t == Send(u, Cmd("Reboot"))
<1>1. Reboot(s, who) \in {s, t} BY DEF Reboot
<1>2. Still(s, v) BY StillMtbBusLost
<1>. HIDE DEF v
<1>3. Bare(v) /\ v \in Objects BY <1>2 DEF Still, Bare
<1>4. u \in Objects BY <1>3, RebootBeginsFacts DEF CarriesOn
<1>5. /\ u.bus = v.bus
      /\ u.setOutputsWaiting = v.setOutputsWaiting
      /\ u.setOutputsSent = v.setOutputsSent
      /\ u.whoSetOutput = v.whoSetOutput
  BY <1>3 DEF Objects
<1>. HIDE DEF u
<1>6. Still(v, u) BY <1>3, <1>4, <1>5, StillSame
<1>7. Still(s, u) /\ Bare(u) BY <1>2, <1>6, StillExtra DEF Still
<1>8. Extra(u, t) BY <1>7, ExtraCmd
<1>9. Extra(s, t) BY <1>7, <1>8, StillExtra
<1>10. Extra(s, s) BY StillSelf, StillExtra
<1>. QED BY <1>1, <1>9, <1>10

LEMMA StillRebootFailed ==
  ASSUME NEW s, Bare(s)
  PROVE  Still(s, RebootFailed(s))
<1>. DEFINE t == [s EXCEPT !.rebooting = FALSE]
            u == SendError(t, s.onReboot)
            v == MtbBusLost(u)
<1>1. RebootFailed(s) \in {FwUpgdError(t), v} BY DEF RebootFailed
<1>2. s \in Objects BY DEF Bare
<1>3. t \in Objects BY <1>2, NotRebootingFacts DEF CarriesOn
<1>4. /\ t.bus = s.bus
      /\ t.setOutputsWaiting = s.setOutputsWaiting
      /\ t.setOutputsSent = s.setOutputsSent
      /\ t.whoSetOutput = s.whoSetOutput
  BY <1>2 DEF Objects
<1>. HIDE DEF t
<1>5. Still(s, t) /\ Bare(t) BY <1>3, <1>4, StillSame DEF Still
<1>6. Still(t, FwUpgdError(t)) /\ Still(t, u)
  BY <1>5, StillFwUpgdError, StillSendError
<1>. HIDE DEF u
<1>7. Still(u, v) BY <1>6, StillMtbBusLost DEF Still
<1>8. Still(t, v) BY <1>6, <1>7, StillExtra
<1>. HIDE DEF v
<1>. QED BY <1>1, <1>5, <1>6, <1>8, StillExtra

LEMMA StillFullyActivated ==
  ASSUME NEW s, Bare(s), s.config # None => UnsetSafe(s)
  PROVE  Still(s, FullyActivated(s))
<1>. DEFINE t == [s EXCEPT !.activating = FALSE, !.activationsRemaining = 0,
                           !.active = TRUE, !.rebooting = FALSE]
<1>1. s \in Objects BY DEF Bare
<1>2. FullyActivated(s) \in {t, FwUpgdRebooted(t), Reply(t, s.onReboot, Ok)}
  BY DEF FullyActivated
<1>3. t \in Objects BY <1>1, ActivatedFacts DEF CarriesOn
<1>4. /\ t.bus = s.bus
      /\ t.setOutputsWaiting = s.setOutputsWaiting
      /\ t.setOutputsSent = s.setOutputsSent
      /\ t.whoSetOutput = s.whoSetOutput
  BY <1>1 DEF Objects
<1>. HIDE DEF t
<1>5. Still(s, t) /\ Bare(t) BY <1>3, <1>4, StillSame DEF Still
<1>6. Still(t, FwUpgdRebooted(t)) /\ Still(t, Reply(t, s.onReboot, Ok))
  BY <1>5, StillFwUpgdRebooted, StillReply, ResponseTypes
<1>. QED BY <1>2, <1>5, <1>6, StillExtra

LEMMA StillOutputsReset ==
  ASSUME NEW s, Bare(s)
  PROVE  Still(s, AllOutputsReset(s)) /\ Still(s, OutputsReset(s))
<1>. DEFINE t == AllOutputsReset(s)
<1>1. s \in Objects BY DEF Bare
<1>2. CarriesOn(s, t) /\ (s.config # None => UnsetSafe(t)) /\ t.config = s.config
  BY <1>1, AllOutputsResetFacts, Zenon
<1>3. t \in Objects BY <1>2 DEF CarriesOn
<1>4. /\ t.bus = s.bus
      /\ t.setOutputsWaiting = s.setOutputsWaiting
      /\ t.setOutputsSent = s.setOutputsSent
      /\ t.whoSetOutput = s.whoSetOutput
  BY <1>1 DEF AllOutputsReset, Objects, Bare
<1>5. OutputsReset(s) = FullyActivated(t) BY DEF OutputsReset
<1>. HIDE DEF t
<1>6. Still(s, t) /\ Bare(t) BY <1>3, <1>4, StillSame DEF Still
<1>7. Still(t, FullyActivated(t)) BY <1>2, <1>6, StillFullyActivated
<1>8. Still(s, FullyActivated(t)) BY <1>6, <1>7, StillExtra
<1>9. Still(s, t) /\ Still(s, OutputsReset(s)) BY <1>5, <1>6, <1>8
<1>. QED BY <1>9 DEF t

LEMMA ExtraGotInfo ==
  ASSUME NEW s, Bare(s), NEW b \in BOOLEAN
  PROVE  Extra(s, FwUpgdGotInfo(s, b)) /\ Extra(s, FwUpgdInit(s))
<1>. DEFINE t == [s EXCEPT !.inBootloader = TRUE, !.toWrite = s.data]
            u == [s EXCEPT !.inBootloader = FALSE]
            a == Send(t, Cmd("FwWriteFlashStatusRequest"))
            c == Send(s, Cmd("FwUpgradeReq"))
<1>1. s \in Objects BY DEF Bare
<1>2. FwUpgdGotInfo(s, b) \in {a, FwUpgdError(u)} /\ FwUpgdInit(s) \in {a, c}
  BY DEF FwUpgdGotInfo, FwUpgdInit, FwUpgdGetStatus
<1>3. t \in Objects /\ u \in Objects
  BY <1>1, InBootloaderFacts, NoBootloaderFacts DEF CarriesOn
<1>4. /\ t.bus = s.bus /\ u.bus = s.bus
      /\ t.setOutputsWaiting = s.setOutputsWaiting
      /\ t.setOutputsSent = s.setOutputsSent
      /\ t.whoSetOutput = s.whoSetOutput
      /\ u.setOutputsWaiting = s.setOutputsWaiting
      /\ u.setOutputsSent = s.setOutputsSent
      /\ u.whoSetOutput = s.whoSetOutput
  BY <1>1 DEF Objects
<1>. HIDE DEF t, u
<1>5. Still(s, t) /\ Bare(t) BY <1>3, <1>4, StillSame DEF Still
<1>6. Still(s, u) /\ Bare(u) BY <1>3, <1>4, StillSame DEF Still
<1>7. Extra(t, a) /\ Extra(s, c) BY <1>5, ExtraCmd
<1>8. Extra(s, a) BY <1>5, <1>7, StillExtra
<1>9. Still(u, FwUpgdError(u)) BY <1>6, StillFwUpgdError
<1>10. Extra(s, FwUpgdError(u)) BY <1>6, <1>9, StillExtra
<1>. HIDE DEF a, c
<1>. QED BY <1>2, <1>7, <1>8, <1>10

LEMMA ExtraGotStatus ==
  ASSUME NEW s, Bare(s), NEW b \in BOOLEAN
  PROVE  Extra(s, FwUpgdGotStatus(s, b))
<1>1. s \in Objects BY DEF Bare
<1>2. CASE b
  BY <1>2, ExtraCmd DEF FwUpgdGotStatus, FwUpgdGetStatus
<1>3. CASE ~b /\ s.toWrite = 0
  BY <1>3, ExtraReboot DEF FwUpgdGotStatus
<1>4. CASE ~b /\ s.toWrite > 0
  <2>. DEFINE c == [kind |-> "FwWriteFlash", block |-> s.toWrite]
              u == Send(s, c)
              t == [u EXCEPT !.toWrite = @ - 1]
              f == Fault(s, "toWrite")
  <2>1. FwUpgdGotStatus(s, b) \in {f, t} BY <1>1, <1>4, Limits DEF FwUpgdGotStatus
  <2>2. s.toWrite \in 1 .. Blocks BY <1>1, <1>4, Limits
  <2>3. c \in BusCommands /\ c.kind \notin Writes BY <2>2 DEF BusCommands, Writes
  <2>4. f \in Objects BY <1>1, FaultFacts DEF CarriesOn
  <2>5. /\ f.bus = s.bus
        /\ f.setOutputsWaiting = s.setOutputsWaiting
        /\ f.setOutputsSent = s.setOutputsSent
        /\ f.whoSetOutput = s.whoSetOutput
    BY <1>1 DEF Fault, Objects
  <2>6. u.toWrite = s.toWrite BY <1>1 DEF Send, Objects
  <2>. HIDE DEF c, f, u
  <2>7. Still(s, f) BY <2>4, <2>5, StillSame
  <2>8. Extra(s, u) BY <2>3, ExtraSend DEF u
  <2>9. u \in Objects BY <2>8 DEF Extra, Bare
  <2>10. t \in Objects BY <1>4, <2>6, <2>9, NextBlockFacts DEF CarriesOn
  <2>11. /\ t.bus = u.bus
         /\ t.setOutputsWaiting = u.setOutputsWaiting
         /\ t.setOutputsSent = u.setOutputsSent
         /\ t.whoSetOutput = u.whoSetOutput
    BY <2>9 DEF Objects
  <2>. HIDE DEF t
  <2>12. Extra(s, t) BY <2>8, <2>10, <2>11 DEF Extra, Bare
  <2>. QED BY <2>1, <2>7, <2>12, StillExtra
<1>. QED
  <2>1. s.toWrite = 0 \/ s.toWrite > 0 BY <1>1, Limits
  <2>. QED BY <1>2, <1>3, <1>4, <2>1

LEMMA ExtraActivate ==
  ASSUME NEW s, Bare(s)
  PROVE  /\ Extra(s, Activate(s))
         /\ \A b \in BOOLEAN : Extra(s, MtbBusActivate(s, b))
<1>1. ASSUME NEW t, Bare(t) PROVE Extra(t, Activate(t))
  <2>. DEFINE u == [t EXCEPT !.activating = TRUE]
              c == [kind |-> "activate: SetConfig", config |-> t.config]
  <2>1. t \in Objects BY <1>1 DEF Bare
  <2>2. u \in Objects BY <2>1, ActivatingObject
  <2>3. /\ u.bus = t.bus
        /\ u.setOutputsWaiting = t.setOutputsWaiting
        /\ u.setOutputsSent = t.setOutputsSent
        /\ u.whoSetOutput = t.whoSetOutput
    BY <2>1 DEF Objects
  <2>4. Activate(t) = IF t.config = None THEN Send(u, Cmd("activate: GetConfig"))
                      ELSE Send(u, c)
    BY DEF Activate
  <2>5. t.config # None => c \in BusCommands /\ c.kind \notin Writes
    BY <2>1 DEF BusCommands, Writes, Objects
  <2>. HIDE DEF u, c
  <2>6. Still(t, u) /\ Bare(u) BY <1>1, <2>2, <2>3, StillSame DEF Still
  <2>7. Extra(u, Send(u, Cmd("activate: GetConfig"))) BY <2>6, ExtraCmd
  <2>8. t.config # None => Extra(u, Send(u, c)) BY <2>5, <2>6, ExtraSend
  <2>. QED BY <2>4, <2>6, <2>7, <2>8, StillExtra
<1>2. ASSUME NEW b \in BOOLEAN PROVE Extra(s, MtbBusActivate(s, b))
  <2>. DEFINE t == ModuleActivate(s, b)
  <2>1. s \in Objects BY DEF Bare
  <2>2. t \in Objects BY <2>1, ModuleActivateFacts DEF CarriesOn
  <2>3. /\ t.bus = s.bus
        /\ t.setOutputsWaiting = s.setOutputsWaiting
        /\ t.setOutputsSent = s.setOutputsSent
        /\ t.whoSetOutput = s.whoSetOutput
    BY <2>1 DEF ModuleActivate, Objects
  <2>4. MtbBusActivate(s, b) = IF b THEN OutputsReset(t) ELSE Activate(t)
    BY DEF MtbBusActivate
  <2>. HIDE DEF t
  <2>5. Still(s, t) /\ Bare(t) BY <2>2, <2>3, StillSame DEF Still
  <2>6. Still(t, OutputsReset(t)) /\ Extra(t, Activate(t))
    BY <1>1, <2>5, StillOutputsReset
  <2>7. Extra(t, OutputsReset(t)) BY <2>6, StillExtra
  <2>. QED BY <2>4, <2>5, <2>6, <2>7, StillExtra
<1>. QED BY <1>1, <1>2

LEMMA ExtraConfigDone ==
  ASSUME NEW s, Bare(s), NEW response \in Responses
  PROVE  Extra(s, ConfigDone(s, response))
<1>. DEFINE w == Reply(s, s.configWriting, response)
            x == [w EXCEPT !.configWriting = None]
<1>1. ConfigDone(s, response) \in {x, FwUpgdInit(x)} BY DEF ConfigDone
<1>2. Still(s, w) BY StillReply
<1>. HIDE DEF w
<1>3. Bare(w) /\ w \in Objects BY <1>2 DEF Still, Bare
<1>4. x \in Objects BY <1>3, NotWritingFacts DEF CarriesOn
<1>5. /\ x.bus = w.bus
      /\ x.setOutputsWaiting = w.setOutputsWaiting
      /\ x.setOutputsSent = w.setOutputsSent
      /\ x.whoSetOutput = w.whoSetOutput
  BY <1>3 DEF Objects
<1>. HIDE DEF x
<1>6. Still(w, x) BY <1>3, <1>4, <1>5, StillSame
<1>7. Still(s, x) /\ Bare(x) BY <1>2, <1>6, StillExtra DEF Still
<1>8. Extra(x, FwUpgdInit(x)) BY <1>7, ExtraGotInfo
<1>. QED BY <1>1, <1>7, <1>8, StillExtra

LEMMA ExtraConfigWritten ==
  ASSUME NEW s, Bare(s)
  PROVE  Extra(s, MtbBusConfigWritten(s))
<1>. DEFINE t == [s EXCEPT !.config = s.configToWrite]
<1>1. s \in Objects BY DEF Bare
<1>2. t \in Objects BY <1>1, ConfigKeptWork
<1>3. /\ t.bus = s.bus
      /\ t.setOutputsWaiting = s.setOutputsWaiting
      /\ t.setOutputsSent = s.setOutputsSent
      /\ t.whoSetOutput = s.whoSetOutput
  BY <1>1 DEF Objects
<1>4. MtbBusConfigWritten(s) = ConfigDone(t, Ok) BY DEF MtbBusConfigWritten
<1>. HIDE DEF t
<1>5. Still(s, t) /\ Bare(t) BY <1>2, <1>3, StillSame DEF Still
<1>6. Extra(t, ConfigDone(t, Ok)) BY <1>5, ExtraConfigDone, ResponseTypes
<1>. QED BY <1>4, <1>5, <1>6, StillExtra

\* With nothing that waits, the end of a set of outputs sends none.
LEMMA ExtraOutputsDone ==
  ASSUME NEW s, Bare(s)
  PROVE  /\ Extra(s, MtbBusOutputsNotSet(s))
         /\ \A outputs \in [Ports -> Values] : Extra(s, MtbBusOutputsSet(s, outputs))
<1>1. ASSUME NEW t, Bare(t) PROVE Extra(t, NextOutputs(t))
  <2>1. NextOutputs(t) \in {FwUpgdInit(t), t} BY <1>1 DEF NextOutputs, Bare
  <2>2. Extra(t, FwUpgdInit(t)) /\ Extra(t, t)
    BY <1>1, ExtraGotInfo, StillSelf, StillExtra
  <2>. QED BY <2>1, <2>2
<1>2. ASSUME NEW t, Bare(t), NEW response \in Responses
      PROVE  Still(t, ReplySent(t, response))
  <2>. DEFINE u == ReplySent(t, response)
  <2>1. t \in Objects BY <1>2 DEF Bare
  <2>2. u \in Objects BY <2>1, ReplySentFacts DEF CarriesOn
  <2>3. /\ u.bus = t.bus
        /\ u.setOutputsWaiting = t.setOutputsWaiting
        /\ u.setOutputsSent = <<>>
        /\ u.whoSetOutput = t.whoSetOutput
    BY <2>1 DEF ReplySent, Objects
  <2>. HIDE DEF u
  <2>4. Still(t, u) BY <1>2, <2>2, <2>3 DEF Still, Bare
  <2>. QED BY <2>4 DEF u
<1>3. ASSUME NEW t, Bare(t), NEW outputs \in [Ports -> Values]
      PROVE  Still(t, [t EXCEPT !.outputsConfirmed = outputs])
  <2>. DEFINE u == [t EXCEPT !.outputsConfirmed = outputs]
  <2>1. t \in Objects BY <1>3 DEF Bare
  <2>2. u \in Objects BY <1>3, <2>1, ConfirmedFacts DEF CarriesOn
  <2>3. /\ u.bus = t.bus
        /\ u.setOutputsWaiting = t.setOutputsWaiting
        /\ u.setOutputsSent = t.setOutputsSent
        /\ u.whoSetOutput = t.whoSetOutput
    BY <2>1 DEF Objects
  <2>. HIDE DEF u
  <2>4. Still(t, u) BY <1>3, <2>2, <2>3, StillSame
  <2>. QED BY <2>4 DEF u
<1>4. Extra(s, MtbBusOutputsNotSet(s))
  <2>. DEFINE t == ReplySent(s, Error)
              u == [t EXCEPT !.outputsConfirmed = s.outputsWant]
  <2>1. MtbBusOutputsNotSet(s) = NextOutputs(u) BY DEF MtbBusOutputsNotSet
  <2>2. s.outputsWant \in [Ports -> Values] BY DEF Bare, Objects
  <2>3. Still(s, t) BY <1>2, ResponseTypes
  <2>. HIDE DEF t
  <2>4. Still(t, u) BY <1>3, <2>2, <2>3 DEF Still
  <2>. HIDE DEF u
  <2>5. Extra(u, NextOutputs(u)) BY <1>1, <2>4 DEF Still
  <2>6. Still(s, u) BY <2>3, <2>4, StillExtra
  <2>. QED BY <2>1, <2>5, <2>6, StillExtra
<1>5. ASSUME NEW outputs \in [Ports -> Values]
      PROVE  Extra(s, MtbBusOutputsSet(s, outputs))
  <2>. DEFINE t == [s EXCEPT !.outputsConfirmed = outputs]
              u == ReplySent(t, OutputsOk(outputs))
  <2>1. MtbBusOutputsSet(s, outputs) = NextOutputs(u) BY DEF MtbBusOutputsSet
  <2>2. OutputsOk(outputs) \in Responses BY DEF OutputsOk, Responses
  <2>3. Still(s, t) BY <1>3
  <2>. HIDE DEF t
  <2>4. Still(t, u) BY <1>2, <2>2, <2>3 DEF Still
  <2>. HIDE DEF u
  <2>5. Extra(u, NextOutputs(u)) BY <1>1, <2>4 DEF Still
  <2>6. Still(s, u) BY <2>3, <2>4, StillExtra
  <2>. QED BY <2>1, <2>5, <2>6, StillExtra
<1>. QED BY <1>4, <1>5

LEMMA BareRest ==
  ASSUME UniIInv, Bare(m), NEW i \in DOMAIN m.bus
  PROVE  Bare(Rest(i))
<1>1. m \in Objects BY DEF Bare
<1>2. Rest(i) \in Objects BY RestIsObject
<1>3. /\ Rest(i).setOutputsWaiting = m.setOutputsWaiting
      /\ Rest(i).setOutputsSent = m.setOutputsSent
      /\ Rest(i).whoSetOutput = m.whoSetOutput
  BY <1>1 DEF Rest, Objects
<1>. QED BY <1>2, <1>3 DEF Bare

\* A change of the object in which the outputs and the bus have no part.
LEMMA StillField ==
  ASSUME NEW s, Bare(s)
  PROVE  /\ \A c \in Configs : Still(s, [s EXCEPT !.moduleConfig = c])
                            /\ Still(s, [s EXCEPT !.config = c])
         /\ \A x \in {"fwUpgdReqAck", "reboot"} :
               /\ Still(s, [s EXCEPT !.timers[x] = @ + 1])
               /\ s.timers[x] > 0 => Still(s, [s EXCEPT !.timers[x] = @ - 1])
         /\ \A n \in 1 .. ATTEMPTS, k \in Nat : Still(s, [s EXCEPT !.attempts[n] = k])
         /\ \A b \in 1 .. Blocks : Still(s, [s EXCEPT !.flash = @ \cup {b}])
         /\ Still(s, [s EXCEPT !.active = FALSE])
         /\ Still(s, ActivationError(s))
<1>1. s \in Objects BY DEF Bare
<1>2. ASSUME NEW c \in Configs
      PROVE  Still(s, [s EXCEPT !.moduleConfig = c]) /\ Still(s, [s EXCEPT !.config = c])
  <2>. DEFINE t == [s EXCEPT !.moduleConfig = c]
              u == [s EXCEPT !.config = c]
  <2>1. t \in Objects BY <1>1, HeldFacts DEF CarriesOn
  <2>2. u \in Objects
    <3>1. Shaped(u) BY <1>1, ObjectShape, Zenon DEF Shaped
    <3>2. Typed(u) BY <1>1 DEF Typed, Objects
    <3>. HIDE DEF u
    <3>. QED BY <3>1, <3>2, ObjectType
  <2>3. /\ t.bus = s.bus /\ u.bus = s.bus
        /\ t.setOutputsWaiting = s.setOutputsWaiting
        /\ t.setOutputsSent = s.setOutputsSent
        /\ t.whoSetOutput = s.whoSetOutput
        /\ u.setOutputsWaiting = s.setOutputsWaiting
        /\ u.setOutputsSent = s.setOutputsSent
        /\ u.whoSetOutput = s.whoSetOutput
    BY <1>1 DEF Objects
  <2>. HIDE DEF t, u
  <2>4. Still(s, t) /\ Still(s, u) BY <2>1, <2>2, <2>3, StillSame
  <2>. QED BY <2>4 DEF t, u
<1>3. ASSUME NEW x \in {"fwUpgdReqAck", "reboot"}
      PROVE  /\ Still(s, [s EXCEPT !.timers[x] = @ + 1])
             /\ s.timers[x] > 0 => Still(s, [s EXCEPT !.timers[x] = @ - 1])
  <2>. DEFINE t == [s EXCEPT !.timers[x] = @ + 1]
              u == [s EXCEPT !.timers[x] = @ - 1]
  <2>1. t \in Objects /\ (s.timers[x] > 0 => u \in Objects)
    BY <1>1, TimerFacts DEF CarriesOn
  <2>2. /\ t.bus = s.bus /\ u.bus = s.bus
        /\ t.setOutputsWaiting = s.setOutputsWaiting
        /\ t.setOutputsSent = s.setOutputsSent
        /\ t.whoSetOutput = s.whoSetOutput
        /\ u.setOutputsWaiting = s.setOutputsWaiting
        /\ u.setOutputsSent = s.setOutputsSent
        /\ u.whoSetOutput = s.whoSetOutput
    BY <1>1 DEF Objects
  <2>. HIDE DEF t, u
  <2>3. Still(s, t) BY <2>1, <2>2, StillSame
  <2>4. s.timers[x] > 0 => Still(s, u) BY <2>1, <2>2, StillSame
  <2>. QED BY <2>3, <2>4 DEF t, u
<1>4. ASSUME NEW n \in 1 .. ATTEMPTS, NEW k \in Nat
      PROVE  Still(s, [s EXCEPT !.attempts[n] = k])
  <2>. DEFINE t == [s EXCEPT !.attempts[n] = k]
  <2>1. t \in Objects BY <1>1, AttemptsFacts DEF CarriesOn
  <2>2. /\ t.bus = s.bus
        /\ t.setOutputsWaiting = s.setOutputsWaiting
        /\ t.setOutputsSent = s.setOutputsSent
        /\ t.whoSetOutput = s.whoSetOutput
    BY <1>1 DEF Objects
  <2>. HIDE DEF t
  <2>3. Still(s, t) BY <2>1, <2>2, StillSame
  <2>. QED BY <2>3 DEF t
<1>5. ASSUME NEW b \in 1 .. Blocks
      PROVE  Still(s, [s EXCEPT !.flash = @ \cup {b}])
  <2>. DEFINE t == [s EXCEPT !.flash = @ \cup {b}]
  <2>1. t \in Objects BY <1>1, FlashedFacts DEF CarriesOn
  <2>2. /\ t.bus = s.bus
        /\ t.setOutputsWaiting = s.setOutputsWaiting
        /\ t.setOutputsSent = s.setOutputsSent
        /\ t.whoSetOutput = s.whoSetOutput
    BY <1>1 DEF Objects
  <2>. HIDE DEF t
  <2>3. Still(s, t) BY <2>1, <2>2, StillSame
  <2>. QED BY <2>3 DEF t
<1>6. Still(s, [s EXCEPT !.active = FALSE])
  <2>. DEFINE t == [s EXCEPT !.active = FALSE]
  <2>1. t \in Objects BY <1>1, InactiveFacts DEF CarriesOn
  <2>2. /\ t.bus = s.bus
        /\ t.setOutputsWaiting = s.setOutputsWaiting
        /\ t.setOutputsSent = s.setOutputsSent
        /\ t.whoSetOutput = s.whoSetOutput
    BY <1>1 DEF Objects
  <2>. HIDE DEF t
  <2>3. Still(s, t) BY <2>1, <2>2, StillSame
  <2>. QED BY <2>3 DEF t
<1>7. Still(s, ActivationError(s))
  <2>. DEFINE t == ActivationError(s)
  <2>1. t \in Objects BY <1>1, ActivationErrorFacts DEF CarriesOn
  <2>2. /\ t.bus = s.bus
        /\ t.setOutputsWaiting = s.setOutputsWaiting
        /\ t.setOutputsSent = s.setOutputsSent
        /\ t.whoSetOutput = s.whoSetOutput
    BY <1>1 DEF ActivationError, Objects
  <2>. HIDE DEF t
  <2>3. Still(s, t) BY <2>1, <2>2, StillSame
  <2>. QED BY <2>3 DEF t
<1>. QED BY <1>2, <1>3, <1>4, <1>5, <1>6, <1>7

\* The end of a command sends no write.
LEMMA ExtraOfWrites ==
  ASSUME UniIInv, Bare(m), NEW i \in DOMAIN m.bus,
         \/ OutputsSet(i) \/ OutputsNotSet(i)
         \/ ConfigWritten(i) \/ ConfigNotWritten(i)
         \/ ForwardOk(i) \/ ForwardFailed(i)
         \/ OutputsResetOk(i) \/ OutputsResetFailed(i)
  PROVE  Extra(Rest(i), m')
<1>. DEFINE s == Rest(i)
            held(c) == [s EXCEPT !.moduleConfig = c]
<1>1. Bare(s) BY BareRest
<1>2. m.bus[i] \in BusCommands BY RestFacts
<1>3. m.moduleConfig \in Configs BY DEF UniIInv, Sound, Kept, Objects
<1>4. CASE OutputsSet(i)
  <2>1. m.bus[i].outputs \in [Ports -> Values]
    BY <1>2, <1>4, CommandFacts DEF OutputsSet, Succeeds, Ends
  <2>2. m' = MtbBusOutputsSet(s, m.bus[i].outputs) BY <1>4 DEF OutputsSet
  <2>. HIDE DEF s
  <2>3. Extra(s, m') BY <1>1, <2>1, <2>2, ExtraOutputsDone
  <2>. QED BY <2>3 DEF s
<1>5. CASE OutputsNotSet(i)
  <2>1. m' = MtbBusOutputsNotSet(s) BY <1>5 DEF OutputsNotSet
  <2>. HIDE DEF s
  <2>2. Extra(s, m') BY <1>1, <2>1, ExtraOutputsDone
  <2>. QED BY <2>2 DEF s
<1>6. CASE ConfigWritten(i) \/ ConfigNotWritten(i)
  <2>1. m.bus[i].kind = "SetConfig"
    BY <1>6 DEF ConfigWritten, ConfigNotWritten, Succeeds, Ends
  <2>2. m.bus[i].config \in Configs BY <1>2, <2>1, CommandFacts
  <2>3. \E c \in Configs :
          m' = MtbBusConfigWritten(held(c)) \/ m' = ConfigDone(held(c), Error)
    BY <1>3, <1>6, <2>2 DEF ConfigWritten, ConfigNotWritten
  <2>4. PICK c \in Configs :
          m' = MtbBusConfigWritten(held(c)) \/ m' = ConfigDone(held(c), Error)
    BY <2>3
  <2>. HIDE DEF s
  <2>5. Still(s, held(c)) BY <1>1, StillField
  <2>. HIDE DEF held
  <2>6. Bare(held(c)) BY <2>5 DEF Still
  <2>7. Extra(held(c), m')
    BY <2>4, <2>6, ExtraConfigWritten, ExtraConfigDone, ResponseTypes
  <2>8. Extra(s, m') BY <2>5, <2>7, StillExtra
  <2>. QED BY <2>8 DEF s
<1>7. CASE \/ ForwardOk(i) \/ ForwardFailed(i)
           \/ OutputsResetOk(i) \/ OutputsResetFailed(i)
  <2>1. \/ m' = Reply(s, m.bus[i].request, Ok)
        \/ m' = SendError(s, m.bus[i].request)
    BY <1>7 DEF ForwardOk, ForwardFailed, OutputsResetOk, OutputsResetFailed
  <2>. HIDE DEF s
  <2>2. Still(s, m') BY <1>1, <2>1, StillReply, StillSendError, ResponseTypes
  <2>3. Extra(s, m') BY <2>2, StillExtra
  <2>. QED BY <2>3 DEF s
<1>. QED BY <1>4, <1>5, <1>6, <1>7

LEMMA ExtraOfActivations ==
  ASSUME UniIInv, Bare(m), NEW i \in DOMAIN m.bus, ActivationStep(i) \/ ActivationFailed(i)
  PROVE  Extra(Rest(i), m')
<1>. DEFINE s == Rest(i)
            held(c) == [s EXCEPT !.moduleConfig = c]
            read(c) == [s EXCEPT !.config = c]
            inputs(t) == Send(t, Cmd("activate: GetInputs"))
            outputs == Send(s, Cmd("activate: ResetOutputs"))
<1>1. Bare(s) BY BareRest
<1>2. m.bus[i] \in BusCommands BY RestFacts
<1>3. m.moduleConfig \in Configs BY DEF UniIInv, Sound, Kept, Objects
<1>4. m.bus[i].kind = "activate: SetConfig" => m.bus[i].config \in Configs
  BY <1>2, CommandFacts
<1>5. \/ \E c \in Configs : \/ m' = inputs(held(c))
                            \/ m' = inputs(read(c))
                            \/ m' = ActivationError(held(c))
      \/ m' = inputs(s)
      \/ m' = outputs
      \/ m' = OutputsReset(s)
  <2>1. CASE ActivationStep(i)
    BY <1>3, <1>4, <2>1 DEF ActivationStep, Succeeds, Ends
  <2>2. CASE ActivationFailed(i)
    BY <1>3, <1>4, <2>2 DEF ActivationFailed
  <2>. QED BY <2>1, <2>2
<1>. HIDE DEF s
<1>6. ASSUME NEW t, Still(s, t) PROVE Extra(s, inputs(t))
  <2>1. Extra(t, inputs(t)) BY <1>6, ExtraCmd DEF Still
  <2>. HIDE DEF inputs
  <2>. QED BY <1>6, <2>1, StillExtra
<1>7. ASSUME NEW c \in Configs
      PROVE  /\ Extra(s, inputs(held(c))) /\ Extra(s, inputs(read(c)))
             /\ Extra(s, ActivationError(held(c)))
  <2>1. Still(s, held(c)) /\ Still(s, read(c)) BY <1>1, StillField
  <2>. HIDE DEF held, read
  <2>2. Still(held(c), ActivationError(held(c))) BY <2>1, StillField DEF Still
  <2>3. Extra(s, ActivationError(held(c))) BY <2>1, <2>2, StillExtra
  <2>. QED BY <1>6, <2>1, <2>3
<1>8. Extra(s, inputs(s)) BY <1>1, <1>6, StillSelf
<1>9. Extra(s, outputs) BY <1>1, ExtraCmd
<1>10. Extra(s, OutputsReset(s)) BY <1>1, StillOutputsReset, StillExtra
<1>. HIDE DEF held, read, inputs, outputs
<1>11. Extra(s, m') BY <1>5, <1>7, <1>8, <1>9, <1>10
<1>. QED BY <1>11 DEF s

LEMMA ExtraOfReboots ==
  ASSUME UniIInv, Bare(m), NEW i \in DOMAIN m.bus, NEW b \in BOOLEAN,
         \/ RebootAck(i) \/ RebootError(i)
         \/ RebootGotInfo(i, b) \/ ModuleGotInfo(i, b) \/ ModuleNoInfo(i)
  PROVE  Extra(Rest(i), m')
<1>. DEFINE s == Rest(i)
            n == m.bus[i].attempts
<1>1. Bare(s) BY BareRest
<1>2. s \in Objects BY <1>1 DEF Bare
<1>3. CASE RebootAck(i)
  <2>1. m' = [s EXCEPT !.timers["reboot"] = @ + 1] BY <1>3 DEF RebootAck
  <2>. HIDE DEF s
  <2>2. Still(s, m') BY <1>1, <2>1, StillField
  <2>. QED BY <2>2, StillExtra DEF s
<1>4. CASE RebootError(i)
  <2>1. m' = RebootFailed(s) BY <1>4 DEF RebootError
  <2>. HIDE DEF s
  <2>2. Still(s, m') BY <1>1, <2>1, StillRebootFailed
  <2>. QED BY <2>2, StillExtra DEF s
<1>5. CASE RebootGotInfo(i, b) \/ ModuleGotInfo(i, b)
  <2>1. m' = MtbBusActivate(s, b) BY <1>5 DEF RebootGotInfo, ModuleGotInfo
  <2>. HIDE DEF s
  <2>2. Extra(s, m') BY <1>1, <2>1, ExtraActivate
  <2>. QED BY <2>2 DEF s
<1>6. CASE ModuleNoInfo(i)
  <2>1. m.bus[i].kind = "ModuleInfo" BY <1>6 DEF ModuleNoInfo, Ends
  <2>2. m' = IF n > 0 THEN [s EXCEPT !.attempts[n] = @ + 1] ELSE s
    BY <1>6 DEF ModuleNoInfo
  <2>3. n \in 0 .. ATTEMPTS /\ ATTEMPTS \in Nat
    BY <2>1, RestFacts, CommandFacts, MtbUniAssumption
  <2>4. s.attempts \in [1 .. ATTEMPTS -> Nat] BY <1>2 DEF Objects
  <2>. HIDE DEF s, n
  <2>5. CASE n > 0
    <3>1. n \in 1 .. ATTEMPTS /\ s.attempts[n] + 1 \in Nat BY <2>3, <2>4, <2>5
    <3>. DEFINE k == s.attempts[n] + 1
    <3>2. m' = [s EXCEPT !.attempts[n] = k] BY <2>2, <2>5
    <3>. HIDE DEF k
    <3>3. k \in Nat BY <3>1 DEF k
    <3>4. Still(s, m') BY <1>1, <3>1, <3>2, <3>3, StillField
    <3>. QED BY <3>4, StillExtra DEF s
  <2>6. CASE ~(n > 0)
    <3>1. m' = s BY <2>2, <2>6
    <3>2. Extra(s, m') BY <1>1, <3>1, StillSelf, StillExtra
    <3>. QED BY <3>2 DEF s
  <2>. QED BY <2>5, <2>6
<1>. QED BY <1>3, <1>4, <1>5, <1>6

LEMMA ExtraOfUpgrades ==
  ASSUME UniIInv, Bare(m), NEW i \in DOMAIN m.bus, NEW b \in BOOLEAN,
         \/ FwUpgdReqAck(i) \/ FwUpgdWritten(i) \/ FwUpgdFailed(i)
         \/ FwUpgdInfo(i, b) \/ FwUpgdStatus(i, b)
  PROVE  Extra(Rest(i), m')
<1>. DEFINE s == Rest(i)
            block == m.bus[i].block
<1>1. Bare(s) BY BareRest
<1>2. CASE FwUpgdReqAck(i)
  <2>1. m' = [s EXCEPT !.timers["fwUpgdReqAck"] = @ + 1] BY <1>2 DEF FwUpgdReqAck
  <2>. HIDE DEF s
  <2>2. Still(s, m') BY <1>1, <2>1, StillField
  <2>. QED BY <2>2, StillExtra DEF s
<1>3. CASE FwUpgdWritten(i)
  <2>. DEFINE t == [s EXCEPT !.flash = @ \cup {block}]
  <2>1. m.bus[i].kind = "FwWriteFlash" BY <1>3 DEF FwUpgdWritten, Succeeds, Ends
  <2>2. block \in 1 .. Blocks BY <2>1, RestFacts, CommandFacts
  <2>3. m' = Send(t, Cmd("FwWriteFlashStatusRequest"))
    BY <1>3 DEF FwUpgdWritten, FwUpgdGetStatus
  <2>. HIDE DEF s, block
  <2>4. Still(s, t) BY <1>1, <2>2, StillField
  <2>. HIDE DEF t
  <2>5. Extra(t, m') BY <2>3, <2>4, ExtraCmd DEF Still
  <2>6. Extra(s, m') BY <2>4, <2>5, StillExtra
  <2>. QED BY <2>6 DEF s
<1>4. CASE FwUpgdFailed(i)
  <2>1. m' = FwUpgdError(s) BY <1>4 DEF FwUpgdFailed
  <2>. HIDE DEF s
  <2>2. Still(s, m') BY <1>1, <2>1, StillFwUpgdError
  <2>. QED BY <2>2, StillExtra DEF s
<1>5. CASE FwUpgdInfo(i, b) \/ FwUpgdStatus(i, b)
  <2>1. m' = FwUpgdGotInfo(s, b) \/ m' = FwUpgdGotStatus(s, b)
    BY <1>5 DEF FwUpgdInfo, FwUpgdStatus
  <2>. HIDE DEF s
  <2>2. Extra(s, m') BY <1>1, <2>1, ExtraGotInfo, ExtraGotStatus
  <2>. QED BY <2>2 DEF s
<1>. QED BY <1>2, <1>3, <1>4, <1>5

LEMMA ExtraCallback ==
  ASSUME UniIInv, Bare(m), NEW i \in DOMAIN m.bus,
         \/ Callback(i)
         \/ \E b \in BOOLEAN : ModuleGotInfo(i, b)
         \/ ModuleNoInfo(i)
  PROVE  Extra(Rest(i), m')
<1>1. CASE \/ OutputsSet(i) \/ OutputsNotSet(i)
           \/ ConfigWritten(i) \/ ConfigNotWritten(i)
           \/ ForwardOk(i) \/ ForwardFailed(i)
           \/ OutputsResetOk(i) \/ OutputsResetFailed(i)
  BY <1>1, ExtraOfWrites
<1>2. CASE ActivationStep(i) \/ ActivationFailed(i)
  BY <1>2, ExtraOfActivations
<1>3. CASE \E b \in BOOLEAN :
             \/ RebootAck(i) \/ RebootError(i)
             \/ RebootGotInfo(i, b) \/ ModuleGotInfo(i, b) \/ ModuleNoInfo(i)
  BY <1>3, ExtraOfReboots
<1>4. CASE \E b \in BOOLEAN :
             \/ FwUpgdReqAck(i) \/ FwUpgdWritten(i) \/ FwUpgdFailed(i)
             \/ FwUpgdInfo(i, b) \/ FwUpgdStatus(i, b)
  BY <1>4, ExtraOfUpgrades
<1>5. TRUE \in BOOLEAN OBVIOUS
<1>. QED BY <1>1, <1>2, <1>3, <1>4, <1>5, Zenon DEF Callback

LEMMA ExtraActivateModule ==
  ASSUME NEW s, Bare(s), NEW n \in 0 .. ATTEMPTS
  PROVE  Extra(s, ActivateModule(s, n))
<1>. DEFINE c == [kind |-> "ModuleInfo", attempts |-> n]
<1>1. c \in BusCommands /\ c.kind \notin Writes BY DEF BusCommands, Writes
<1>2. ActivateModule(s, n) = Send(s, c) BY DEF ActivateModule
<1>. HIDE DEF c
<1>. QED BY <1>1, <1>2, ExtraSend

\* A request sends no write but that for a configuration.
LEMMA ExtraRequest ==
  ASSUME UniIInv, Bare(m), NEW r \in Requests,
         \/ JsonUpgradeFw(r) \/ JsonReboot(r) \/ JsonSetAddress(r) \/ JsonBeacon(r)
  PROVE  Extra(m, m')
<1>. DEFINE t == FwUpgradeAccepted(m, r)
            c == [kind |-> "Forward", request |-> r]
<1>1. m \in Objects BY DEF Bare
<1>2. Still(m, SendError(m, r)) BY StillSendError
<1>3. CASE JsonUpgradeFw(r)
  <2>1. m' \in {SendError(m, r), FwUpgdInit(t), t} BY <1>3 DEF JsonUpgradeFw
  <2>2. Still(m, t)
    <3>. DEFINE u == [m EXCEPT !.fwUpgrading = r]
                v == [m EXCEPT !.fwUpgrading = r, !.data = Blocks, !.flash = {}]
    <3>1. t \in {SendError(u, r), v} BY DEF FwUpgradeAccepted
    <3>2. u \in Objects /\ v \in Objects
      BY <1>1, UpgradeOfFacts, AcceptedFacts DEF CarriesOn
    <3>3. /\ u.bus = m.bus /\ v.bus = m.bus
          /\ u.setOutputsWaiting = m.setOutputsWaiting
          /\ u.setOutputsSent = m.setOutputsSent
          /\ u.whoSetOutput = m.whoSetOutput
          /\ v.setOutputsWaiting = m.setOutputsWaiting
          /\ v.setOutputsSent = m.setOutputsSent
          /\ v.whoSetOutput = m.whoSetOutput
      BY <1>1 DEF Objects
    <3>. HIDE DEF t, u, v
    <3>4. Still(m, u) /\ Still(m, v) BY <3>2, <3>3, StillSame
    <3>5. Still(u, SendError(u, r)) BY <3>4, StillSendError DEF Still
    <3>. QED BY <3>1, <3>4, <3>5, StillExtra
  <2>. HIDE DEF t
  <2>3. Extra(t, FwUpgdInit(t)) BY <2>2, ExtraGotInfo DEF Still
  <2>. QED BY <1>2, <2>1, <2>2, <2>3, StillExtra
<1>4. CASE JsonReboot(r)
  <2>1. m' \in {SendError(m, r), Reboot(m, r)} BY <1>4 DEF JsonReboot
  <2>. QED BY <1>2, <2>1, ExtraReboot, StillExtra
<1>5. CASE JsonSetAddress(r) \/ JsonBeacon(r)
  <2>1. m' \in {SendError(m, r), Send(m, c)} BY <1>5 DEF JsonSetAddress, JsonBeacon
  <2>2. c \in BusCommands /\ c.kind \notin Writes BY DEF BusCommands, Writes
  <2>. HIDE DEF c
  <2>3. Extra(m, Send(m, c)) BY <2>2, ExtraSend
  <2>. QED BY <1>2, <2>1, <2>3, StillExtra
<1>. QED BY <1>3, <1>4, <1>5

LEMMA ExtraTimer ==
  ASSUME UniIInv, Bare(m), FwUpgdReqTimer \/ RebootTimer \/ ReactivateTick \/ Daemon
  PROVE  Extra(m, m')
<1>1. m \in Objects BY DEF Bare
<1>2. Still(m, m) BY StillSelf
<1>3. CASE FwUpgdReqTimer \/ RebootTimer
  <2>1. PICK x \in {"fwUpgdReqAck", "reboot"}, k \in {"fw: ModuleInfo", "reboot: ModuleInfo"} :
           /\ m.timers[x] > 0
           /\ m' \in {Expired(x), Send(Expired(x), Cmd(k))}
    BY <1>3 DEF FwUpgdReqTimer, RebootTimer, Expires
  <2>2. Still(m, Expired(x)) BY <2>1, StillField DEF Expired
  <2>3. Extra(Expired(x), Send(Expired(x), Cmd(k))) BY <2>2, ExtraCmd DEF Still
  <2>. QED BY <2>1, <2>2, <2>3, StillExtra
<1>4. CASE ReactivateTick
  BY <1>4, ExtraActivate DEF ReactivateTick
<1>5. ASSUME NEW n \in 1 .. ATTEMPTS, AttemptTimer(n) PROVE Extra(m, m')
  <2>. DEFINE k == m.attempts[n] - 1
              t == [m EXCEPT !.attempts[n] = k]
  <2>1. m' \in {ActivateModule(t, n - 1), t} BY <1>5 DEF AttemptTimer
  <2>2. m.attempts[n] \in Nat BY <1>1 DEF Objects
  <2>3. k \in Nat BY <1>5, <2>2 DEF AttemptTimer
  <2>4. n - 1 \in 0 .. ATTEMPTS BY MtbUniAssumption
  <2>. HIDE DEF k
  <2>5. Still(m, t) BY <2>3, StillField
  <2>. HIDE DEF t
  <2>6. Extra(t, ActivateModule(t, n - 1)) BY <2>4, <2>5, ExtraActivateModule DEF Still
  <2>. QED BY <2>1, <2>5, <2>6, StillExtra
<1>6. CASE MtbUsbGotModules \/ MtbUsbOnNewModule
  <2>1. m' \in {m, ActivateModule(m, ATTEMPTS)}
    BY <1>6 DEF MtbUsbGotModules, MtbUsbOnNewModule
  <2>2. ATTEMPTS \in 0 .. ATTEMPTS BY MtbUniAssumption
  <2>. QED BY <1>2, <2>1, <2>2, ExtraActivateModule, StillExtra
<1>7. CASE MtbUsbOnModuleFail
  BY <1>7, StillMtbBusLost, StillExtra DEF MtbUsbOnModuleFail
<1>8. CASE Connect \/ Disconnect
  <2>1. m' = m BY <1>8 DEF Connect, Disconnect
  <2>. QED BY <1>2, <2>1, StillExtra
<1>9. CASE MtbUsbDisconnected
  <2>. DEFINE t == [m EXCEPT !.active = FALSE]
  <2>1. m' = AllOutputsReset(t) BY <1>9 DEF MtbUsbDisconnected
  <2>2. Still(m, t) BY StillField
  <2>. HIDE DEF t
  <2>3. Still(t, m') BY <2>1, <2>2, StillOutputsReset DEF Still
  <2>. QED BY <2>2, <2>3, StillExtra
<1>. QED BY <1>3, <1>4, <1>5, <1>6, <1>7, <1>8, <1>9 DEF Daemon

Alone == Bare(m) /\ OneWrite

LEMMA AloneNext ==
  ASSUME Bare(m'), Single(m'.bus, Writes)
  PROVE  Alone'
<1>1. Bare(m)' BY DEF Bare, Objects, BusCommands, Responses
<1>2. OneWrite' BY DEF OneWrite, Single, Writes
<1>. QED BY <1>1, <1>2 DEF Alone

\* One more command that is no write leaves one write.
LEMMA ExtraKeepsOne ==
  ASSUME NEW s, Bare(s), Single(s.bus, Writes), Extra(s, m')
  PROVE  Alone'
<1>1. s.bus \in Seq(BusCommands) BY DEF Bare, Objects
<1>2. CASE m'.bus = s.bus
  BY <1>2, AloneNext DEF Extra
<1>3. ASSUME NEW c \in BusCommands, c.kind \notin Writes, m'.bus = Append(s.bus, c)
      PROVE  Alone'
  <2>1. Single(Append(s.bus, c), Writes) BY <1>1, <1>3, HasAppend
  <2>. QED BY <1>3, <2>1, AloneNext DEF Extra
<1>. QED BY <1>2, <1>3 DEF Extra

LEMMA AloneJsonSetConfig ==
  ASSUME UniIInv, Upgrades(m, "nothing"), Alone, NEW r \in Requests, JsonSetConfig(r)
  PROVE  Alone'
<1>. DEFINE t == [m EXCEPT !.configToWrite = NewConfig[r], !.configWriting = r]
            c == [kind |-> "SetConfig", config |-> NewConfig[r]]
            u == Send(t, c)
<1>1. Bare(m) /\ Single(m.bus, Writes) BY DEF Alone, OneWrite
<1>2. m \in Objects BY <1>1 DEF Bare
<1>3. \/ m' = SendError(m, r)
      \/ m' \in {u, MtbBusConfigWritten(t)} /\ m.configWriting = None
  BY DEF JsonSetConfig, Upgrading
<1>4. NewConfig[r] \in Configs BY MtbUniAssumption
<1>5. t \in Objects
  <2>1. Shaped(t) BY <1>2, ObjectShape, Zenon DEF Shaped
  <2>2. Typed(t) BY <1>2, <1>4 DEF Typed, Objects
  <2>. HIDE DEF t
  <2>. QED BY <2>1, <2>2, ObjectType
<1>6. /\ t.bus = m.bus
      /\ t.setOutputsWaiting = m.setOutputsWaiting
      /\ t.setOutputsSent = m.setOutputsSent
      /\ t.whoSetOutput = m.whoSetOutput
  BY <1>2 DEF Objects
<1>7. c \in BusCommands BY <1>4 DEF BusCommands
<1>. HIDE DEF t, c
<1>8. Still(m, t) /\ Bare(t) BY <1>1, <1>5, <1>6, StillSame DEF Still
<1>9. CASE m' = SendError(m, r)
  BY <1>1, <1>9, StillSendError, StillExtra, ExtraKeepsOne
<1>10. CASE m' = MtbBusConfigWritten(t)
  BY <1>1, <1>6, <1>8, <1>10, ExtraConfigWritten, ExtraKeepsOne
<1>11. CASE m' = u /\ m.configWriting = None
  <2>1. ~Has(m.bus, Writes) BY <1>1, <1>11 DEF Upgrades, Pending, Bare
  <2>2. t.bus \in Seq(BusCommands) BY <1>5 DEF Objects
  <2>3. Single(Append(t.bus, c), Writes) BY <1>1, <1>6, <1>7, <2>1, <2>2, HasAppend
  <2>4. /\ u.bus = Append(t.bus, c)
        /\ u.setOutputsWaiting = t.setOutputsWaiting
        /\ u.setOutputsSent = t.setOutputsSent
        /\ u.whoSetOutput = t.whoSetOutput
    BY <1>5 DEF Send, Objects
  <2>5. u \in Objects BY <1>5, <1>7, SentFacts
  <2>. HIDE DEF u
  <2>6. Bare(u) BY <1>8, <2>4, <2>5 DEF Bare
  <2>. QED BY <1>11, <2>3, <2>4, <2>6, AloneNext
<1>. QED BY <1>3, <1>9, <1>10, <1>11

LEMMA InitAlone == Init => Alone
<1> SUFFICES ASSUME Init PROVE Alone
  OBVIOUS
<1>1. PICK file \in InitConfigs, factory \in Configs :
        m = [f \in DOMAIN NewModule \cup DOMAIN NewUni(file, factory) |->
                IF f \in DOMAIN NewModule THEN NewModule[f]
                ELSE NewUni(file, factory)[f]]
  BY DEF Init
<1>2. m.bus = <<>> /\ m.setOutputsWaiting = <<>> /\ m.setOutputsSent = <<>>
      /\ m.whoSetOutput = Unset
  BY <1>1 DEF NewModule, NewUni
<1>3. m \in Objects BY InitUniIInv DEF UniIInv, Sound, Kept
<1>4. OneWrite BY <1>2 DEF OneWrite, Single
<1>. QED BY <1>2, <1>3, <1>4 DEF Alone, Bare

\* The outputs of nobody are not reset.
LEMMA NothingToReset ==
  ASSUME NEW s, s.whoSetOutput = Unset, NEW socket, NEW r
  PROVE  ClientResetOutputs(s, socket, r) = Reply(s, r, Ok)
<1>. DEFINE setters == {s.whoSetOutput[p] : p \in Ports} \ {Nobody}
<1>1. setters = {} BY DEF Unset
<1>2. Cardinality(setters) = 0 BY <1>1, FS_EmptySet
<1>3. ~(Cardinality(setters) >= 2) BY <1>2
<1>4. setters # {socket} BY <1>1
<1>. QED BY <1>3, <1>4 DEF ClientResetOutputs

\* A client that leaves is forgotten, but not what it asked for.
LEMMA UpgradesLeft ==
  ASSUME NEW s \in Objects, Upgrades(s, "nothing"), NEW socket
  PROVE  LET t == ModuleClientDisconnected(s, socket)
         IN /\ t \in Objects
            /\ Upgrades(t, "nothing")
            /\ SameReboot(s, t)
            /\ t.setOutputsWaiting = s.setOutputsWaiting
            /\ t.setOutputsSent = s.setOutputsSent
            /\ t.whoSetOutput = s.whoSetOutput
            /\ t.replies = s.replies
<1>. DEFINE forget(r) == IF r \in Requests /\ Socket[r] = socket THEN Nobody ELSE r
            c == forget(s.configWriting)
            u == forget(s.fwUpgrading)
            t == [s EXCEPT !.configWriting = c, !.fwUpgrading = u]
<1>1. ModuleClientDisconnected(s, socket) = t
  BY DEF ModuleClientDisconnected, Objects
<1>2. t \in Objects BY <1>1, ModuleClientDisconnectedFacts DEF CarriesOn
<1>3. Nobody # None /\ Nobody \notin Requests /\ None \notin Requests
  BY RequestNames DEF None, Nobody
<1>4. \A r : /\ forget(r) = None <=> r = None
             /\ forget(r) \in Requests => forget(r) = r
  BY <1>3
<1>5. /\ c = None <=> s.configWriting = None
      /\ c \in Requests => c = s.configWriting
      /\ u = None <=> s.fwUpgrading = None
      /\ u \in Requests => u = s.fwUpgrading
  BY <1>4
<1>. HIDE DEF c, u
<1>6. /\ SameReboot(s, t)
      /\ t.configWriting = c
      /\ t.fwUpgrading = u
      /\ t.data = s.data
      /\ t.toWrite = s.toWrite
      /\ t.flash = s.flash
      /\ t.fault = s.fault
      /\ t.setOutputsWaiting = s.setOutputsWaiting
      /\ t.setOutputsSent = s.setOutputsSent
      /\ t.whoSetOutput = s.whoSetOutput
      /\ t.replies = s.replies
  BY DEF Objects, SameReboot
<1>. HIDE DEF t
<1>7. OneChain(t, "nothing")
  BY <1>5, <1>6 DEF Upgrades, OneChain, Chained, SameReboot
<1>8. Pending(t) /\ t.fault \in Excused
  BY <1>5, <1>6 DEF Upgrades, Pending, SameReboot
<1>9. Placed(t) BY <1>5, <1>6 DEF Upgrades, Placed, SameReboot
<1>10. RebootAlone(t, "nothing") BY <1>6, SameRebootAlone DEF Upgrades
<1>11. NotActivated(t, "nothing")
  BY <1>5, <1>6 DEF Upgrades, NotActivated, Busied, Chained, NoAttempts, SameReboot
<1>12. Flashed(t, "nothing") BY <1>5, <1>6 DEF Upgrades, Flashed, SameReboot
<1>13. Upgrades(t, "nothing")
  BY <1>7, <1>8, <1>9, <1>10, <1>11, <1>12 DEF Upgrades
<1>. QED BY <1>1, <1>2, <1>6, <1>13

\* Nothing was set that a client could give up, or leave behind.
LEMMA StillResetMyOutputs ==
  ASSUME Bare(m), Upgrades(m, "nothing"), NEW r \in Requests, ResetMyOutputs(r)
  PROVE  /\ Upgrades(m', "nothing") /\ Silent(m, m') /\ Adds(m, m')
         /\ Still(m, m')
<1>1. m \in Objects /\ m.whoSetOutput = Unset BY DEF Bare
<1>2. m' = Reply(m, r, Ok) BY <1>1, NothingToReset DEF ResetMyOutputs
<1>3. Kind[r] # "module_upgrade_fw" BY DEF ResetMyOutputs, Receive
<1>4. Upgrades(m', "nothing") /\ Silent(m, m')
  BY <1>1, <1>2, <1>3, UpgradesReply, ResponseTypes
<1>5. Adds(m, m') BY <1>1, <1>2, KeepsReply, KeepsAdds, ResponseTypes
<1>6. Still(m, m') BY <1>2, StillReply, ResponseTypes
<1>. QED BY <1>4, <1>5, <1>6

LEMMA StillClientDisconnected ==
  ASSUME Bare(m), Upgrades(m, "nothing"),
         NEW socket \in clients, ClientDisconnected(socket)
  PROVE  /\ Upgrades(m', "nothing") /\ Silent(m, m') /\ Adds(m, m')
         /\ Still(m, m')
<1>. DEFINE t == ModuleClientDisconnected(m, socket)
<1>1. m \in Objects /\ m.whoSetOutput = Unset BY DEF Bare
<1>2. /\ t \in Objects
      /\ Upgrades(t, "nothing")
      /\ SameReboot(m, t)
      /\ t.setOutputsWaiting = m.setOutputsWaiting
      /\ t.setOutputsSent = m.setOutputsSent
      /\ t.whoSetOutput = m.whoSetOutput
      /\ t.replies = m.replies
  BY <1>1, UpgradesLeft
<1>3. m' = ClientResetOutputs(t, socket, Nobody) BY DEF ClientDisconnected
<1>. HIDE DEF t
<1>4. m' = t BY <1>1, <1>2, <1>3, NothingToReset DEF Reply
<1>5. Silent(m, t) BY <1>2, SilentSame
<1>6. Adds(m, t) BY <1>1, <1>2, KeepsSame, KeepsAdds
<1>7. Still(m, t) BY <1>2, StillSame DEF SameReboot
<1>. QED BY <1>2, <1>4, <1>5, <1>6, <1>7

LEMMA NextUpInv ==
  ASSUME Undisturbed, UniIInv, UpInv, Alone, [Next]_vars
  PROVE  UpInv' /\ Complete(m, m')
<1>0. m \in Objects BY DEF UniIInv, Sound, Kept
<1>1. AllThere /\ Upgrades(m, "nothing") /\ NotListed BY DEF UpInv
<1>2. ClosedAtFirst /\ "overlap" \notin Events
  BY DEF Undisturbed, ClosedAtFirst
<1>a. Bare(m) /\ OneWrite BY DEF Alone
<1>3. ASSUME NEW r \in Requests, Request(r)
      PROVE  UpInv' /\ Complete(m, m')
  <2>1. Ready /\ UNCHANGED <<port, listed, clients>>
    BY <1>3 DEF Request, JsonSetOutput, JsonSetConfig, JsonUpgradeFw, JsonReboot,
         JsonSetAddress, JsonBeacon, ResetMyOutputs, Receive
  <2>3. Upgrades(m', "nothing") /\ Silent(m, m') /\ Adds(m, m')
    BY <1>1, <1>2, <1>3, <1>a, UpgradesRequest, StillResetMyOutputs
  <2>4. NotListed' BY <1>1, <1>2, <2>1, <2>3, NotListedRequest
  <2>5. UpInv' BY <1>1, <2>1, <2>3, <2>4, UpNext
  <2>. QED BY <1>0, <2>3, <2>5, SilentIsComplete
<1>4. ASSUME NEW socket \in clients, ClientDisconnected(socket)
      PROVE  UpInv' /\ Complete(m, m')
  <2>1. Upgrades(m', "nothing") /\ Silent(m, m') /\ Adds(m, m')
    BY <1>1, <1>4, <1>a, StillClientDisconnected
  <2>2. "leave" \in Events /\ Ready /\ UNCHANGED <<port, listed>>
    BY <1>4 DEF ClientDisconnected
  <2>3. NotListed' BY <1>1, <1>2, <2>1, <2>2, NotListedRequest
  <2>4. AllThere' BY <2>2 DEF AllThere
  <2>5. Upgrades(m, "nothing")' BY <2>1, UpgradesNext
  <2>6. UpInv' BY <2>3, <2>4, <2>5 DEF UpInv
  <2>. QED BY <1>0, <2>1, <2>6, SilentIsComplete
<1>5. ASSUME NEW i \in DOMAIN m.bus,
             \/ Callback(i)
             \/ \E b \in BOOLEAN : ModuleGotInfo(i, b)
             \/ ModuleNoInfo(i)
      PROVE  UpInv' /\ Complete(m, m')
  <2>1. UNCHANGED daemon
    BY <1>5 DEF Callback, OutputsSet, OutputsNotSet, ConfigWritten, ConfigNotWritten,
         ForwardOk, ForwardFailed, OutputsResetOk, OutputsResetFailed, ActivationStep,
         ActivationFailed, RebootAck, RebootError, FwUpgdReqAck, FwUpgdWritten,
         FwUpgdFailed, RebootGotInfo, FwUpgdInfo, FwUpgdStatus, ModuleGotInfo,
         ModuleNoInfo, Succeeds, Ends
  <2>2. UNCHANGED clients BY <2>1 DEF daemon
  <2>3. Upgrades(m', "nothing") /\ Complete(m, m') BY <1>1, <1>5, <1>a, UpgradesCallback
  <2>4. NotListed' BY <1>1, <1>5, <2>1, NotListedCallback
  <2>. QED BY <1>1, <2>2, <2>3, <2>4, UpNext
<1>6. CASE FwUpgdReqTimer \/ RebootTimer \/ ReactivateTick \/ Daemon
  <2>1. UNCHANGED clients
    BY <1>6 DEF FwUpgdReqTimer, RebootTimer, ReactivateTick, Daemon, MtbUsbGotModules,
         MtbUsbOnNewModule, AttemptTimer, MtbUsbOnModuleFail, Connect, Disconnect,
         MtbUsbDisconnected, Expires, daemon
  <2>2. Upgrades(m', "nothing") /\ Silent(m, m') BY <1>1, <1>6, UpgradesTimer DEF Right
  <2>3. NotListed' BY <1>1, <1>2, <1>6, NotListedTimer
  <2>4. UpInv' BY <1>1, <2>1, <2>2, <2>3, UpNext
  <2>. QED BY <1>0, <2>2, <2>4, SilentIsComplete
<1>7. CASE Faulty \/ UNCHANGED vars
  <2>1. m' = m /\ UNCHANGED <<clients, port, listed>> BY <1>7 DEF Faulty, vars
  <2>2. Silent(m, m') BY <2>1 DEF Silent
  <2>3. NotListed' BY <1>1, <2>1 DEF NotListed
  <2>4. UpInv' BY <1>1, <2>1, <2>3, UpNext
  <2>. QED BY <1>0, <2>2, <2>4, SilentIsComplete
<1>. QED BY <1>3, <1>4, <1>5, <1>6, <1>7, Zenon DEF Next

LEMMA NextAlone ==
  ASSUME NoneSetsOutputs, UniIInv, UpInv, Alone, [Next]_vars
  PROVE  Alone'
<1>1. Bare(m) /\ Single(m.bus, Writes) BY DEF Alone, OneWrite
<1>2. ASSUME NEW r \in Requests, Request(r) PROVE Alone'
  <2>1. Kind[r] # "module_set_outputs" BY DEF NoneSetsOutputs
  <2>2. ~JsonSetOutput(r) BY <2>1 DEF JsonSetOutput, Receive
  <2>5. CASE ResetMyOutputs(r)
    BY <1>1, <2>5, StillResetMyOutputs, StillExtra, ExtraKeepsOne DEF UpInv
  <2>3. CASE JsonSetConfig(r)
    BY <2>3, AloneJsonSetConfig DEF UpInv
  <2>4. CASE \/ JsonUpgradeFw(r) \/ JsonReboot(r)
             \/ JsonSetAddress(r) \/ JsonBeacon(r)
    BY <1>1, <2>4, ExtraRequest, ExtraKeepsOne
  <2>. QED BY <1>2, <2>2, <2>3, <2>4, <2>5 DEF Request
<1>3. ASSUME NEW socket \in clients, ClientDisconnected(socket) PROVE Alone'
  BY <1>1, <1>3, StillClientDisconnected, StillExtra, ExtraKeepsOne DEF UpInv
<1>4. ASSUME NEW i \in DOMAIN m.bus,
             \/ Callback(i)
             \/ \E b \in BOOLEAN : ModuleGotInfo(i, b)
             \/ ModuleNoInfo(i)
      PROVE  Alone'
  <2>1. m \in Objects /\ m.bus \in Seq(BusCommands) BY <1>1 DEF Bare, Objects
  <2>2. Bare(Rest(i)) BY <1>1, BareRest
  <2>3. Rest(i).bus = RemoveAt(m.bus, i) BY <2>1, RestWork
  <2>4. Single(RemoveAt(m.bus, i), Writes) BY <1>1, <2>1, HasRemoved
  <2>5. Extra(Rest(i), m') BY <1>1, <1>4, ExtraCallback
  <2>. QED BY <2>2, <2>3, <2>4, <2>5, ExtraKeepsOne
<1>5. CASE FwUpgdReqTimer \/ RebootTimer \/ ReactivateTick \/ Daemon
  BY <1>1, <1>5, ExtraTimer, ExtraKeepsOne
<1>6. CASE Faulty \/ UNCHANGED vars
  <2>1. m' = m BY <1>6 DEF Faulty, vars
  <2>2. Bare(m') /\ Single(m'.bus, Writes) BY <1>1, <2>1
  <2>. QED BY <2>2, AloneNext
<1>. QED BY <1>2, <1>3, <1>4, <1>5, <1>6, Zenon DEF Next

LEMMA NextUpAlone ==
  ASSUME Undisturbed, NoneSetsOutputs, UniIInv, UpInv, Alone, [Next]_vars
  PROVE  UpInv' /\ Alone' /\ Complete(m, m')
BY NextUpInv, NextAlone

\* While a module is upgraded it gets no configuration, and its blocks are
\* written one after another.  An upgrade is begun at once or by the end of the
\* write that it waited for; as long as no outputs are set, jsonSetConfig and
\* jsonUpgradeFw see to it that there is one write to wait for and one upgrade
\* to begin, in whatever order the clients ask for upgrades, reboots,
\* configurations and commands that are passed on, however the commands end,
\* and whichever clients leave.
THEOREM UpgradesAreAlone ==
  ASSUME Undisturbed, NoneSetsOutputs
  PROVE  Spec => []UpgradeAlone
<1>1. UniIInv /\ [Next]_vars => UniIInv' BY NextUniIInv
<1>2. UniIInv /\ UpInv /\ Alone /\ [Next]_vars => UpInv' /\ Alone' BY NextUpAlone
<1>. QED BY <1>1, <1>2, InitUniIInv, InitUpInv, InitAlone, UpInvAlone, PTL DEF Spec

\* Then an upgrade is answered "ok" only when the module holds every block and
\* runs the firmware, not its bootloader (fwUpgdRebooted after the reboot that
\* the last block leads to); that of a client that left is carried on, and
\* nobody is told.
THEOREM UpgradesAreComplete ==
  ASSUME Undisturbed, NoneSetsOutputs
  PROVE  Spec => UpgradeOkIsComplete
<1>. DEFINE Done == \A r \in Requests :
              Kind[r] = "module_upgrade_fw" /\ Ok \in ToSet(m'.replies[r])
                  /\ m.replies[r] = <<>>
                => m'.flash = 1 .. Blocks /\ m'.active /\ ~m'.inBootloader
<1>1. UniIInv /\ [Next]_vars => UniIInv' BY NextUniIInv
<1>2. UniIInv /\ UpInv /\ Alone /\ [Next]_vars => UpInv' /\ Alone' BY NextUpAlone
<1>3. UniIInv /\ UpInv /\ Alone /\ [Next]_vars => [Done]_vars
  BY NextUpAlone DEF Complete
<1>4. Spec => [][Done]_vars
  <2>. HIDE DEF Done
  <2>. QED BY <1>1, <1>2, <1>3, InitUniIInv, InitUpInv, InitAlone, PTL DEF Spec
<1>. QED BY <1>4 DEF UpgradeOkIsComplete

\* If no client leaves either, no undefined behaviour is reached and nothing
\* throws where nothing catches it: fwUpgdError, fwUpgdGotStatus and sendError
\* find the upgrade, the block and the client that they take for granted.
THEOREM UndisturbedNoFault ==
  ASSUME Undisturbed, NoneSetsOutputs, "leave" \notin Events
  PROVE  Spec => []NoFault
<1>1. UniIInv /\ [Next]_vars => UniIInv' BY NextUniIInv
<1>2. UniIInv /\ UpInv /\ Alone /\ [Next]_vars => UpInv' /\ Alone' BY NextUpAlone
<1>3. UpInv => NoFault BY DEF UpInv, Upgrades, Excused, NoFault
<1>. QED BY <1>1, <1>2, <1>3, InitUniIInv, InitUpInv, InitAlone, PTL DEF Spec
=============================================================================
