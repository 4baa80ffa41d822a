----------------------------- MODULE ModuleData -----------------------------
(***************************************************************************)
(* What becomes of the data of one module (MTB-UNI, MTB-UNIS or MTB-LED):  *)
(* its configuration travels between clients, the daemon, the module and   *)
(* the file; its outputs travel to the module and back; its firmware is    *)
(* cut into blocks and written to the flash.  The control around these     *)
(* steps (commands that fail, requests that wait) is in MtbUni: here a     *)
(* request, the message and its answer are one step.                       *)
(***************************************************************************)
EXTENDS Integers, Sequences, FiniteSets, FiniteSetsExt

CONSTANTS
  Kinds,            \* subset of {"UNI", "UNI-IR", "UNIS", "LED"}
  ConfigRequests,   \* for each kind, configurations (JSON) clients ask for
  OutputRequests,   \* for each kind, requests: functions from ports to JSON
  Firmwares,        \* firmwares (JSON): sets of [start, data] that do not overlap
  BLOCK_SIZE,       \* bytes in a block (64)
  BlocksPerPage,    \* for each kind, pageSize() / BLOCK_SIZE
  ADDRESSES,        \* addresses of the flash that 16 bits can name (2^16)
  RuntimeLoad       \* whether clients ask to load the file at any time, or only while
                    \* the module is off the bus and none of them has configured it

ASSUME SizesAssumption ==
  /\ BLOCK_SIZE \in Nat \ {0}
  /\ ADDRESSES \in Nat \ {0}
  /\ \A k \in Kinds : /\ BlocksPerPage[k] \in Nat \ {0}
                       /\ ADDRESSES % (BLOCK_SIZE * BlocksPerPage[k]) = 0

Uni  == INSTANCE UniCodec
Unis == INSTANCE UnisCodec
Led  == INSTANCE LedCodec

\* Requests are well typed; only modules with IR are asked to use it.
ASSUME RequestsAssumption ==
  /\ Kinds \subseteq {"UNI", "UNI-IR", "UNIS", "LED"}
  /\ \A k \in Kinds : \A json \in ConfigRequests[k] :
       CASE k = "UNIS" -> json \in Unis!ConfigRequest
         [] k = "LED"  -> json \in Led!ConfigRequest
         [] OTHER      -> json \in Uni!ConfigRequest /\ (k = "UNI" => json.irs = <<>>)
  /\ \A k \in Kinds : \A request \in OutputRequests[k] : \A p \in DOMAIN request :
       request[p] \in IF k = "LED" THEN BOOLEAN ELSE Uni!OutputJson

VARIABLES
  kind,           \* class and type of the module
  active,         \* whether the module is active
  config,         \* optional: a set of at most one configuration
  configToWrite,  \* optional: the last configuration a client asked for
  stored,         \* external: the bytes of the configuration in the module
  file,           \* optional: the configuration (JSON) in the file of the daemon
  outputsWant, outputsConfirmed,
  fwUpgrading,
  data,           \* firmware to write: from numbers of blocks to blocks
  toWrite,        \* blocks that wait
  page, flash,    \* external: the page being received and the flash
  \* history
  written,        \* the configuration that was last sent to the module
  saved,          \* the configuration that was last saved
  shown,          \* for each output, the JSON that was last asked for
  image           \* what the flash should hold after the upgrade

dataVars  == <<config, configToWrite, stored, file, written, saved>>
outVars   == <<outputsWant, outputsConfirmed, shown>>
flashVars == <<fwUpgrading, data, toWrite, page, flash, image>>
vars == <<kind, active, dataVars, outVars, flashVars>>

(***************************************************************************)
(* The codec of the class of the module.                                   *)
(***************************************************************************)
isIrSupport == kind = "UNI-IR"

DefaultConfig == CASE kind = "UNIS" -> Unis!DefaultConfig
                   [] kind = "LED"  -> Led!DefaultConfig
                   [] OTHER         -> Uni!DefaultConfig

Serialize(c) == CASE kind = "UNIS" -> Unis!serializeForMtbUsb(c)
                  [] kind = "LED"  -> Led!serializeForMtbUsb(c)
                  [] OTHER         -> Uni!serializeForMtbUsb(c, isIrSupport)

FromMtbUsb(bytes) == CASE kind = "UNIS" -> Unis!fromMtbUsb(bytes)
                       [] kind = "LED"  -> Led!fromMtbUsb(bytes)
                       [] OTHER         -> Uni!fromMtbUsb(bytes)

ConfigJson(c) == CASE kind = "UNIS" -> Unis!configJson(c)
                   [] kind = "LED"  -> Led!configJson(c)
                   [] OTHER         -> Uni!configJson(c, isIrSupport)

FromJson(json) == CASE kind = "UNIS" -> Unis!fromJson(json)
                    [] kind = "LED"  -> Led!fromJson(json)
                    [] OTHER         -> Uni!fromJson(json)

OutputsToJson(outputs) == CASE kind = "UNIS" -> Unis!outputsToJson(outputs)
                            [] kind = "LED"  -> Led!ioStateToJson(outputs)
                            [] OTHER         -> Uni!outputsToJson(outputs)

OutputOf(json) == CASE kind = "UNIS" -> Unis!unisOutputToByte(json)
                    [] kind = "LED"  -> json
                    [] OTHER         -> Uni!jsonOutputToByte(json)

\* What the module answers is what it was sent; the daemon reads it back.  Such an
\* answer is complete: what the uninitialised result held does not matter.
Echo(outputs) ==
  CASE kind = "UNIS" -> Unis!moduleOutputsData(Unis!mtbBusOutputsData(outputs), outputs)
    [] kind = "LED"  -> Led!mtbDataToIo(Led!ioToMtb(outputs))
    [] OTHER         -> Uni!moduleOutputsData(Uni!mtbBusOutputsData(outputs),
                                              outputs)

(***************************************************************************)
(* Configuration.                                                          *)
(***************************************************************************)
Init ==
  /\ kind \in Kinds
  /\ active = FALSE
  /\ config = {} /\ configToWrite = {} /\ file = {} /\ saved = {}
  /\ stored = Serialize(DefaultConfig)
  /\ written = DefaultConfig
  /\ outputsWant = DefaultConfig.outputsSafe
  /\ outputsConfirmed = DefaultConfig.outputsSafe
  /\ shown = OutputsToJson(DefaultConfig.outputsSafe)
  /\ fwUpgrading = FALSE /\ data = <<>> /\ toWrite = {}
  /\ page = <<>> /\ flash = [a \in 0 .. ADDRESSES - 1 |-> 0] /\ image = flash

\* activate .. outputsReset: a known configuration is set, an unknown one is got.
\* After an upgrade its end (fwUpgdRebooted) is reported by the activation.
Activate ==
  /\ ~active
  /\ active' = TRUE
  /\ fwUpgrading' = FALSE /\ data' = <<>>
  /\ IF config # {}
       THEN /\ \E c \in config : stored' = Serialize(c) /\ written' = c
            /\ UNCHANGED config
       ELSE /\ config' = {FromMtbUsb(stored)}
            /\ UNCHANGED <<stored, written>>
  /\ \E c \in config' :
        /\ outputsWant' = c.outputsSafe
        /\ outputsConfirmed' = c.outputsSafe
        /\ shown' = OutputsToJson(c.outputsSafe)
  /\ UNCHANGED <<kind, configToWrite, file, saved, toWrite, page, flash, image>>

\* A JSON that is refused throws before anything is changed.
JsonSetConfig(json) ==
  /\ ~fwUpgrading
  /\ \E c \in FromJson(json) :
        /\ configToWrite' = {c}
        /\ config' = {c}
        /\ IF active /\ configToWrite # {c}
             THEN stored' = Serialize(c) /\ written' = c
             ELSE UNCHANGED <<stored, written>>
  /\ UNCHANGED <<kind, active, file, saved, outVars, flashVars>>

\* The module leaves the bus (its power was cut, the line was unplugged).
Leave ==
  /\ active /\ ~fwUpgrading
  /\ active' = FALSE
  /\ UNCHANGED <<kind, dataVars, outVars, flashVars>>

SaveConfig ==
  /\ \E c \in config : file' = {ConfigJson(c)} /\ saved' = {c}
  /\ UNCHANGED <<kind, active, config, configToWrite, stored, written, outVars, flashVars>>

\* The daemon starts anew and loads its file.
Restart ==
  /\ ~fwUpgrading
  /\ active' = FALSE
  /\ config' = UNION {FromJson(json) : json \in file}
  /\ configToWrite' = {}
  /\ UNCHANGED <<kind, stored, file, written, saved, outVars, flashVars>>

\* load_config on a running daemon: the configuration of the object is replaced.
LoadConfig ==
  /\ RuntimeLoad \/ (~active /\ configToWrite = {})
  /\ \E json \in file : FromJson(json) # {} /\ config' = FromJson(json)
  /\ UNCHANGED <<kind, active, configToWrite, stored, file, written, saved, outVars, flashVars>>

(***************************************************************************)
(* Outputs.                                                                *)
(***************************************************************************)
JsonSetOutput(request) ==
  /\ active /\ ~fwUpgrading
  /\ kind # "LED" => \A p \in DOMAIN request : OutputOf(request[p]) # Uni!JsonError
  /\ outputsWant' = [p \in DOMAIN outputsWant |->
                       IF p \in DOMAIN request THEN OutputOf(request[p]) ELSE outputsWant[p]]
  /\ outputsConfirmed' = Echo(outputsWant')
  /\ shown' = [p \in DOMAIN shown |-> IF p \in DOMAIN request THEN request[p] ELSE shown[p]]
  /\ UNCHANGED <<kind, active, dataVars, flashVars>>

(***************************************************************************)
(* Firmware.                                                               *)
(***************************************************************************)
Holds(region, a) == a \in region.start .. region.start + Len(region.data) - 1
ByteAt(region, a) == region.data[a - region.start + 1]
Given(json) == UNION {region.start .. region.start + Len(region.data) - 1 : region \in json}

\* Addresses are cut to 16 bits when they are sent: larger firmware would wrap.
ASSUME FirmwareAssumption == \A json \in Firmwares : Given(json) \subseteq 0 .. ADDRESSES - 1

parseFirmware(json) ==
  [block \in {a \div BLOCK_SIZE : a \in Given(json)} |->
     [offset \in 0 .. BLOCK_SIZE - 1 |->
        LET a == block * BLOCK_SIZE + offset
        IN  IF a \in Given(json)
              THEN ByteAt(CHOOSE region \in json : Holds(region, a), a) ELSE 255]]

\* Mutant: pages are left incomplete.
alignFirmwareNot(fw, n) == fw

alignFirmware(fw, n) ==
  LET pages == {block \div n : block \in DOMAIN fw}
  IN  [block \in UNION {n * p .. n * p + n - 1 : p \in pages} |->
         IF block \in DOMAIN fw THEN fw[block] ELSE [offset \in 0 .. BLOCK_SIZE - 1 |-> 255]]

PageOf(a) == a \div (BLOCK_SIZE * BlocksPerPage[kind])

\* What a flash holds once a firmware is written: pages are erased as a whole.
Image(json) ==
  [a \in 0 .. ADDRESSES - 1 |->
     IF a \in Given(json) THEN ByteAt(CHOOSE region \in json : Holds(region, a), a)
     ELSE IF \E g \in Given(json) : PageOf(g) = PageOf(a) THEN 255 ELSE flash[a]]

JsonUpgradeFw(json) ==
  /\ active /\ ~fwUpgrading
  /\ fwUpgrading' = TRUE
  /\ data' = alignFirmware(parseFirmware(json), BlocksPerPage[kind])
  /\ toWrite' = DOMAIN data'
  /\ page' = <<>>
  /\ image' = Image(json)
  /\ UNCHANGED <<kind, active, flash, dataVars, outVars>>

\* The module gathers the blocks of a page, writes it with its last block.
ReceiveBlock(fwAddr, blob) ==
  LET bytes == Append(page, blob)
      first == fwAddr - (Len(bytes) - 1) * BLOCK_SIZE
      last  == (fwAddr \div BLOCK_SIZE) % BlocksPerPage[kind] = BlocksPerPage[kind] - 1
  IN  IF ~last THEN page' = bytes /\ UNCHANGED flash
      ELSE /\ page' = <<>>
           /\ flash' = [a \in DOMAIN flash |->
                IF a \in first .. fwAddr + BLOCK_SIZE - 1
                  THEN bytes[1 + (a - first) \div BLOCK_SIZE][(a - first) % BLOCK_SIZE]
                  ELSE flash[a]]

FwUpgdGotStatus ==
  /\ fwUpgrading /\ toWrite # {}
  /\ LET block == Min(toWrite)
     IN  /\ ReceiveBlock((block * BLOCK_SIZE) % ADDRESSES, data[block])
         /\ toWrite' = toWrite \ {block}
  /\ UNCHANGED <<kind, active, fwUpgrading, data, image, dataVars, outVars>>

\* All is written: the module is rebooted and activated anew.
FwUpgdAllWritten ==
  /\ fwUpgrading /\ toWrite = {} /\ active
  /\ active' = FALSE
  /\ UNCHANGED <<kind, dataVars, outVars, flashVars>>

Next ==
  \/ Activate \/ Leave \/ SaveConfig \/ Restart \/ LoadConfig
  \/ \E json \in ConfigRequests[kind] : JsonSetConfig(json)
  \/ \E request \in OutputRequests[kind] : JsonSetOutput(request)
  \/ \E json \in Firmwares : JsonUpgradeFw(json)
  \/ FwUpgdGotStatus \/ FwUpgdAllWritten

Spec == Init /\ [][Next]_vars

(***************************************************************************)
(* Properties.                                                             *)
(***************************************************************************)

\* An active module and the daemon have the same configuration: the one the module was
\* last sent, through writing, reading back, saving, loading and restarts.  Delays that
\* were read from an MTB-UNI are left out (see ConfigIsGot), and of servoEnabledMask
\* what the module keeps is compared (6 bits).
Comparable(c) == CASE kind \in {"UNI", "UNI-IR"} -> [c EXCEPT !.inputsDelay = <<>>]
                   [] kind = "UNIS"            -> [c EXCEPT !.servoEnabledMask = @ % 64]
                   [] OTHER                    -> c
ModuleHasConfig ==
  active => \A c \in config : /\ Comparable(c) = Comparable(written)
                              /\ Comparable(FromMtbUsb(stored)) = Comparable(c)

\* uni.cpp:440 "2) Config is GET": a configuration the daemon got from the module is the
\* one the module was sent, its delays too.
ConfigIsGot == active => \A c \in config : c = written

\* messages.md:224 "This request allows the client to set configuration of a module": while
\* the daemon holds what a client last asked for (and was told ok), so does the module.
ConfiguredIsStored ==
  active /\ config = configToWrite => \A c \in config : Serialize(c) = stored

\* The file the daemon wrote can be loaded by it and gives back what was saved.
FileLoadsBack == \A json \in file : FromJson(json) = saved

\* What clients are shown of the outputs is what they asked for last, output by output,
\* and outputs that are confirmed are those that are wanted: requests wait until they are.
OutputsAsAsked == /\ OutputsToJson(outputsConfirmed) = shown
                  /\ outputsConfirmed = outputsWant

\* After an upgrade the flash holds every byte of the firmware at its address, the rest of
\* its pages is erased and other pages are as they were.
FlashedIsAsked == ~fwUpgrading => flash = image
=============================================================================
