# Verification of mtb-daemon

MTB-daemon owns the USB device MTB-USB, which is the master of MTBbus, a bus
with up to 255 modules of a model railway (inputs, outputs, detectors).  Clients
connect over TCP and send requests in JSON, one per line: set outputs,
configure, reboot, upgrade the firmware of a module.  The daemon is one C++/Qt
program with one thread: everything runs in handlers that the event loop calls
(serial port, sockets, timers), and a handler runs to its end.  What makes it
hard is that almost every request is answered by a callback of a later answer
of the bus, and that callbacks, timeouts, modules that come and go, a USB device
that is unplugged, and clients that leave may come in any order in between.

Paths below are relative to the repository (its sources are in `src/`).

| document | content |
|---|---|
| `*.tla` | models, and the proofs in `*_proofs.tla` and `SequenceFacts.tla` |
| `MC*.tla`, `*.cfg` | small instances for TLC |
| `PROJECT.json` | components, runs, mutants, lines of code per definition, findings, hazards, theorems |

## 1. Inventory

### MTB-USB transport (`src/mtbusb/mtbusb*.cpp`, `mtbusb.h`) - modelled in part

State: the serial port; `m_pending`, at most `_MAX_PENDING` (3) commands that
were written and wait for an answer, oldest first, each with a timeout and a
count of its writings; `m_out`, commands that wait to be written; what is known
of the device (`m_mtbUsbInfo`, `m_activeModules`); the input buffer; timers for
timeouts (100 ms) and pings.

Operations: `send`; messages received (`parseMtbUsbMessage`,
`parseMtbBusMessage`, `handleMtbUsbError`, `handleMtbBusError`);
`pendingTimerTick` with `pendingResend`; `connect`, `disconnect`,
`spAboutToClose`, `spHandleError`; `changeSpeed`; the cutting of bytes into
messages in `spHandleReadyRead`.

Hard: answers carry no number and are matched to the first pending command that
accepts them; ok callbacks run while their command is still in `m_pending`,
and every callback may call `send`, or `disconnect`, or throw; a resent command
goes to the end of `m_pending` and may be in conflict with one in `m_out`;
closing the port calls every error callback while the port still counts as open;
bytes arrive in pieces and are thrown away after a pause.

Correct if: no command is lost, doubled or ended twice; every one ends; the
limits hold; commands in conflict are not pending together; the right callback
gets an answer; nothing survives a closed port; what was sent whole is parsed
whole.

### Commands (`mtbusb-commands.h`, `mtbusb-common.*`) - modelled in part

No state.  Each class says how it is written, which other commands it is in
conflict with, and which answers it accepts.  Correct if answers cannot end
commands of another kind.

### Base of the modules (`src/modules/module.*`) - modelled in part

State: `active`, `activating`, `activationsRemaining`, the information of the
module, `rebooting` (its two callbacks, `activatedByMtbUsb`), `configWriting`,
`fwUpgrade` (request, blocks, position), name and configuration in the file.

Operations: `jsonCommand` and its requests; `mtbBusActivate`, `mtbBusLost`,
`activationError`, `fullyActivated`; `reboot`; the chain of the upgrade,
`fwUpgdInit` to `fwUpgdRebooted`; `mtbUsbDisconnected`, `clientDisconnected`;
diagnostics; reading of the firmware from JSON into blocks.

Hard: activation, reboot and upgrade are chains of commands and single-shot
timers that share flags and may overlap; any link may fail; the client or the
port may go away at every link.  Correct if every request gets one response,
a finished upgrade is complete, a module that is there becomes active, no
chain is started twice, and the blocks leave the bytes of the file in the flash.

### Modules by type (`uni.*`, `unis.*`, `led.*`, `rc.*`) - modelled in part

MTB-UNI, MTB-UNIS and MTB-LED keep `outputsWant`, `outputsConfirmed`,
`whoSetOutput`, the requests that wait for outputs to be sent
(`setOutputsWaiting`) or confirmed (`setOutputsSent`), and `config`,
`configToWrite`.  They set outputs (one command under way, the requests
meanwhile gathered for the next), write the configuration, reset outputs of a
client that leaves, and activate in the steps configuration, inputs, outputs.
The three classes repeat the control line by line; they differ in the bytes of
outputs and configurations.  MTB-RC keeps the DCC addresses per input and
activates by reading inputs only.  Correct if the confirmed outputs are the
wanted ones once all is quiet, responses tell the truth, outputs of nobody are
safe, and what is written, saved and shown can be read back.

### Daemon (`main.*`) - modelled in part

State: the array of modules, subscriptions per module and to the topology, the
set of addresses with write access, the file's configuration, timers of
reconnection (1 s) and reactivation (500 ms), two flags of batched events.
Operations: the chain of connecting (open, information, speed, active modules,
one activation each), `activateModule` with its retries, what MTB-USB
announces, every request that is not for one module, loading and saving.
Hard: a retry timer survives a reconnection; `module_delete` and `load_config`
replace objects that callbacks still point to; each link of the chain of
connecting may fail and then disconnects; a change of the speed is four
commands.  Correct if the daemon looks for the port exactly while it is closed,
every listed module is looked after, no object is used after it was destroyed,
MTB-USB and the modules have the same speed, and clients know what changed.

### Server (`server.*`) - modelled

State: the set of clients, each a pointer to a socket.  Operations: a client
comes, lines are read until one is no JSON, responses and events are written,
a client leaves.  Hard: the pointer is kept by requests, subscriptions and
outputs; the test whether a client is still there is in one of the overloads of
`send` only.  Correct if subscriptions are what the client was told, events miss
no subscriber, a request has one response, and no line is forgotten.

### Logging (`logging.*`) - modelled in part

Messages are held back in a short history; an error opens a file, which gets the
history and the messages that follow.  Hard: errors that come while a file is
open or cannot be opened.  Correct if every error is stored with its
surroundings and the history stays short.

### Not modelled

Safe reading of JSON (`qjsonsafe.*`), utilities and error codes, Windows ports,
colours of the terminal (`src/lib/termcolor.h`, vendored): no state or no logic
of their own.

### Interactions

    clients -> DaemonServer -> DaemonCoreApplication -> MtbModule / MtbUni / ...
                                     |    ^                  |      ^
                  connect, send      v    | signals   send   v      | callbacks
                                    MtbUsb <-----------------+------+
                                     |  ^
                             bytes   v  |
                                   MTB-USB -- MTBbus -- modules

## 2. Models

| module | stands for | state |
|---|---|---|
| `CmdService` | what the callers of `MtbUsb::send` rely on | how each command ended |
| `MtbUsb` | the queues and the port of `MtbUsb` | `m_pending`, `m_out`, `no_sent`, `open`, `known`; `pc`, `cur`: the callback that runs; `stalled` (history) |
| `MtbUsbLink` | `MtbUsb` with the serial line and the device | also what is on the line, in both directions |
| `Framing` | `spHandleReadyRead` | the bytes on the line, `m_readData`, messages sent and parsed |
| `MtbModule` | members and handlers of the base class | the record `m`, `clients` |
| `MtbUni` | an MTB-UNI (UNIS, LED), with the daemon, the bus and the port around it | `m`, `clients`, `port`, `listed`, `asked` |
| `OutputBytes`, `UniCodec`, `UnisCodec`, `LedCodec` | conversions of outputs and configurations | none |
| `ModuleData` | the data of one module of any of the three classes | configuration in the daemon, the module, the file; outputs; firmware and flash |
| `MtbDaemon` | `DaemonCoreApplication` with its modules reduced to their activation | the record `d`; `usb`: the device and the modules |
| `Server` | `DaemonServer` and the requests of `DaemonCoreApplication` | clients, lines, subscriptions, requests under way, modules as they are shown |
| `Logging` | `Logger::prodLog` | the history, the open file, the files |
| `SequenceFacts` | | lemmas on sequences: places, contents, order, folds over what is filtered |
| `MtbUsb_proofs` (of `MtbUsbLink` too), `MtbUni_proofs`, `ModuleData_proofs`, `MtbDaemon_proofs`, `Framing_proofs`, `Server_proofs`, `Logging_proofs` | | theorems, section 4 |

**`MtbUsb`.**  A callback may call `send` any number of times before it returns,
so a handler is not one step: it is split where a callback is called.  `pc`
says which callback runs; `Send` is possible when no handler runs or when a
callback does; `ReturnOk`, `ReturnError` and `CloseFront` are the rest of the
handler.  `AbortOk` is an ok callback that throws: `spHandleReadyRead` catches
it, so the command stays pending though it was answered.  `Throwing` are the
commands whose error callback may throw, as that of an upgrade's messages does
(`module.cpp:448`).  While a message is parsed (`pc = "error"`) the same `try`
catches it, and `sendNextOut` behind the callback is skipped (`AbortError`);
from the timer (`pc = "timeout"`) or from `spAboutToClose` nothing does, and the
process ends (`Uncaught`), as it may when a closed port refuses a command.
`Fatal` commands are those whose error callback calls `disconnect` (the ping,
and the requests of the chain of connecting).  `ThrowAssumption` keeps the two
apart: a fatal command fails by the timer only, so that no exception cuts short
the closing of the port.  `stalled` is history: nothing is pending and `m_out`
waits, because of such an exception.  Each command is one call of `send`.  Time is left
out: `m_pending` is ordered by time of writing, so only the front can have
expired, and a tick that finds it expired is `PendingTimerTick`.

Left out: a write to an open `QSerialPort` appends to a buffer and does not
fail; the branch of `pendingTimerTick` for a closed port is dead, since
`spAboutToClose` stops the timer.

**`CmdService`** is the abstract specification: a command is accepted or refused
at once; an accepted one ends at most once, ok or with an error; the port closes
only when nothing waits, unless the process ends.  `MtbUsb` implements it with the
mapping of its own `open` and `status`; `MtbUni` and `MtbDaemon` build on it:
their commands wait in `bus`, end in either way, and all end with an error
before the port is closed.

**`MtbUsbLink`** adds the line so that "the right callback" has a meaning: the
answer on the line remembers the command it answers.  The device is external
and as little as the code relies on: commands to itself in order, commands to
the bus in order, the two kinds independent.  A `Slow` command may be answered
after its timeout, and then both copies are answered.

**`Framing`.**  A piece of any size is one call of the slot; what remains of the
old bytes is kept, or thrown away after a pause; the buffer is searched for a
header once, then messages are cut off its front by their lengths.  `clean` is
history: nothing disturbed the reading since a pause with everything read.
`sent` and `parsed` begin anew at every such pause.

**`MtbModule`, `MtbUni`.**  All members, the commands under way (`bus`), the
single-shot timers and the responses written are one record `m`.  A member
function is an operator from the record to the record it leaves, because most of
them call others; an action applies one of them to `m`.  Thus an action is a
whole handler, with every call it makes.  The environment: `Connect`,
`Disconnect` (then every command ends with an error, then
`MtbUsbDisconnected`), the list of active modules, modules announced and
failed, retries, clients that leave.  `moduleConfig` and `flash` are what the
module itself holds; a failed write may or may not have reached it.
Undefined behaviour (a write to a deleted socket, an invalid iterator) and an
uncaught bad optional set `fault`, and the model stops there.

The daemon around the object is the part that touches this one module: it has
no other module with outputs, so `clientResetOutputs` sees its setters only.

**`ModuleData`** and the codecs are the other half of these classes: what is in
the messages.  Here a request, its message and its answer are one step, and the
bytes are what matters: a configuration goes from JSON to the daemon, to the
module, back from it, to the file and from the file; outputs go to the module
and come back; a firmware becomes blocks, blocks become pages of the flash.
`stored`, `page` and `flash` are external and do what the code expects of a
module: keep the bytes, erase a page when its last block comes.  Strings and
layout of JSON are left out; values, ranges, rounding and refusals are not.

**`MtbDaemon`** is the other way round: all that the daemon does between the
opening of the port and active modules, and modules of which only that matters.
`d` has the members of the application (`modules`, `tReconnect`, the two flags
of pending events, `topoSubscribes`, `fileSpeed`), those of `MtbUsb` that it
uses (`open`, `known`, `speed`, `activeModules`), the commands under way, each
with the object whose callbacks it carries, and the retry timers.  Three fields
are history: `told` (what a client heard last), `gaveUp` (modules whose
attempts are used up or that were deleted), `speedFailed`.  An object of a
module keeps its class apart from its type, because in the code they are set at
different places.  What every class does on activation, loss and failure is
taken from `MtbModule` by `INSTANCE`.  A module is an MTB-RC, the only class
whose activation is one command, or of a type the daemon does not know; the
longer activations, reboots and upgrades are in `MtbUni`.  When an object is
destroyed, the commands that point to it carry "deleted"; their callbacks are
undefined, and end the process in the model.  `usb` is external: the modules
that are there, the list of MTB-USB, its speed and that of the modules; a
module hears only broadcasts sent at its own speed.

**`Server`** is the daemon as clients see it.  Lines arrive in a socket,
`ClientReadyRead` begins the loop over them and every line is a step of it
(`Request`, `SkipLine`); nothing else runs until it ends.  A command on MTBbus
is `pending` until `CmdOk` or `CmdError`.  A module is what is shown of it.  The
history variables are the client's own picture: what it is subscribed to by the
responses it got (`view`, `topoView`), and the last state it was told (`told`).

**`Logging`.**  Messages are numbered as they come, a file is the sequence of
numbers in it, its name is the second in which it was opened.

## 3. Runs

Names are of `PROJECT.json`.

| run | instance | states | shows |
|---|---|---|---|
| `usb` | 2 changes of the speed, one of them fatal, and 2 commands to modules that may throw; 2 pending, 2 attempts | 282 000 | the safety properties of `MtbUsb`, the refinement of `CmdService`, and that every command ends |
| `usb_link` | 5 commands, two of them with the same answers, a slow one | 2.2 million | `PendingIsOnTheLine`, `AnswerReachesItsCommand` |
| `uni_outputs` | 2 clients, 2 outputs, a new configuration, an address, a reboot; unplug, module fails | 556 000 | responses and outputs |
| `uni_upgrade` | outputs of two clients, an upgrade of 2 blocks, a beacon; unplug, module fails | 47 000 | the upgrade |
| `uni_life` | 2 clients, all events of the environment but `overlap` | 1.7 million | activation, the port, clients that leave, no second response |
| `daemon` | one address, an MTB-RC or an unknown module, 2 speeds, a client that subscribes and one change of the speed, a file; all events but `pending`, `retype`, `overlap` | 802 000 | the daemon |
| `module_data` | 4 kinds of modules, 1 to 3 configurations each, requests for first, inner and last outputs, 2 firmwares | 24 000 | what is converted survives |
| `framing` | 2 messages of 3, one with a header in its data; a byte lost | 6 000 | messages are cut as they were sent, and every one is |
| `server` | 2 clients, 3 of 12 requests, one line that is none, 2 addresses | 1.2 million | subscriptions, events, responses, lines |
| `logging` | 9 messages of 2 levels, a history of 3, 2 messages after an error | 12 000 | what is stored |
| `usb_unplug`, `uni_upgrade_twice` | the smallest instance that shows it | | disagreements of code and documents, section 5 |

Properties of the transport.  `PendingSound`: limits and conflicts, which `send`
promises to itself and `pendingResend` relies on.  `WaitingIsQueued` relates
what callers see to the queues: nothing lost, nothing doubled, over moves
between queues with callbacks in the middle.  `TimeoutAfterAllAttempts` and
`EveryCommandEnds` are about the two ends.
Commands leave `m_out` only when a pending one ends, so nothing may be left
there with nothing pending (`OutIsDrained`).  An error callback that throws
breaks this (`MtbUsbStall.cfg`, section 5); `OnlyThrowsStall` says that nothing else
does, and that it lasts until the port is closed.  `EveryCommandEnds` excuses
exactly these commands.  On the
line, an answer goes to the wrong command only if a command with the same
answers timed out, so that it was written twice, or ended with its answer still
to come (`AnswerReachesItsCommand`): this is the price of answers without
numbers, and the property shows that timeouts are the only thing that has to be
paid for.  `ParsedAsSent`: wherever the pieces are cut, the messages parsed are
those sent; after a lost byte they are again from the next pause on.

Properties of the module.  `AnsweredOnce` (no request without a response when
nothing is under way, with one exception, section 5), `OneResponse` (none has
two, whatever it overlaps with), `OutputsAgree`,
`AnswerShowsOutputs` (an "ok" shows the outputs as asked, or as a later request
asked), `ConfigOkIsInModule`; `UpgradeOkIsComplete`, `UpgradeAlone`, `NoFault`;
`ActivatingIsUnderWay` (a flag nobody would clear keeps a module from ever being
activated), `NoDanglingSetter`, `UnsetIsSafe`.  Of its data: `ModuleHasConfig`
(daemon and module agree over writing, reading back, saving, restarts),
`FileLoadsBack`, `OutputsAsAsked`, `FlashedIsAsked` (every byte at its address,
the rest of its pages erased, other pages untouched).

Properties of the daemon.  `ReconnectsWhileClosed`: the timer runs exactly while
the port is closed (opening it twice would close it).  `ListedIsLookedAfter` is
the safety half of "a module that is there becomes active": every chain of
activation that ends leaves the module active, handed over to a timer or to the
next tick, or given up for a reason.  `NoDeletedModule` is about objects
that are replaced and destroyed.  `SubscribersKnow`: a subscriber knows the
topology or a timer that will tell it runs - the events are gathered, and ports
close before they are sent.  `SpeedAnswered`, `SpeedsAgree`: one response per
change whichever of its four commands fails, and one speed when all went well.

Properties of the server.  `SubscribedAsTold`: over requests that are refused,
subscriptions are what the responses say, and no socket that left is in a list.
`SubscribersUpToDate`: a subscriber that knew the state of a module once knows
it still.  `AnsweredOnce`, `WaitsBehindInvalid`.  Of logging: `Bounded`,
`NeighboursStored` (what came before and after an error is stored, over errors
that follow one another closely), `FilesAreRuns`.

Every property of a passing run has a mutant in `PROJECT.json`: a definition
with a plausible bug (a reset forgotten, a limit off by one, an order swapped),
under which TLC finds the property violated.  The mutants stand in the
modules, before what they replace.

### Bounds, and why they are enough

- `usb_link` has no callbacks that throw and none that disconnect: its two
  properties are about answers.  A place that an exception leaves empty puts
  nothing on the line.
- Commands and requests are finite sets, each used once.  Two pending commands
  instead of three, with two attempts instead of three, reach every branch of
  `send`, of the resending and of the conflicts; the proofs of section 4 do not
  depend on them.  Two changes of the speed are the least for a conflict; three
  clients or outputs would only repeat what two do: `clientResetOutputs`
  distinguishes no setter, one, and more.
- `Events` of `MtbUni` names what the environment does: `unplug`, `fail`, `new`,
  `replug` (the port opens again after a list of modules was received), `leave`,
  `early` (requests between the opening and the list) and `overlap` (upgrade or
  reboot asked for while the module is being activated).  No passing run has
  `overlap`: section 5 says what happens with it.  In `uni_upgrade` no client
  configures the module and none leaves, since `UpgradeAlone` does not hold then
  (section 5).
- `InOrder`: commands of one module end in their order, unless one is resent;
  all runs have it.  `MAX_BUS` stops announcements of new modules when two
  commands or retries are under way; the code has no such limit.
- `ATTEMPTS` (5 in the code) is 1 in `uni_life` and `daemon`, which have
  retries, 0 in the others.  `MTB_MODULE_ACTIVATIONS` (5 in the code) is 2 or 1.
- `ModuleData`: `BLOCK_SIZE` 4 and 64 addresses stand for 64 and 2^16, the
  numbers of blocks per page are the code's.  The configurations have values at
  both ends and in the middle, delays that are refused, a brightness and servo
  values at their limits; outputs are plain, S-COM and flickering.  Regions of a
  firmware do not overlap.  A file is loaded on a running daemon only when no
  client configured the module (`RuntimeLoad`, section 5); nobody restarts the
  daemon or unplugs the module during an upgrade, which `MtbUni` covers.
  Servo masks have 6 bits, `irs` is given to a module with IR only.
- `Framing`: two messages between two pauses, so that a piece can hold the end
  of one, a whole one and the front of the next; one byte lost.
- `Server`: `MAX_LINES` 2, `MAX_REQUESTS` 3 of a pool of 12, `MAX_JUNK` 1 (lines
  that are no requests).  One of two modules lives (`Live`).  No request is
  `Malformed` and no module is silent (`SilentAddr`) in the passing run; the
  proofs have both.  The pointer of a client that left is not used again while a
  command of it is under way, and a module is not lost while its configuration
  is written: section 5 names both.  Requests without a type code, or with
  another type, are not modelled.
- `Logging`: 9 messages are enough for an error, its messages, a pause longer
  than the history and two more errors.  No two files get one name
  (`SameSecond`), and errors are not more detailed than what is stored at all.

`CHECK_DEADLOCK FALSE` stands where the system may really stop: the runs on
`MtbUni` and `server`, when every request was made and answered, and `logging`,
when everything was logged.  `usb`, `usb_link`, `daemon`, `module_data` and
`framing` are checked for deadlock.  `MtbUsb` can stop as well, in the model by
`Dead` only: with the process.

### Fairness

`usb`: `WF(Continue)`, a handler that runs continues to its end, which is what
one thread does; `WF(InError /\ Disconnect)`, the `disconnect` of a fatal error callback, the same;
`SF(PendingTimerTick)`, since the timer ticks every 100 ms while the port is
open, but a handler of a message may run at every moment in between, so that the
tick is not continuously possible.  There is no fairness of answers, of the
user's `connect` or of the unplugging: commands end because of the timeouts.

`framing`: `WF` of `SpHandleReadyRead` for some number of bytes, since Qt calls
the slot when bytes have arrived.  Nothing makes MTB-USB send.

## 4. Proofs

All theorems hold for every value of the constants that the assumptions of their
modules allow.  TLC checked every property and every inductive invariant on the
small instances first.

**`MtbUsb_proofs`** - `Invariance`: `IInv` is an invariant; `TypeCorrect`,
`PendingSafe`, `NothingLost`, `StallsByThrowOnly`, `Patient`: the invariants of
the run `usb`, with any callbacks that throw; `ClosedClean`: a closed port leaves
nothing in the queues and nothing known of the device; `Refinement`:
`Spec => ImplementsService`, every step of the queues is a step of `CmdService`
or leaves its state alone.

`IInv` is stronger than what the run checks.  The properties are not inductive
by themselves: that a command is not doubled needs that a command being new is
in no queue; that `SendNextOut` finds a place needs that the command that ended
had one, and is still in `m_pending` while its ok callback runs, whatever the
callback sends; that `m_out` waits with nothing pending after an exception only
(`StallOK`) needs that an error callback runs with a place left free, and that a
stalled `m_out` is not empty; that pending commands are free of conflicts is needed with the
queue as a set, since positions shift.  The lemmas of `SequenceFacts` say what
moves between queues do to contents and to being without repetition;
`DispatchFacts` and `SendNextOutFacts` say it of the two operators that every
handler uses; then there is one lemma per action.

On the serial line (`MtbUsbLink`), in the second half of the module:
`OnTheLineOrTimedOut` and `RightCallback`, the two
properties of the run `usb_link`.  `LinkIInv` adds to `IInv`: the types of what
is on the line; how often a command is on it at most (`Counts`); a closed port
has an empty line; and `LineInStep`: as long as no command of a class (those
whose answers cannot be told apart) timed out, its commands are on the line, in
their copies and answers, in the order in which `m_pending` has them.  The first
answer of the class then belongs to the first pending command of it, which is
the one `MtbUsb` gives it to.

**`MtbUni_proofs`** - `UniInvariance`, `UniTypeCorrect`, `ActivationEnds`
(`ActivatingIsUnderWay`), `OwnersAreThere` (`NoDanglingSetter`),
`LeftOutputsAreSafe` (`UnsetIsSafe`) and `AnsweredAtMostOnce` (`OneResponse`),
with any clients, outputs, attempts, order of answers and events, `overlap` too;
and of upgrades `UpgradesAreAlone`, `UpgradesAreComplete` and
`UndisturbedNoFault`, below.
The member functions call each other, so
the proof follows them: the relation `CarriesOn` (commands stay under way, no
activation begins, the configuration stays, outputs only lose their owners, and
what belongs to nobody stays safe) holds between the record before and after
each of them and is composed where they are; then there is one lemma per action.
The invariant is the type, that an activation has its command, that an output
with an owner has one who is there, and that one without is wanted safe while
the module is active.  When a client leaves, its outputs are given up only if
the configuration is known, so the owners need that it always is, and this that
a configuration under way is one that was asked for (`configToWrite`), and that
the module is never asked for its own.  A module becomes active with its outputs
reset, which is why nothing has to hold of them before.

`None \notin InitConfigs` (the daemon's file knows the module) is an assumption
of `OwnersAreThere` and `LeftOutputsAreSafe`; without it both are false:
`NoDanglingSetter` as in section 5, `UnsetIsSafe` when a module becomes active in its bootloader, with
its outputs off, before its configuration is read.  `LeftOutputsAreSafe` assumes
besides that no client sets a configuration with other safe states: the code
leaves the outputs of nobody at the old ones then.  `MtbUniAssumption` says that
no client is the null pointer, since `whoSetOutput` would not tell them apart.

`AnsweredAtMostOnce` has an invariant of its own, `OnceInv`, which is about the
requests and not the outputs.  A request waits in one place: in one of the two
lists of sets of outputs, in `configWriting`, in `fwUpgrading`, or in the one
command of the bus that was sent for it; its kind tells which, and who waits was
received and has no response.  `Free` is what a request is between the step
that takes it off its place and its response, and there is a lemma on each
member function, as above (`Once...`).  Two kinds are left out, because TLC
finds that they get two responses: a reboot asked for while an activation runs,
which is answered ok by its end and with an error by its own; and an upgrade
with firmware that does not parse, which is answered and still counts as running.
`RequestNames` says that no request is a name the model uses for "nobody" or for
the module's own reboot.  The run `uni_life` checks `OneResponse` for sets of
outputs; `UniOnce.cfg`, to be run by hand, does so with `overlap`, an upgrade, a
configuration and commands that end out of order (2 million states, no
violation).

`UpgradesAreAlone`, `UpgradesAreComplete` and `UndisturbedNoFault`
(`UpgradeAlone`, `UpgradeOkIsComplete`, `NoFault`) are about upgrades, for
clients that ask for upgrades, configurations, reboots, addresses and beacons
(firmware that does not parse too), any number of blocks and attempts and any
order of answers, while the port closes, the module fails and appears again, and
clients leave.  Their invariant is `UpInv`; its `Upgrades(s, h)` has
one part per concern:

- `OneChain`: at most one command of the chain is under way, or its timer runs;
  meanwhile an upgrade is known and no write is under way;
- `Pending`: while a write is under way it is known who asked for it, which is
  what `jsonUpgradeFw` looks at before it starts;
- `RebootAlone`, `NotActivated`: what brings a module back that reboots (the
  acknowledgement, the timer, the information, the activation) is one thing at a
  time, and nothing else activates it during an upgrade;
- `Flashed`: the blocks behind the next one to write are written, and all of
  them once the upgrade reboots the module;
- `Placed`: a request waits where requests of its kind do.

A handler that runs at the end of a command took that command off the bus and
has not sent the next: in between, `OneChain` would say nothing.  `h` is what it
holds, the chain, the write or the activation, so that `Upgrades` holds after
every member function, and the lemmas follow the calls.  `NotListed` says what
is under way before the list of modules.

A write that ends begins the upgrade that waits for it, so two writes under way
would begin it twice.  That there is one at a time is part of what is proved
(`Alone`): `jsonSetConfig` refuses while `configWriting`, a write under way has
its request there (`Pending`), and `Bare` says that no set of
outputs waits or was sent and that no output has an owner, so that neither `reset_my_outputs` nor a client that leaves
sends anything.  Nothing is assumed of the behaviours; of the constants it is
assumed, and TLC finds the properties false without each:

- `NoneSetsOutputs`: no client sets outputs.  One that does, with a
  configuration under way, starts an upgrade twice (`uni_upgrade_twice`, section
  5), and one that leaves has its outputs reset between the messages of the
  upgrade.  With outputs the properties depend on which requests meet; the run
  `uni_upgrade` checks them for outputs of two clients;
- `Undisturbed`: no `overlap`, since the end of an activation that was under way
  ends the upgrade; no `early` and no `replug`, since the list of modules would
  come while an upgrade runs, and activate the module;
- of `UndisturbedNoFault` only, no `leave`: an error is written to the deleted
  socket (`UniLeft`).

**`MtbDaemon_proofs`** - `TypeCorrect`, and a theorem for each invariant of the
run `daemon`, for any addresses, types, clients, requests, files and number of
attempts.  `IInv` is the type with `Sound`, which has one part per concern, each
a predicate on the record, so that a handler's lemma names the parts it can
disturb (`Same(s, t, F)`: only the fields `F` differ):

- `Closed`: the timer runs exactly while the port is closed, and a closed port
  has no commands under way and nothing known of MTB-USB (`NeverStopsLooking`);
- `Connecting`: one command of the chain of connecting at a time, and how far it
  is; without it a late answer could be taken for one of the next connection;
- `Answering`: the request of a command under way was made and has no response
  (`EverySpeedRequestAnswered`);
- `Telling`: what subscribers were told (`SubscribersAreTold`);
- `Pointing`, `Activating`, `Listing`: a callback into a living object has it,
  what counts as being activated has its command and attempts left, and
  `ListedIsLookedAfter` by what outlives the activations of other modules
  (`NoModuleForgotten`).

`NoCallbackDangles` (`NoDeletedModule`) adds that an object that reads inputs,
or can still be activated, is of the type of the module at its address
(`Matching`), and needs that clients neither delete a module that has commands
under way (`pending`) nor change the type of an object (`retype`): with these
two events it is false (section 5).  `SpeedsStayTogether` (`SpeedsAgree`) adds
the order of the four commands of a change of the speed (`Follows`) and which
speed the modules have meanwhile (`Agreeing`), and needs that changes do not
overlap; section 5 has what two at once do.  The other five hold with all
events.  The handler that closes the port runs the error callback of every
command in turn, a fold over the commands: `After(s, k, t)` says what the first
`k` of them did, and `DisconnectEffect` what is left in the end, whatever was
under way.  The induction theorems of the library take an operator as parameter,
which the provers cannot instantiate, so `SequenceFacts` has an induction over a
set of numbers (`Induction`, from the least element of its complement), which
serves for folds and loops of any length.

**`Framing_proofs`** - `ReadsWhatWasSent` (`ParsedAsSent`), for any messages of 1
to 127 bytes of any values, any number of them, and any pieces.  The invariant
is that, while nothing disturbed the reading, what is kept with what is on the
line is exactly the frames of the sent messages that were not parsed yet
(`Reads`, by the offsets at which they end).  `LoopTurns` says what a turn of the
loop that cuts messages does, `CutWhole` that the loop cuts every whole message
and leaves the front of the next, `PieceReads` that a piece keeps the invariant.
Everything the loop needs is needed in the code too: a length above 127 is not
one byte of header and data any more, a length of 0 has no type, and
`MessagesAssumption` says that neither is sent.

**`ModuleData_proofs`** - `FirmwareArrives` (`FlashedIsAsked`), for any regions of
firmware and any sizes of blocks, pages and flash.  The invariant `FwInv` says
what holds between two blocks: the firmware consists of whole pages
(`WholePages`) with every byte where it belongs (`ImageOfData`), the blocks that
wait are the last ones of it (`WritesInOrder`), the module holds exactly the
blocks of the page of the next one (`PageGathered`), and pages of which no block
waits are as they should be (`PagesWritten`).  `SentInside` and `SentLast` are
the two things the bootloader does with a block; the rest is division: `DivDiv`
(blocks of pages are pages of addresses), `InPage`, `InBlocks`.  Assumed is that
a flash is whole pages (`SizesAssumption`) and that firmware lies in the
addresses of 16 bits (`FirmwareAssumption`; above, `module.cpp:423` wraps).
Without the alignment `PageGathered` fails, and with it the theorem.

Its second half is about the codecs, for any requests of clients
(`RequestsAssumption`: well-typed JSON, of any length and any values; a module
without IR is not asked for IR).  `OutputByte`, `Tenths` and `Bytes` are the
values that the daemon can hold, `UniConfigs`, `UnisConfigs` and `LedConfigs` the
configurations; of each class it is proved that what `fromJson` accepts is one
of them (`UniFromJson`, ...), that the file gives it back (`UniBack`, ...), what
is read back from the module (`UniRead`: all but the delays, `UnisRead`: all but
two bits of `servoEnabledMask`, `LedRead`: all), and that outputs the module
answers with are those it was sent (`UniEcho`, ...).  Below are the bits:
`LittleEndianByte` turns the sum over a set, which is a fold, into eight bits
(`SumUnique`: the smallest sum on which the two differ does not exist), `BitsBack` and
`ByteIsItsBits` invert it both ways; `RankInside` and `RankIsUnique` say that the
n-th full byte is the one of the n-th full output, and `FullBytesSeq` that none
is missing; `ByteBack` and `JsonBack` invert the bytes of outputs.
`UniOperators`, `UnisOperators` and `LedOperators` say that what the three codecs
share is the same in each.

On these rest the three theorems.  `FileIsLoadable` (`FileLoadsBack`) and
`OutputsAreShown` (`OutputsAsAsked`) follow from `DataInv`: the daemon, the
module and the file hold configurations of the class of the module
(`OneConfig`, `ModuleHolds`, `FileHolds`), and the outputs that are wanted,
confirmed and shown are the same (`OutputsHold`).  `ModuleKeepsConfig`
(`ModuleHasConfig`) needs `Agreed` besides: a configuration a client asked for is
the one of the daemon, which is the one of an active module.  `JsonSetConfig`
sends nothing when it is asked for what it was asked for last, so without the
first half the second is not inductive.  It is assumed that clients do not load
the file at any time (`~RuntimeLoad`); section 5 has what happens if they do.

**`Server_proofs`** - `Waits`, `Subscribed`, `Answered` (for modules that answer,
`SilentAddr = {}`), and `Informed` (`SubscribersUpToDate`, for modules that
answer, and configurations that parse).  That a request has one response needs that it is in one
place: in a socket once, or read; under way only if read and not answered; and
that what a client lost when it left is never read again.  That events miss no
subscriber needs that a module is there and active while its configuration is
written, since no event says that its object was made.

**`Logging_proofs`** - `Limits`, `Runs`, `Neighbours` (with `~SameSecond`).  The
history always is the last messages that were counted; the open file ends with
the last of them; an alert whose neighbours are not stored yet has the open file
and enough messages still to come.

Left to TLC:

- `UpgradeAlone`, `UpgradeOkIsComplete` and `NoFault` where clients set outputs,
  as said above;
- liveness (`EveryCommandEnds`, `EverythingParsed`), and `AnsweredOnce` of
  `MtbUni`, which says by `ENABLED` when nothing is under way: out of the
  prover's reach;
- `OutputsAgree`, `AnswerShowsOutputs` and `ConfigOkIsInModule` of `MtbUni`: they
  are not true for every choice of requests and events.  Which requests meet in
  which order decides (an output set back before its command ended, two
  configurations at once, a reset during a set: section 5), so the runs show
  them for the requests and events of their instances, and no assumption on the
  constants short of naming the requests would do.

## 5. Where the code and its documents disagree

Two are runs that must find a violation; both end the process although "When
connection with MTB-USB fails, daemon reports this event to clients and keeps
running" (`README.md:28`):

- `usb_unplug` - unplugging MTB-USB while a ping waits: `spAboutToClose` calls
  the error callback, which calls `disconnect`, which calls `spAboutToClose`
  with the same front, without end.
- `uni_upgrade_twice` - an upgrade asked for with outputs and a configuration
  under way is started twice; when the port closes, the second chain finds no
  upgrade and reads an optional without a value, where nothing catches it.

The following are kept as configurations, to be run by hand with
`tlc -config <name>.cfg <module>`; each finds its violation in seconds.

| configuration | module | property | what happens |
|---|---|---|---|
| `MtbUsbStall` | `MCMtbUsb` | `OutIsDrained` | error callbacks that throw while messages are parsed leave their places empty, and `m_out` waits with nothing pending (below) |
| `UniLostAnswer` | `MCMtbUni` | `EveryRequestAnswered` | an output set, unset and set again before the first command ended: `outputsWant = outputsConfirmed` is taken for "nothing under way", and the list of the requests that were sent is overwritten |
| `UniUnplug` | `MCMtbUni` | `DisconnectAnswers` | the port closes during the activation after a reboot: the reboot is not answered |
| `UniConfigLost` | `MCMtbUni` | `ConfigAgrees` | a configuration set during the activation is answered ok and never written |
| `UniLeft` | `MCMtbUni` | `NoDeletedSocket` | a reboot fails after its client left: `sendError` writes to the deleted socket |
| `UniNoConfig` | `MCMtbUni` | `NoDanglingSetter` | a module answers once from its bootloader and once from its firmware: it is active without a configuration, outputs are set, and those of a client that leaves keep its socket (`uni.cpp:358`) |
| `DaemonDelete` | `MCMtbDaemon` | `NoDeletedModule` | a module fails while its inputs are being read, which clears the flag that `module_delete` tests: the object is destroyed under its callbacks |
| `UniDelay` | `MCModuleData` | `ConfigIsGot` | the delays of inputs of an MTB-UNI are read back from the bytes of its outputs |
| `ConfigReload` | `MCModuleData` | `ConfiguredIsStored` | `load_config` replaces the configuration of a module, and a request for the one written last is answered ok and not sent |
| `ServerRc` | `MCServer` | `AnsweredOnce` | `module_set_config` of an MTB-RC or of a module of an unknown type gets no response (`rc.cpp:51`, `module.cpp:134-139`) |

`MtbUsbStall` stops the daemon silently, against "Pending full -> push & do not
start timer (response from CS will send automatically)" (`mtbusb-send.cpp:42`).
An error callback that throws while a message is parsed skips `sendNextOut`
(`mtbusb-receive.cpp:295-298`), so its place stays empty as long as `m_out` is
not.  When as many have thrown as there are places (three in the code, each for
example the second error of an upgrade that was started twice; two in the
configuration), nothing is pending, and `m_out` waits for a response that cannot
come.  Every later command joins it (`mtbusb-send.cpp:40`), the pings too, whose
timeout would close the port.

Other holes that the models show or that were met while modelling; the passing
runs avoid them by what they ask or by their bounds, and the hazards in
`PROJECT.json` name their lines.

Transport:
- a change of the speed that ends because its resending is in conflict leaves
  its late acknowledgement to the next one;
- two changes of the speed at the same time: all six broadcasts come before the
  two commands to MTB-USB, so the modules follow the first change only, MTB-USB
  the second (`overlap`, with three speeds);
- a piece of exactly one byte at the beginning of a message loses the message;
  the header is looked for once per call, so a second message behind a broken
  one is cut without a look at its header; a length of 0, or above 127, makes a
  range of bytes that is none (`mtbusb-receive.cpp:27-39`);
- `MtbBusForward` reads behind the end of an answer with two bytes of data.

Modules:
- a reboot (or the one at the end of an upgrade) after which the module answers
  but runs out of activation attempts gets no response; the exception in
  `AnsweredOnce`;
- `reset_my_outputs` while a command sets outputs: its late confirmation makes
  the module wait for a command nobody sent;
- a failed command to set outputs confirms the wanted outputs, those of waiting
  requests included, so a third request overtakes the waiting ones;
- a request that changes nothing is answered at once, before the outputs it
  relies on are confirmed;
- a failed write of a configuration, asked for again, is answered ok unsent;
- firmware that does not parse leaves the module in an upgrade for ever;
- a client that leaves, or gives its outputs up, during an upgrade: where two
  clients had set outputs, the reset of its own is sent between the messages of
  the upgrade (`uni.cpp:368-372` asks only whether a set was sent), so that
  `UpgradeAlone` is false with the event `leave`;
- an upgrade or a reboot asked for while an activation runs (or the rest of one
  runs, after the module failed) is ended by the end of that activation, once
  more than it should be (`overlap`);
- a reboot asked for during an upgrade makes the upgrade's own reboot do
  nothing;
- an MTB-RC that reboots into its bootloader becomes active without ending the
  reboot, which gets no response (`rc.cpp:85-90`).

Data:
- `tcp-protocol/uni.md:27` and `unis.md:29` offer flickering at 320 per minute, the code has
  300; an unknown code of flickering is saved as 0, and the file is refused when
  it is loaded;
- plain outputs of 2 to 63 are wanted but never confirmed, so later requests
  wait for ever;
- bits of `servoEnabledMask` above the sixth are gone after reading back, servo
  values above 255 are cut; the initialisers `{100, }` set the first element
  only;
- firmware above 64 KiB wraps (`module.cpp:423`); the temperature of a module
  with a gain of 0 is a division by zero.

Daemon and server:
- a change of the speed whose last answer is lost leaves the daemon with the old
  speed in mind: a request for the old one is answered ok and not sent
  (`main.cpp:466`); a client's change is not kept in the daemon's
  configuration: at the next connection the file's speed is set again;
- `tcp-protocol/README.md:65` announces an event when the speed of the bus
  changes; the code sends none;
- `load_config` does not write to active modules, though
  `doc.mtb-daemon.json.md:72` says so, and sends no event;
- `module_set_config` with another type on a module that is not active changes
  its type and keeps its class (`retype`); one that is refused leaves the object
  it made, without an event;
- a module that is exchanged for one of another type while its inputs are being
  read, or before a late answer, is replaced under its callbacks
  (`main.cpp:272`); deleting a module between two attempts to activate it leaves
  it listed and not activated, until MTB-USB announces it again;
- lines behind a line that is no JSON wait until more bytes come, against
  `tcp-protocol/README.md:20`;
- a client that gets the pointer of one that left gets the responses to its
  commands too (`server.cpp:75`); `sendError` writes to a socket that may be
  deleted (`server.cpp:117`).

Logging:
- the history holds one message less than `doc.mtb-daemon.json.md:84` says, as
  the alert is one of it; with a history of 0 the last message of an empty deque
  is read; two files in one second have one name, and the second truncates the
  first; with a future of 0 the file stays open.

## 6. What is not modelled

- The decoding of inputs, diagnostics (`dvRepr`), names, and MTB-RC's table of
  DCC addresses: values that are passed on to clients and change nothing else.
- The control of MTB-UNIS and MTB-LED as modules of their own: `unis.cpp` and
  `led.cpp` repeat `uni.cpp` but for names, numbers and conversions, so they
  would be copies of `MtbUni`.
- The timer that sends pings to MTB-USB (pings are commands of `MtbUsb`), the
  keep-alive of the server (an empty object to every client, which changes no
  state), `save_config` beyond the data of modules, the list of addresses with
  write access (a constant of `Server`).
- The bytes of each command and of its answer: one line each, without state.
- JSON parsing itself, wording, colours, Windows' discovery of ports.

Next in order: of `MtbUni` that a reboot has at most one response without
`overlap`; the timer of pings in `MtbDaemon`; the rest of MTB-RC.
