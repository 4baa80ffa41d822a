------------------------------- MODULE Server -------------------------------
(***************************************************************************)
(* The JSON server and the daemon behind it (DaemonServer and the requests *)
(* of DaemonCoreApplication): lines that clients send, the subscriptions,  *)
(* responses - at once or when a command on MTBbus ends - and the events   *)
(* that subscribers get, while clients come and go.                        *)
(*                                                                         *)
(* A socket is a pointer: a client that comes may get the address of one   *)
(* that left, but not while a command of the latter is under way (a bound: *)
(* the code would answer the new client).                                  *)
(***************************************************************************)
EXTENDS Integers, Sequences, FiniteSets

CONSTANTS
    Sockets,
    Writers,      \* those whose peer address is in writeAccess
    Addr,         \* valid addresses of modules
    Requests,     \* requests, each made at most once
    Kind,         \* Kind[r] is the command of r
    Sender,       \* Sender[r] is the client that makes r
    Addresses,    \* Addresses[r]: what r names, also invalid ones, or Absent
    Live,         \* bound: addresses where modules are activated, change and are lost
    Malformed,    \* requests whose data or configuration does not parse
    SilentAddr,   \* addresses where objects are of MtbRc or of the base class
    MAX_LINES,    \* bound: lines that wait at a socket
    MAX_REQUESTS, \* bound: requests made
    MAX_JUNK,     \* bound: lines that are no requests
    Absent,       \* no module, no addresses
    Unknown,      \* a client was told nothing of a module yet
    Nobody

Garbage == "garbage"   \* a line that is no JSON
Ping == "ping"         \* an object without a command, or an empty line

VARIABLES
    alive,           \* the process did not write to a deleted socket
    clients,         \* DaemonServer::clients
    input,           \* the lines that wait in each socket
    news,            \* sockets whose readyRead is to come
    reading,         \* the socket whose clientReadyRead runs, or Nobody
    subscribes, topoSubscribes,
    pending,         \* requests whose commands are under way on MTBbus
    modules,         \* state that clients are shown, Absent for a null pointer
    \* history
    asked, lost, junk,  \* requests sent; those whose client left before the response
    stalled,         \* sockets whose last clientReadyRead ended at an invalid line
    answers,         \* number of responses to each request
    view,            \* the addresses each client knows it is subscribed to
    topoView,        \* the clients that know they are subscribed to the topology
    told             \* what each client was told last of each module it subscribed to

io == <<clients, input, news, reading, asked, lost, junk, stalled>>
subs == <<subscribes, topoSubscribes, view, topoView>>
vars == <<alive, io, subs, pending, modules, answers, told>>

Kinds == {"module_subscribe", "module_unsubscribe", "my_module_subscribes",
          "topology_subscribe", "topology_unsubscribe", "module", "module_delete",
          "module_set_config", "module_specific_command", "unknown"}

\* What clients are shown of a module that is there.
States == [active : BOOLEAN, inputs : {0, 1}]

ASSUME ServerAssumption ==
    /\ Writers \subseteq Sockets /\ Nobody \notin Sockets
    /\ Kind \in [Requests -> Kinds] /\ Sender \in [Requests -> Sockets]
    /\ Garbage \notin Requests /\ Ping \notin Requests
    /\ MAX_LINES \in Nat /\ MAX_REQUESTS \in Nat /\ MAX_JUNK \in Nat

ASSUME ModulesAssumption ==
    /\ Live \subseteq Addr /\ Absent \notin States
    /\ \A r \in Requests : Kind[r] \in {"module_delete", "module_set_config"} =>
           Addresses[r] # Absent /\ \A a, b \in Addresses[r] : a = b

Inactive == [active |-> FALSE, inputs |-> 0]

Init ==
    /\ alive = TRUE
    /\ clients = {} /\ input = [s \in Sockets |-> <<>>] /\ news = {} /\ reading = Nobody
    /\ subscribes = [a \in Addr |-> {}] /\ topoSubscribes = {}
    /\ pending = {} /\ modules = [a \in Addr |-> Absent]
    /\ asked = {} /\ lost = {} /\ junk = 0 /\ stalled = {}
    /\ answers = [r \in Requests |-> 0]
    /\ view = [s \in Sockets |-> {}] /\ topoView = {}
    /\ told = [s \in Sockets |-> [a \in Addr |-> Unknown]]

Idle == alive /\ reading = Nobody

-----------------------------------------------------------------------------
(* Connections and lines *)

ServerNewConnection(s) ==
    /\ Idle /\ s \notin clients
    /\ \A r \in pending : Sender[r] # s
    /\ clients' = clients \cup {s}
    /\ UNCHANGED <<alive, input, news, reading, asked, lost, junk, stalled, subs,
                   pending, modules, answers, told>>

\* A line arrives; readyRead comes after it or after further lines.
Arrives(s, line) ==
    /\ Idle /\ s \in clients
    /\ Len(input[s]) < MAX_LINES
    /\ \/ line \in Requests \ asked /\ Sender[line] = s
          /\ Cardinality(asked) < MAX_REQUESTS
          /\ asked' = asked \cup {line} /\ UNCHANGED junk
       \/ line \in {Garbage, Ping} /\ junk < MAX_JUNK
          /\ junk' = junk + 1 /\ UNCHANGED asked
    /\ input' = [input EXCEPT ![s] = Append(@, line)]
    /\ news' = news \cup {s}
    /\ UNCHANGED <<alive, clients, reading, lost, stalled, subs, pending, modules, answers, told>>

ClientReadyRead(s) ==
    /\ Idle /\ s \in news
    /\ reading' = s
    /\ news' = news \ {s}
    /\ stalled' = stalled \ {s}
    /\ UNCHANGED <<alive, clients, input, asked, lost, junk, subs, pending, modules, answers, told>>

ServerClientDisconnected(s) ==
    /\ subscribes' = [a \in Addr |-> subscribes[a] \ {s}]
    /\ topoSubscribes' = topoSubscribes \ {s}

\* The outputs that the client set are reset too, see MtbUni.
ClientDisconnected(s) ==
    /\ Idle /\ s \in clients
    /\ clients' = clients \ {s}
    /\ input' = [input EXCEPT ![s] = <<>>]
    /\ news' = news \ {s} /\ stalled' = stalled \ {s}
    /\ lost' = lost \cup {r \in asked : Sender[r] = s /\ answers[r] = 0}
    /\ ServerClientDisconnected(s)
    /\ view' = [view EXCEPT ![s] = {}] /\ topoView' = topoView \ {s}
    /\ told' = [told EXCEPT ![s] = [a \in Addr |-> Unknown]]
    /\ UNCHANGED <<alive, reading, asked, junk, pending, modules, answers>>

\* Mutant: one line is read only.
LoopOnce == reading' = Nobody

\* The rest of the loop of clientReadyRead: it ends when no line is left.
Loop == reading' = IF input'[reading] = <<>> THEN Nobody ELSE reading

\* A line that is no request.  An invalid one ends the loop; what follows it stays.
SkipLine ==
    /\ alive /\ reading # Nobody
    /\ LET line == Head(input[reading])
       IN /\ line \in {Garbage, Ping}
          /\ input' = [input EXCEPT ![reading] = Tail(@)]
          /\ IF line = Garbage
             THEN reading' = Nobody /\ stalled' = stalled \cup {reading}
             ELSE Loop /\ UNCHANGED stalled
    /\ UNCHANGED <<alive, clients, news, asked, lost, junk, subs, pending, modules, answers, told>>

-----------------------------------------------------------------------------
(* Requests (serverReceived) *)

\* r is the next line and of the given kind.
Takes(r, kind) ==
    /\ alive /\ reading # Nobody
    /\ Head(input[reading]) = r
    /\ Kind[r] = kind
    /\ input' = [input EXCEPT ![reading] = Tail(@)]
    /\ Loop
    /\ UNCHANGED <<alive, clients, news, asked, lost, junk, stalled>>

Respond(r) == answers' = [answers EXCEPT ![r] = @ + 1]

\* validateAddrs; without "addresses" a request means all modules.
Valid(r) == Addresses[r] = Absent \/ Addresses[r] \subseteq Addr
Means(r) == IF Addresses[r] = Absent THEN Addr ELSE Addresses[r]

ServerCmdModuleSubscribe(r) ==
    /\ Takes(r, "module_subscribe")
    /\ IF Valid(r)
       THEN /\ subscribes' = [a \in Addr |->
                   IF a \in Means(r) THEN subscribes[a] \cup {Sender[r]} ELSE subscribes[a]]
            /\ view' = [view EXCEPT ![Sender[r]] = @ \cup Means(r)]
       ELSE UNCHANGED <<subscribes, view>>
    /\ Respond(r)
    /\ UNCHANGED <<topoSubscribes, topoView, pending, modules, told>>

\* What a client no longer hears of is forgotten.
Forgets(s) == told' = [told EXCEPT ![s] =
    [a \in Addr |-> IF s \in subscribes'[a] THEN @[a] ELSE Unknown]]

ServerCmdModuleUnsubscribe(r) ==
    /\ Takes(r, "module_unsubscribe")
    /\ IF Valid(r)
       THEN /\ subscribes' = [a \in Addr |->
                   IF a \in Means(r) THEN subscribes[a] \ {Sender[r]} ELSE subscribes[a]]
            /\ view' = [view EXCEPT ![Sender[r]] = @ \ Means(r)]
       ELSE UNCHANGED <<subscribes, view>>
    /\ Forgets(Sender[r])
    /\ Respond(r)
    /\ UNCHANGED <<topoSubscribes, topoView, pending, modules>>

\* Mutant: the old subscriptions go before the addresses are validated.
ServerCmdMyModuleSubscribesEarly(r) ==
    /\ Takes(r, "my_module_subscribes")
    /\ IF Addresses[r] = Absent
       THEN UNCHANGED <<subscribes, view>>
       ELSE /\ subscribes' = [a \in Addr |->
                   IF Valid(r) /\ a \in Addresses[r] THEN subscribes[a] \cup {Sender[r]}
                                                     ELSE subscribes[a] \ {Sender[r]}]
            /\ view' = IF Valid(r) THEN [view EXCEPT ![Sender[r]] = Addresses[r]] ELSE view
    /\ Forgets(Sender[r])
    /\ Respond(r)
    /\ UNCHANGED <<topoSubscribes, topoView, pending, modules>>

\* The response always lists what the client is subscribed to now.
ServerCmdMyModuleSubscribes(r) ==
    /\ Takes(r, "my_module_subscribes")
    /\ IF Valid(r) /\ Addresses[r] # Absent
       THEN /\ subscribes' = [a \in Addr |->
                   IF a \in Addresses[r] THEN subscribes[a] \cup {Sender[r]}
                                         ELSE subscribes[a] \ {Sender[r]}]
            /\ view' = [view EXCEPT ![Sender[r]] = Addresses[r]]
       ELSE UNCHANGED <<subscribes, view>>
    /\ Forgets(Sender[r])
    /\ Respond(r)
    /\ UNCHANGED <<topoSubscribes, topoView, pending, modules>>

ServerCmdTopoSubscribe(r) ==
    /\ Takes(r, "topology_subscribe")
    /\ topoSubscribes' = topoSubscribes \cup {Sender[r]}
    /\ topoView' = topoView \cup {Sender[r]}
    /\ Respond(r)
    /\ UNCHANGED <<subscribes, view, pending, modules, told>>

ServerCmdTopoUnsubscribe(r) ==
    /\ Takes(r, "topology_unsubscribe")
    /\ topoSubscribes' = topoSubscribes \ {Sender[r]}
    /\ topoView' = topoView \ {Sender[r]}
    /\ Respond(r)
    /\ UNCHANGED <<subscribes, view, pending, modules, told>>

\* The client is told the state of modules; one that is not there is an error.
ServerCmdModule(r) ==
    /\ Takes(r, "module")
    /\ told' = [told EXCEPT ![Sender[r]] = [a \in Addr |->
           IF a \in Addresses[r] /\ Sender[r] \in subscribes[a] THEN modules[a] ELSE @[a]]]
    /\ Respond(r)
    /\ UNCHANGED <<subs, pending, modules>>

ServerUnknown(r) ==
    /\ Takes(r, "unknown")
    /\ Respond(r)
    /\ UNCHANGED <<subs, pending, modules, told>>

-----------------------------------------------------------------------------
(* Modules and events *)

\* Some sockets hear that module a became m; server.send skips those that left.
Tell(sockets, a, m) ==
    told' = [s \in Sockets |->
        IF s \in sockets \cap clients /\ s \in subscribes[a]
        THEN [told[s] EXCEPT ![a] = m] ELSE told[s]]

\* sendModuleInfo and the event of module_delete.  The client that asked is left out: it
\* knows from its response.
SendModuleInfo(a, m) == Tell(topoSubscribes \cup subscribes[a], a, m)

HasWriteAccess(s) == s \in Writers

ConfigWriting(a) ==
    \E r \in pending : Kind[r] = "module_set_config" /\ a \in Addresses[r]

\* Mutant: the event goes only to those that subscribed to the topology.
ServerCmdModuleDeleteTopo(r) ==
    /\ Takes(r, "module_delete")
    /\ \E a \in Addresses[r] :
          IF a \notin Addr \/ modules[a] = Absent \/ modules[a].active
          THEN UNCHANGED <<modules, told>>
          ELSE /\ modules' = [modules EXCEPT ![a] = Absent]
               /\ Tell(topoSubscribes \cup {Sender[r]}, a, Absent)
    /\ Respond(r)
    /\ UNCHANGED <<subs, pending>>

\* module_delete, for which every client has access.
ServerCmdModuleDelete(r) ==
    /\ Takes(r, "module_delete")
    /\ \E a \in Addresses[r] :
          IF a \notin Addr \/ modules[a] = Absent \/ modules[a].active
          THEN UNCHANGED <<modules, told>>
          ELSE /\ modules' = [modules EXCEPT ![a] = Absent]
               /\ SendModuleInfo(a, Absent)
    /\ Respond(r)
    /\ UNCHANGED <<subs, pending>>

\* The object is made first; then a configuration that does not parse is refused, without
\* an event.  MtbRc and the base class take their name, without a response.
ServerCmdModuleSetConfig(r) ==
    /\ Takes(r, "module_set_config")
    /\ \E a \in Addresses[r] :
          IF ~HasWriteAccess(Sender[r]) \/ a \notin Addr
          THEN Respond(r) /\ UNCHANGED <<modules, told, pending>>
          ELSE /\ modules' = IF modules[a] = Absent
                             THEN [modules EXCEPT ![a] = Inactive] ELSE modules
               /\ CASE a \in SilentAddr -> UNCHANGED <<answers, told, pending>>
                    [] a \notin SilentAddr /\ (r \in Malformed \/ ConfigWriting(a)) ->
                         Respond(r) /\ UNCHANGED <<told, pending>>
                    [] a \notin SilentAddr /\ r \notin Malformed /\ ~ConfigWriting(a)
                       /\ modules'[a].active ->
                         pending' = pending \cup {r} /\ UNCHANGED <<answers, told>>
                    [] OTHER ->
                         SendModuleInfo(a, modules'[a]) /\ Respond(r) /\ UNCHANGED pending
    /\ UNCHANGED subs

\* Mutant: the refusal does not return.
ServerCmdModuleSpecificCommandGoesOn(r) ==
    /\ Takes(r, "module_specific_command")
    /\ pending' = pending \cup {r}
    /\ IF HasWriteAccess(Sender[r]) /\ r \notin Malformed THEN UNCHANGED answers ELSE Respond(r)
    /\ UNCHANGED <<subs, modules, told>>

\* Also set_address and what modules forward for clients.
ServerCmdModuleSpecificCommand(r) ==
    /\ Takes(r, "module_specific_command")
    /\ IF HasWriteAccess(Sender[r]) /\ r \notin Malformed
       THEN pending' = pending \cup {r} /\ UNCHANGED answers
       ELSE Respond(r) /\ UNCHANGED pending
    /\ UNCHANGED <<subs, modules, told>>

\* The command of r ends well: server.send tests whether the client is there.
CmdOk(r) ==
    /\ Idle /\ r \in pending
    /\ pending' = pending \ {r}
    /\ IF Sender[r] \in clients THEN Respond(r) ELSE UNCHANGED answers
    /\ UNCHANGED <<alive, io, subs, modules, told>>

\* It fails: sendError writes to *socket without the test.
CmdError(r) ==
    /\ Idle /\ r \in pending
    /\ pending' = pending \ {r}
    /\ IF Sender[r] \in clients
       THEN Respond(r) /\ UNCHANGED alive
       ELSE alive' = FALSE /\ UNCHANGED answers
    /\ UNCHANGED <<io, subs, modules, told>>

\* A module is activated or lost; the object is made when there is none.  A bound: it is
\* not lost while its configuration is being written (see MtbDaemon, NoDeletedModule).
StateChanged(a, active) ==
    /\ Idle
    /\ modules[a] # Absent => modules[a].active # active
    /\ modules[a] = Absent => active
    /\ ConfigWriting(a) => active
    /\ modules' = [modules EXCEPT ![a] = [active |-> active, inputs |-> 0]]
    /\ SendModuleInfo(a, modules'[a])
    /\ UNCHANGED <<alive, io, subs, pending, answers>>

\* sendInputsChanged
InputsChanged(a) ==
    /\ Idle
    /\ modules[a] # Absent /\ modules[a].active
    /\ modules' = [modules EXCEPT ![a].inputs = 1 - @]
    /\ Tell(subscribes[a], a, modules'[a])
    /\ UNCHANGED <<alive, io, subs, pending, answers>>

-----------------------------------------------------------------------------

Request(r) ==
    \/ ServerCmdModuleSubscribe(r) \/ ServerCmdModuleUnsubscribe(r)
    \/ ServerCmdMyModuleSubscribes(r)
    \/ ServerCmdTopoSubscribe(r) \/ ServerCmdTopoUnsubscribe(r)
    \/ ServerCmdModule(r) \/ ServerCmdModuleDelete(r) \/ ServerCmdModuleSetConfig(r)
    \/ ServerCmdModuleSpecificCommand(r) \/ ServerUnknown(r)

Next ==
    \/ \E s \in Sockets : \/ ServerNewConnection(s) \/ ClientDisconnected(s)
                          \/ ClientReadyRead(s)
                          \/ \E line \in Requests \cup {Garbage, Ping} : Arrives(s, line)
    \/ SkipLine
    \/ \E r \in Requests : Request(r) \/ CmdOk(r) \/ CmdError(r)
    \/ \E a \in Live : InputsChanged(a) \/ \E active \in BOOLEAN : StateChanged(a, active)

Spec == Init /\ [][Next]_vars

-----------------------------------------------------------------------------
(* Properties *)

\* A client is subscribed exactly to what the responses it got say, over requests that are
\* refused ("do not change anything if validation fails", main.cpp), and a socket that left
\* is in no list: its address may be another client's next.
SubscribedAsTold ==
    /\ \A a \in Addr : subscribes[a] = {s \in Sockets : a \in view[s]}
    /\ topoSubscribes = topoView
    /\ topoView \subseteq clients
    /\ \A s \in Sockets \ clients : view[s] = {}

InputLines == UNION {{input[s][i] : i \in DOMAIN input[s]} : s \in Sockets}

\* A request that was read has one response, unless its command is under way or its client
\* left before; one that waits has none (serverReceived and all that it calls).
AnsweredOnce ==
    alive => \A r \in Requests :
        answers[r] = IF r \in (asked \ InputLines) \ (pending \cup lost) THEN 1 ELSE 0

\* Who subscribed to a module and knew its state once, knows its state still: no change
\* happens without an event, nor an event that misses a subscriber.
SubscribersUpToDate ==
    \A s \in clients, a \in Addr :
        s \in subscribes[a] => told[s][a] \in {Unknown, modules[a]}

\* Between two events a line waits only behind an invalid one, where it stays until more
\* lines come, or when its readyRead is still to come (clientReadyRead).
WaitsBehindInvalid ==
    reading = Nobody => \A s \in Sockets : input[s] # <<>> => s \in news \cup stalled
=============================================================================
