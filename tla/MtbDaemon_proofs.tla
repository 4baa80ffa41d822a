-------------------------- MODULE MtbDaemon_proofs --------------------------
(***************************************************************************)
(* Theorems of MtbDaemon, for any modules, clients, requests and files.    *)
(*                                                                         *)
(* The invariants are predicates on a record s like d, and on u like usb.  *)
(* Most of them speak of the commands under way as a set, ToSet(s.bus);    *)
(* what depends on their order is a relation between earlier and later     *)
(* commands (Unique, Follows).                                             *)
(***************************************************************************)
EXTENDS MtbDaemon, SequenceFacts

-----------------------------------------------------------------------------
(* Types *)

Fields ==
    {"alive", "open", "tReconnect", "known", "speed", "activeModules",
     "fileSpeed", "modules", "bus", "retries", "newTimerPending",
     "failTimerPending", "topoSubscribes", "asked", "replies", "told",
     "gaveUp", "speedFailed"}

\* Every command, with the callbacks that it can carry.
Commands ==
    [kind : {"Info"}, to : Addr, arg : 0 .. ATTEMPTS, who : {"daemon"}]
    \cup [kind : {"Inputs"}, to : Addr, arg : {0}, who : {"object", "deleted"}]
    \cup [kind : {"UsbInfo", "UsbModules"}, to : {0}, arg : {0}, who : {"connect"}]
    \cup [kind : {"BusSpeed"}, to : {0}, arg : Speeds,
          who : Requests \cup {"connect", "nobody"}]
    \cup [kind : {"UsbSpeed"}, to : {0}, arg : Speeds,
          who : Requests \cup {"connect"}]

\* What a client can hear of MTB-USB.
Reports == {Null} \cup [connected : BOOLEAN, active_modules : SUBSET Addr]

\* A record with these fields, and each field of its type.
Shaped(s) == s = [f \in Fields |-> s[f]]

Typed(s) ==
    /\ s.alive \in BOOLEAN
    /\ s.open \in BOOLEAN
    /\ s.tReconnect \in BOOLEAN
    /\ s.known \in SUBSET {"info", "modules"}
    /\ s.speed \in Speeds \cup {Unset}
    /\ s.activeModules \in SUBSET Addr
    /\ s.fileSpeed \in Speeds \cup {Unset}
    /\ s.modules \in [Addr -> Objects \cup {Null}]
    /\ s.bus \in Seq(Commands)
    /\ s.retries \in [Addr -> [1 .. ATTEMPTS -> Nat]]
    /\ s.newTimerPending \in BOOLEAN
    /\ s.failTimerPending \in BOOLEAN
    /\ s.topoSubscribes \in SUBSET Clients
    /\ s.asked \in SUBSET Requests
    /\ s.replies \in [Requests -> Seq({"ok", "error"})]
    /\ s.told \in [Clients -> Reports]
    /\ s.gaveUp \in SUBSET Addr
    /\ s.speedFailed \in BOOLEAN

UsbTyped(u) ==
    u \in [present : [Addr -> Types \cup {None}], list : SUBSET Addr,
           speed : Speeds, busSpeed : Speeds]

\* From s to t only the fields F change.
Same(s, t, F) == \A f \in Fields \ F : t[f] = s[f]

-----------------------------------------------------------------------------
(* The inductive invariant *)

\* The daemon looks for the port exactly while it is closed, and a closed port
\* leaves nothing of MTB-USB behind.
Closed(s) ==
    /\ s.tReconnect <=> ~s.open
    /\ ~s.open => s.bus = <<>> /\ s.known = {} /\ s.activeModules = {}

\* One chain of commands follows the opening of the port, and a request to
\* change the speed has one command whose end it waits for.
Unique ==
    {p \in Commands \X Commands :
        p[1].who = p[2].who => p[1].who \notin Requests \cup {"connect"}}

\* How far that chain is.
Connecting(s) ==
    /\ OrderedBy(s.bus, Unique)
    /\ \A c \in ToSet(s.bus) :
          /\ c.who = "connect" => "modules" \notin s.known
          /\ c.kind = "UsbInfo" => "info" \notin s.known
          /\ c.kind \in SpeedCmds => "info" \in s.known

\* The request of a command under way was made, and has no response yet.
Answering(s) ==
    /\ \A c \in ToSet(s.bus) : c.who \in Requests => c.who \in s.asked
    /\ \A r \in Requests :
          Len(s.replies[r]) =
             IF r \in s.asked /\ (\A c \in ToSet(s.bus) : c.who # r) THEN 1 ELSE 0

\* SubscribersKnow, and who does not subscribe was told nothing.
Telling(s) ==
    /\ \A c \in s.topoSubscribes :
          \/ s.told[c] \in {Null, MtbUsbJson(s)}
          \/ s.newTimerPending \/ s.failTimerPending
    /\ \A c \in Clients \ s.topoSubscribes : s.told[c] = Null

\* A callback into an object that was not destroyed has that object.
Pointing(s) ==
    \A c \in ToSet(s.bus) : c.who = "object" => s.modules[c.to] # Null

\* What is being activated has its command under way and attempts left.
Activating(s) ==
    \A a \in Addr : IsActivating(s, a) =>
       /\ s.modules[a].class = "MtbRc"
       /\ Own(s, a).activationsRemaining > 0
       /\ \E c \in ToSet(s.bus) : c.kind = "Inputs" /\ c.to = a

\* ListedIsLookedAfter, by what outlives the commands of other activations.
LookedAfter(s, a) ==
    \/ IsActive(s, a)
    \/ \E c \in ToSet(s.bus) : c.kind = "Info" /\ c.to = a
    \/ \E n \in 1 .. ATTEMPTS : s.retries[a][n] > 0
    \/ /\ s.modules[a] # Null
       /\ s.modules[a].class = "MtbRc" => Own(s, a).activationsRemaining > 0

Listing(s) == \A a \in s.activeModules \ s.gaveUp : LookedAfter(s, a)

Sound(s) ==
    /\ Closed(s) /\ Connecting(s) /\ Answering(s) /\ Telling(s)
    /\ Pointing(s) /\ Activating(s) /\ Listing(s)

TypeOK == Shaped(d) /\ Typed(d) /\ UsbTyped(usb)

IInv == TypeOK /\ (d.alive => Sound(d))

-----------------------------------------------------------------------------
(* What steps leave alone *)

\* An object that can be active, now or after another attempt.
InUse(m) ==
    /\ m # Null
    /\ m.class = "MtbRc"
    /\ m.own.active \/ m.own.activationsRemaining > 0

\* From d to t the object of a keeps its type, and its attempts are used up.
Kept(t, a) ==
    /\ d.modules[a] # Null => /\ t.modules[a] # Null
                              /\ t.modules[a].type = d.modules[a].type
    /\ InUse(t.modules[a]) => InUse(d.modules[a])

\* ... so do all objects, and no command is sent to an object.
Keeps(t) ==
    /\ \A c \in ToSet(t.bus) : c.kind = "Inputs" => c \in ToSet(d.bus)
    /\ t.alive => \A a \in Addr : Kept(t, a)

\* Changes of the speed do not overlap: broadcasts of one speed come before
\* what waits for them.
Follows ==
    {p \in Commands \X Commands :
        p[1].kind \in SpeedCmds /\ p[2].kind \in SpeedCmds =>
           /\ p[1].kind = "BusSpeed" /\ p[1].who = "nobody"
           /\ p[2].kind = "BusSpeed" /\ p[1].arg = p[2].arg}

\* From d to t nothing happens to the speed.
Steady(t) ==
    /\ \A c \in ToSet(t.bus) : c.kind \in SpeedCmds => c \in ToSet(d.bus)
    /\ \A c \in ToSet(d.bus) : c.kind \in SpeedCmds => c \in ToSet(t.bus)
    /\ OrderedBy(d.bus, Follows) => OrderedBy(t.bus, Follows)
    /\ t.speed = d.speed /\ ("info" \in t.known <=> "info" \in d.known)
    /\ t.speedFailed = d.speedFailed

\* The port closed: a change of the speed that was under way failed.
Broken(t) ==
    t.alive => /\ ToSet(t.bus) = {} /\ t.known = {}
               /\ d.speedFailed => t.speedFailed
               /\ (\E c \in ToSet(d.bus) : c.kind \in SpeedCmds /\ c.who # "nobody")
                     => t.speedFailed

-----------------------------------------------------------------------------
(* Commands *)

\* The kinds of commands and whose callbacks they carry.
LEMMA CommandKinds ==
    ASSUME NEW c \in Commands
    PROVE  /\ c.kind \in {"Info", "Inputs", "UsbInfo", "UsbModules"} \cup SpeedCmds
           /\ c.kind = "Info" => c.to \in Addr /\ c.arg \in 0 .. ATTEMPTS
                                 /\ c.who = "daemon"
           /\ c.kind = "Inputs" => c.to \in Addr /\ c.who \in {"object", "deleted"}
           /\ c.kind \in {"UsbInfo", "UsbModules"} => c.to = 0 /\ c.who = "connect"
           /\ c.kind = "BusSpeed" => /\ c.to = 0 /\ c.arg \in Speeds
                                     /\ c.who \in Requests \cup {"connect", "nobody"}
           /\ c.kind = "UsbSpeed" => /\ c.to = 0 /\ c.arg \in Speeds
                                     /\ c.who \in Requests \cup {"connect"}
           /\ c.who \in {"object", "deleted"} <=> c.kind = "Inputs"
           /\ c.who \in Requests => c.kind \in SpeedCmds
           /\ c.who = "connect" => c.to = 0
           /\ c.to = 0 <=> c.kind \notin {"Info", "Inputs"}
BY MtbDaemonAssumption DEF Commands, SpeedCmds, Callers

\* The commands that the daemon makes.
LEMMA CommandTypes ==
    /\ \A a \in Addr, n \in 0 .. ATTEMPTS : Cmd("Info", a, n, "daemon") \in Commands
    /\ \A a \in Addr : Cmd("Inputs", a, 0, "object") \in Commands
    /\ \A k \in {"UsbInfo", "UsbModules"} : Cmd(k, 0, 0, "connect") \in Commands
    /\ \A v \in Speeds, w \in Requests \cup {"connect", "nobody"} :
          Cmd("BusSpeed", 0, v, w) \in Commands
    /\ \A v \in Speeds, w \in Requests \cup {"connect"} :
          Cmd("UsbSpeed", 0, v, w) \in Commands
BY DEF Cmd, Commands

\* What two commands have to differ in.
LEMMA UniquePair ==
    ASSUME NEW x \in Commands, NEW y \in Commands
    PROVE  <<x, y>> \in Unique <=>
              (x.who = y.who => x.who \notin Requests \cup {"connect"})
BY DEF Unique

\* Command c0 of d ended and left w: what the others have in common.
Ended(c0, w) ==
    /\ c0 \in Commands /\ c0 \in ToSet(d.bus)
    /\ OrderedBy(w.bus, Unique)
    /\ OrderedBy(d.bus, Follows) => OrderedBy(w.bus, Follows)
    /\ \A c \in ToSet(w.bus) : c \in Commands /\ c \in ToSet(d.bus)
    /\ \A c \in ToSet(d.bus) : c \in ToSet(w.bus) \/ c = c0
    /\ \A c \in ToSet(w.bus) : c.who = c0.who => c.who \notin Requests \cup {"connect"}
    /\ Shaped(w) /\ Typed(w) /\ Same(d, w, {"bus"})
    /\ d.open

LEMMA Taken ==
    ASSUME IInv, d.alive, NEW i \in DOMAIN d.bus
    PROVE  Ended(d.bus[i], Without(i))
<1>1. /\ d.bus \in Seq(Commands) /\ OrderedBy(d.bus, Unique)
      /\ Shaped(d) /\ Typed(d) /\ Closed(d)
  BY DEF IInv, TypeOK, Typed, Sound, Connecting
<1> DEFINE q == RemoveAt(d.bus, i)
           c0 == d.bus[i]
<1>2. /\ q \in Seq(Commands)
      /\ OrderedBy(q, Unique)
      /\ ToSet(q) \subseteq ToSet(d.bus)
      /\ ToSet(d.bus) \subseteq ToSet(q) \cup {c0}
      /\ \A c \in ToSet(q) : <<c, c0>> \in Unique \/ <<c0, c>> \in Unique
      /\ OrderedBy(d.bus, Follows) => OrderedBy(q, Follows)
  BY <1>1, RemoveAtOrdered
<1>3. c0 \in Commands /\ c0 \in ToSet(d.bus)
  BY <1>1 DEF ToSet
<1>4. Without(i) = [d EXCEPT !.bus = q]
  BY DEF Without
<1> HIDE DEF q
<1>5. \A c \in ToSet(q) : c \in Commands
  BY <1>2 DEF ToSet
<1>6. \A c \in ToSet(q) : c.who = c0.who => c.who \notin Requests \cup {"connect"}
  BY <1>2, <1>3, <1>5, UniquePair
<1>7. /\ Shaped(Without(i)) /\ Same(d, Without(i), {"bus"})
      /\ Without(i).bus = q
  BY <1>1, <1>4 DEF Shaped, Same, Fields
<1>8. Typed(Without(i))
  BY <1>1, <1>2, <1>7 DEF Typed, Same, Fields
<1>9. d.open
  BY <1>1, <1>3 DEF Closed, ToSet, Typed
<1>. QED  BY <1>2, <1>3, <1>5, <1>6, <1>7, <1>8, <1>9 DEF Ended

\* Another command than those of the speed ended, or none.
LEMMA SteadyEnded ==
    ASSUME NEW c0, NEW w, Ended(c0, w), c0.kind \notin SpeedCmds,
           NEW t, t.bus = w.bus, t.speed = d.speed, t.known = d.known,
           t.speedFailed = d.speedFailed
    PROVE  Steady(t)
BY DEF Ended, Steady

LEMMA SteadySame ==
    ASSUME NEW t, t.bus = d.bus, t.speed = d.speed, t.known = d.known,
           t.speedFailed = d.speedFailed
    PROVE  Steady(t)
BY DEF Steady

\* The objects stay as they are.
LEMMA KeepsSame ==
    ASSUME NEW t, t.modules = d.modules,
           \A c \in ToSet(t.bus) : c.kind = "Inputs" => c \in ToSet(d.bus)
    PROVE  Keeps(t)
BY DEF Keeps, Kept

-----------------------------------------------------------------------------
(* The error callbacks of all commands, when the port closes *)

\* What FoldLeft computes: one call after the other, in the order of the commands.
Calls(s, q, after) ==
    /\ after[0] = s
    /\ \A k \in 1 .. Len(q) : after[k] = CallError(after[k - 1], q[k])
    /\ FoldLeft(CallError, s, q) = after[Len(q)]

LEMMA InOrder ==
    ASSUME NEW s, NEW X, NEW q \in Seq(X)
    PROVE  \E after : Calls(s, q, after)
<1> DEFINE n == Len(q)
           Body(g, T) == IF T = {} THEN s ELSE CallError(g[T \ {Max(T)}], q[Max(T)])
           Sub(k) == {T \in SUBSET DOMAIN q : T \subseteq 1 .. k}
           Works(k) == \E g : g = [T \in Sub(k) |-> Body(g, T)]
           iter == CHOOSE g : g = [T \in SUBSET DOMAIN q |-> Body(g, T)]
<1>1. FoldLeft(CallError, s, q) = iter[DOMAIN q]
  BY Zenon DEF FoldLeft, MapThenFoldSet
<1>2. Works(0)
  <2>1. [T \in Sub(0) |-> s] = [T \in Sub(0) |-> Body([U \in Sub(0) |-> s], T)]
     <3>1. \A T \in Sub(0) : T = {}
       OBVIOUS
     <3>. QED BY <3>1
  <2>. QED BY <2>1
<1>3. ASSUME NEW k \in Nat, Works(k) PROVE Works(k+1)
  <2>1. PICK g : g = [T \in Sub(k) |-> Body(g, T)]
    BY <1>3
  <2> DEFINE h == [T \in Sub(k + 1) |-> Body(g, T)]
  <2>2. ASSUME NEW T \in Sub(k+1)
        PROVE  Body(h, T) = Body(g, T)
    <3>1. CASE T = {}
      BY <3>1
    <3>2. CASE T # {}
      <4>1. Max(T) \in T /\ \A y \in T : y <= Max(T)
        <5>1. T \in SUBSET (1 .. (k + 1)) /\ k + 1 \in Nat
          OBVIOUS
        <5>. QED BY <3>2, <5>1, MaxFacts
      <4>2. T \ {Max(T)} \in Sub(k)
        BY <4>1
      <4>3. h[T \ {Max(T)}] = Body(g, T \ {Max(T)})
        BY <4>2
      <4>4. g[T \ {Max(T)}] = Body(g, T \ {Max(T)})
        BY <4>2, <2>1
      <4>. QED BY <4>3, <4>4, Zenon
    <3>. QED BY <3>1, <3>2
  <2>3. h = [T \in Sub(k+1) |-> Body(h, T)]
    BY <2>2, Zenon
  <2>. QED BY <2>3
<1>4. \A k \in Nat : Works(k)
  <2> DEFINE S == {k \in Nat : Works(k)}
  <2> HIDE DEF Works
  <2>0. S \in SUBSET Nat /\ 0 \in S /\ \A k \in S : k + 1 \in S
    BY <1>2, <1>3
  <2> HIDE DEF S
  <2>1. S = Nat
    BY <2>0, Induction
  <2>. QED BY <2>1 DEF S
<1>5. iter = [T \in SUBSET DOMAIN q |-> Body(iter, T)]
  <2>1. Sub(n) = SUBSET DOMAIN q
    OBVIOUS
  <2>2. Works(n)
    <3>1. n \in Nat
      OBVIOUS
    <3> HIDE DEF Works
    <3>. QED BY <1>4, <3>1
  <2>3. \E g : g = [T \in SUBSET DOMAIN q |-> Body(g, T)]
    BY <2>1, <2>2
  <2>. QED BY <2>3, Zenon
<1> HIDE DEF iter
<1> DEFINE after == [k \in 0 .. n |-> iter[1 .. k]]
<1>6. after[0] = s
  <2>1. 1 .. 0 = {}
    OBVIOUS
  <2>2. iter[{}] = s
    BY <1>5
  <2>. QED BY <2>1, <2>2
<1>7. ASSUME NEW k \in 1 .. n
      PROVE  after[k] = CallError(after[k-1], q[k])
  <2>1. Max(1 .. k) = k
    <3>0. k \in Nat /\ k \in 1 .. k
      OBVIOUS
    <3>1. Max(1 .. k) \in 1 .. k /\ \A y \in 1 .. k : y <= Max(1 .. k)
      BY <3>0, MaxFacts
    <3>. QED BY <3>0, <3>1
  <2>2. (1 .. k) \ {k} = 1 .. (k - 1)
    OBVIOUS
  <2>3. iter[1 .. k] = Body(iter, 1 .. k)
    <3>1. 1 .. k \in SUBSET DOMAIN q
      OBVIOUS
    <3>. QED BY <1>5, <3>1, Zenon
  <2>4. 1 .. k # {}
    <3>1. k \in 1 .. k
      OBVIOUS
    <3>. QED BY <3>1
  <2>5. iter[1 .. k] = CallError(iter[1 .. (k - 1)], q[k])
    BY <2>1, <2>2, <2>3, <2>4, Zenon
  <2>. QED BY <2>5
<1>8. FoldLeft(CallError, s, q) = after[n]
  BY <1>1
<1>. QED
  <2> HIDE DEF after
  <2>. QED BY <1>6, <1>7, <1>8, Zenon DEF Calls

\* What MtbModule does to its members.
LEMMA OwnTypes ==
    ASSUME NEW w \in Owns
    PROVE  /\ \A b \in BOOLEAN : [w EXCEPT !.activating = b] \in Owns
           /\ \A b \in BOOLEAN : [w EXCEPT !.active = b] \in Owns
           /\ Mod!ActivationError(w) \in Owns
           /\ \A b \in BOOLEAN : Mod!ModuleActivate(w, b) \in Owns
           /\ Mod!MtbBusLost(w) \in Owns
           /\ Mod!FullyActivated(w) \in Owns
<1>1. \A b \in BOOLEAN : [w EXCEPT !.activating = b] \in Owns
  BY DEF Owns
<1>2. \A b \in BOOLEAN : [w EXCEPT !.active = b] \in Owns
  BY DEF Owns
<1>3. w.activationsRemaining \in Nat /\ MTB_MODULE_ACTIVATIONS \in Nat /\ ~w.rebooting
  BY MtbDaemonAssumption DEF Owns
<1>4. \A v \in Owns, n \in Nat : [v EXCEPT !.activationsRemaining = n] \in Owns
  BY DEF Owns
<1>5. \A v \in Owns, b \in BOOLEAN : [v EXCEPT !.activating = b] \in Owns
  BY DEF Owns
<1>6. \A v \in Owns, b \in BOOLEAN : [v EXCEPT !.active = b] \in Owns
  BY DEF Owns
<1>7. \A v \in Owns, b \in BOOLEAN : [v EXCEPT !.inBootloader = b] \in Owns
  BY DEF Owns
<1>8. \A v \in Owns, b \in BOOLEAN : [v EXCEPT !.activatedByMtbUsb = b] \in Owns
  BY DEF Owns
<1>9. \A v \in Owns : [v EXCEPT !.rebooting = FALSE] \in Owns
  BY DEF Owns
<1>10. Mod!ActivationError(w) \in Owns
  <2> DEFINE v == [w EXCEPT !.activating = FALSE]
             n == IF w.activationsRemaining > 0 THEN w.activationsRemaining - 1 ELSE 0
  <2>1. v \in Owns
    BY <1>1
  <2>3. n \in Nat
    BY <1>3
  <2>2. Mod!ActivationError(w) = [v EXCEPT !.activationsRemaining = n]
    BY DEF Mod!ActivationError, Owns
  <2>. QED  BY <1>4, <2>1, <2>2, <2>3
<1>11. ASSUME NEW b \in BOOLEAN
       PROVE  Mod!ModuleActivate(w, b) \in Owns
  <2>1. [w EXCEPT !.activationsRemaining = MTB_MODULE_ACTIVATIONS] \in Owns
    BY <1>3, <1>4
  <2>. QED  BY <1>7, <1>8, <2>1 DEF Mod!ModuleActivate
<1>12. Mod!MtbBusLost(w) \in Owns
  <2>1. [[w EXCEPT !.activating = FALSE] EXCEPT !.active = FALSE] \in Owns
    BY <1>1, <1>6
  <2>. QED  BY <1>4, <2>1 DEF Mod!MtbBusLost
<1>13. Mod!FullyActivated(w) \in Owns
  <2> DEFINE v == [w EXCEPT !.activating = FALSE, !.activationsRemaining = 0,
                            !.active = TRUE, !.rebooting = FALSE]
  <2>1. [[w EXCEPT !.activating = FALSE] EXCEPT !.activationsRemaining = 0] \in Owns
    BY <1>1, <1>4
  <2>2. v \in Owns
    BY <1>6, <1>9, <2>1
  <2>3. Mod!FullyActivated(w) = v
    BY <1>3, Zenon DEF Mod!FullyActivated
  <2>. QED  BY <2>2, <2>3
<1>. QED  BY <1>1, <1>2, <1>10, <1>11, <1>12, <1>13

\* What of it matters here.
LEMMA OwnFacts ==
    ASSUME NEW w \in Owns
    PROVE  /\ w.active \in BOOLEAN /\ w.activating \in BOOLEAN
           /\ w.activationsRemaining \in Nat
           /\ LET v == Mod!ActivationError(w)
              IN  /\ v.active = w.active /\ ~v.activating
                  /\ v.activationsRemaining = IF w.activationsRemaining > 0
                                              THEN w.activationsRemaining - 1 ELSE 0
           /\ \A b \in BOOLEAN :
                 LET v == Mod!ModuleActivate(w, b)
                 IN  /\ v.active = w.active /\ v.activating = w.activating
                     /\ v.activationsRemaining = MTB_MODULE_ACTIVATIONS
           /\ LET v == Mod!MtbBusLost(w)
              IN  ~v.active /\ ~v.activating /\ v.activationsRemaining = 0
           /\ LET v == Mod!FullyActivated(w)
              IN  v.active /\ ~v.activating /\ v.activationsRemaining = 0
<1>1. /\ w.active \in BOOLEAN /\ w.activating \in BOOLEAN
      /\ w.activationsRemaining \in Nat /\ ~w.rebooting
  BY DEF Owns
<1>2. LET v == Mod!ActivationError(w)
      IN  /\ v.active = w.active /\ ~v.activating
          /\ v.activationsRemaining = IF w.activationsRemaining > 0
                                      THEN w.activationsRemaining - 1 ELSE 0
  BY DEF Mod!ActivationError, Owns
<1>3. \A b \in BOOLEAN :
         LET v == Mod!ModuleActivate(w, b)
         IN  /\ v.active = w.active /\ v.activating = w.activating
             /\ v.activationsRemaining = MTB_MODULE_ACTIVATIONS
  BY DEF Mod!ModuleActivate, Owns
<1>4. LET v == Mod!MtbBusLost(w)
      IN  ~v.active /\ ~v.activating /\ v.activationsRemaining = 0
  BY DEF Mod!MtbBusLost, Owns
<1>5. Mod!FullyActivated(w) = [w EXCEPT !.activating = FALSE, !.activationsRemaining = 0,
                                       !.active = TRUE, !.rebooting = FALSE]
  BY <1>1, Zenon DEF Mod!FullyActivated
<1>6. LET v == Mod!FullyActivated(w)
      IN  v.active /\ ~v.activating /\ v.activationsRemaining = 0
  BY <1>5 DEF Owns
<1>. QED  BY <1>1, <1>2, <1>3, <1>4, <1>6

\* The object of a gets other members in MtbModule.
LEMMA OwnChange ==
    ASSUME NEW m \in [Addr -> Objects \cup {Null}], NEW a \in Addr, m[a] # Null,
           NEW w \in Owns
    PROVE  LET n == [m EXCEPT ![a].own = w]
           IN  /\ n \in [Addr -> Objects \cup {Null}]
               /\ n[a] # Null /\ n[a].type = m[a].type /\ n[a].class = m[a].class
               /\ n[a].own = w
               /\ \A b \in Addr \ {a} : n[b] = m[b]
               /\ m[a].own \in Owns
<1> DEFINE o == [m[a] EXCEPT !.own = w]
<1>1. m[a] \in Objects
  OBVIOUS
<1>2. /\ o \in Objects /\ o.type = m[a].type /\ o.class = m[a].class /\ o.own = w
      /\ m[a].own \in Owns
  BY <1>1 DEF Objects
<1>3. o # Null
  BY <1>2, MtbDaemonAssumption
<1>4. [m EXCEPT ![a].own = w] = [m EXCEPT ![a] = o]
  OBVIOUS
<1> HIDE DEF o
<1>. QED  BY <1>2, <1>3, <1>4

\* One callback.
LEMMA CallErrorEffect ==
    ASSUME NEW s, Shaped(s), Typed(s), NEW c \in Commands, ~Fatal(c),
           c.who = "object" => s.modules[c.to] # Null
    PROVE  LET t == CallError(s, c)
           IN  /\ Shaped(t) /\ Typed(t)
               /\ Same(s, t, {"alive", "retries", "gaveUp", "modules", "replies",
                             "speedFailed"})
               /\ c.who = "deleted" => ~t.alive /\ Same(s, t, {"alive"})
               /\ c.who # "deleted" => t.alive = s.alive
               /\ c.kind = "Info" =>
                     /\ Same(s, t, {"retries", "gaveUp"})
                     /\ \/ /\ c.arg > 0
                           /\ t.retries = [s.retries EXCEPT ![c.to][c.arg] = @ + 1]
                           /\ t.gaveUp = s.gaveUp
                        \/ /\ t.retries = s.retries
                           /\ t.gaveUp = s.gaveUp \cup {c.to}
               /\ c.who = "object" =>
                     /\ Same(s, t, {"modules", "gaveUp"})
                     /\ t.modules = [s.modules EXCEPT ![c.to].own = Mod!ActivationError(@)]
                     /\ t.gaveUp = IF Own(s, c.to).activationsRemaining = 1
                                   THEN s.gaveUp \cup {c.to} ELSE s.gaveUp
               /\ c.who \in Requests =>
                     /\ Same(s, t, {"replies", "speedFailed"})
                     /\ t.replies = [s.replies EXCEPT ![c.who] = Append(@, "error")]
                     /\ t.speedFailed
               /\ c.who = "nobody" => t = s
<1> DEFINE t == CallError(s, c)
<1>1. CASE c.who = "deleted"
  <2>0. c.kind = "Inputs" /\ c.who # "object" /\ c.who \notin Requests
    BY <1>1, CommandKinds, MtbDaemonAssumption DEF Callers
  <2>1. t = [s EXCEPT !.alive = FALSE]
    BY <1>1, <2>0 DEF CallError, SpeedCmds
  <2>2. Shaped(t) /\ Same(s, t, {"alive"}) /\ ~t.alive
    BY <2>1 DEF Shaped, Same, Fields
  <2>3. Typed(t)
    BY <2>1, <2>2 DEF Typed, Same, Fields
  <2>. QED  BY <1>1, <2>2, <2>3, CommandKinds, MtbDaemonAssumption DEF Same, Callers
<1>2. CASE c.kind = "Info"
  <2>1. c.to \in Addr /\ c.arg \in 0 .. ATTEMPTS /\ c.who = "daemon"
    BY <1>2, CommandKinds
  <2>2. t = NoInfo(s, c.to, c.arg)
    BY <1>2, <2>1 DEF CallError, SpeedCmds
  <2>3. CASE c.arg > 0
    <3>1. t = [s EXCEPT !.retries[c.to][c.arg] = @ + 1]
      BY <2>2, <2>3 DEF NoInfo
    <3>2. /\ Shaped(t) /\ Same(s, t, {"retries"})
          /\ t.retries = [s.retries EXCEPT ![c.to][c.arg] = @ + 1]
      BY <3>1 DEF Shaped, Same, Fields
    <3>3. Typed(t)
      <4>1. s.retries \in [Addr -> [1 .. ATTEMPTS -> Nat]] /\ c.arg \in 1 .. ATTEMPTS
        BY <2>1, <2>3, MtbDaemonAssumption DEF Typed
      <4>2. t.retries \in [Addr -> [1 .. ATTEMPTS -> Nat]]
        <5>1. s.retries[c.to] \in [1 .. ATTEMPTS -> Nat]
          BY <2>1, <4>1
        <5>3. \A f \in [1 .. ATTEMPTS -> Nat], n \in 1 .. ATTEMPTS :
                 [f EXCEPT ![n] = @ + 1] \in [1 .. ATTEMPTS -> Nat]
          OBVIOUS
        <5>2. [s.retries[c.to] EXCEPT ![c.arg] = @ + 1] \in [1 .. ATTEMPTS -> Nat]
          BY <4>1, <5>1, <5>3
        <5>. QED  BY <2>1, <3>2, <4>1, <5>2
      <4>. QED  BY <3>2, <4>2 DEF Typed, Same, Fields
    <3>. QED  BY <1>2, <2>1, <2>3, <3>2, <3>3, MtbDaemonAssumption DEF Same, Fields, Callers
  <2>4. CASE ~(c.arg > 0)
    <3>1. t = [s EXCEPT !.gaveUp = @ \cup {c.to}]
      BY <2>2, <2>4 DEF NoInfo
    <3>2. /\ Shaped(t) /\ Same(s, t, {"gaveUp"})
          /\ t.gaveUp = s.gaveUp \cup {c.to}
      BY <3>1 DEF Shaped, Same, Fields
    <3>3. Typed(t)
      BY <2>1, <3>2 DEF Typed, Same, Fields
    <3>. QED  BY <1>2, <2>1, <3>2, <3>3, MtbDaemonAssumption DEF Same, Fields, Callers
  <2>. QED  BY <2>3, <2>4
<1>3. CASE c.who = "object"
  <2>1. c.to \in Addr /\ c.kind = "Inputs"
    BY <1>3, CommandKinds
  <2>2. t = NoInputs(s, c.to)
    BY <1>3, <2>1 DEF CallError, SpeedCmds
  <2>3. /\ Shaped(t)
        /\ Same(s, t, {"modules", "gaveUp"})
        /\ t.modules = [s.modules EXCEPT ![c.to].own = Mod!ActivationError(@)]
        /\ t.gaveUp = IF Own(s, c.to).activationsRemaining = 1
                      THEN s.gaveUp \cup {c.to} ELSE s.gaveUp
    BY <2>2 DEF NoInputs, Shaped, Same, Fields
  <2>4. s.modules[c.to] \in Objects
    BY <1>3, <2>1 DEF Typed
  <2>5. t.modules \in [Addr -> Objects \cup {Null}]
    <3>1. /\ s.modules \in [Addr -> Objects \cup {Null}]
          /\ Mod!ActivationError(s.modules[c.to].own) \in Owns
      BY <2>4, OwnTypes DEF Objects, Typed
    <3>2. t.modules = [s.modules EXCEPT ![c.to].own =
                          Mod!ActivationError(s.modules[c.to].own)]
      BY <2>3
    <3>. QED  BY <1>3, <2>1, <3>1, <3>2, OwnChange
  <2>6. Typed(t)
    <3>1. t.gaveUp \in SUBSET Addr
      BY <2>1, <2>3 DEF Typed
    <3>. QED  BY <2>3, <2>5, <3>1 DEF Typed, Same, Fields
  <2>. QED  BY <1>3, <2>1, <2>3, <2>6, MtbDaemonAssumption DEF Same, Fields, Callers
<1>4. CASE c.who \in Requests
  <2>1. c.kind \in SpeedCmds /\ c.who \notin {"deleted", "object", "daemon", "nobody"}
    BY <1>4, CommandKinds, MtbDaemonAssumption DEF Callers
  <2>2. t = [Reply(s, c.who, "error") EXCEPT !.speedFailed = TRUE]
    BY <1>4, <2>1 DEF CallError, SpeedCmds
  <2>3. /\ Shaped(t)
        /\ Same(s, t, {"replies", "speedFailed"})
        /\ t.replies = [s.replies EXCEPT ![c.who] = Append(@, "error")]
        /\ t.speedFailed = TRUE
    BY <2>2 DEF Reply, Shaped, Same, Fields
  <2>4. t.replies \in [Requests -> Seq({"ok", "error"})]
    <3>1. Append(s.replies[c.who], "error") \in Seq({"ok", "error"})
      BY <1>4 DEF Typed
    <3>. QED  BY <2>3, <3>1 DEF Typed
  <2>5. Typed(t)
    BY <2>3, <2>4 DEF Typed, Same, Fields
  <2>. QED  BY <1>4, <2>1, <2>3, <2>5 DEF Same, Fields, SpeedCmds
<1>5. CASE c.who = "nobody"
  <2>1. c.kind = "BusSpeed" /\ "nobody" \notin Requests
    BY <1>5, CommandKinds, MtbDaemonAssumption DEF SpeedCmds, Callers
  <2>2. t = s
    BY <1>5, <2>1 DEF CallError
  <2>. QED  BY <1>5, <2>1, <2>2 DEF Same, Fields
<1>6. \/ c.who \in {"deleted", "object", "nobody"} \cup Requests
      \/ c.kind = "Info"
  BY CommandKinds DEF Fatal, SpeedCmds
<1>. QED  BY <1>1, <1>2, <1>3, <1>4, <1>5, <1>6

\* What the first k callbacks did to s.
After(s, k, t) ==
    /\ Shaped(t) /\ Typed(t)
    /\ Same(s, t, {"alive", "retries", "gaveUp", "modules", "replies", "speedFailed"})
    /\ t.alive => s.alive /\ \A j \in 1 .. k : s.bus[j].who # "deleted"
    /\ \A a \in Addr :
          /\ t.modules[a] = Null <=> s.modules[a] = Null
          /\ s.modules[a] # Null =>
                /\ t.modules[a].type = s.modules[a].type
                /\ t.modules[a].class = s.modules[a].class
                /\ Own(t, a).active = Own(s, a).active
                /\ Own(t, a).activationsRemaining > 0
                      => Own(s, a).activationsRemaining > 0
                /\ Own(t, a).activating =>
                      /\ Own(s, a).activating
                      /\ \A j \in 1 .. k : s.bus[j].who = "object" => s.bus[j].to # a
    /\ \A r \in Requests :
          Len(t.replies[r]) = Len(s.replies[r])
                              + IF \E j \in 1 .. k : s.bus[j].who = r THEN 1 ELSE 0
    /\ s.speedFailed => t.speedFailed
    /\ (\E j \in 1 .. k : s.bus[j].who \in Requests) => t.speedFailed

LEMMA AfterNext ==
    ASSUME NEW s, Shaped(s), Typed(s), OrderedBy(s.bus, Unique), Pointing(s),
           \A i \in DOMAIN s.bus : ~Fatal(s.bus[i]),
           NEW k \in 1 .. Len(s.bus), NEW t, After(s, k - 1, t)
    PROVE  After(s, k, CallError(t, s.bus[k]))
<1> DEFINE c == s.bus[k]
           u == CallError(t, c)
<1>1. /\ s.bus \in Seq(Commands) /\ DOMAIN s.bus = 1 .. Len(s.bus) /\ Len(s.bus) \in Nat
      /\ k \in DOMAIN s.bus
  BY DEF Typed
<1>2. c \in Commands /\ c \in ToSet(s.bus) /\ ~Fatal(c)
  BY <1>1 DEF ToSet
<1>3. Shaped(t) /\ Typed(t)
  BY DEF After
<1>4. c.to \in Addr \cup {0}
  BY <1>2, CommandKinds DEF SpeedCmds
<1>5. c.who = "object" => c.to \in Addr /\ s.modules[c.to] # Null /\ t.modules[c.to] # Null
  BY <1>2, CommandKinds DEF Pointing, After
<1>6. /\ Shaped(u) /\ Typed(u)
      /\ Same(t, u, {"alive", "retries", "gaveUp", "modules", "replies", "speedFailed"})
      /\ c.who = "deleted" => ~u.alive /\ Same(t, u, {"alive"})
      /\ c.who # "deleted" => u.alive = t.alive
      /\ c.kind = "Info" => Same(t, u, {"retries", "gaveUp"})
      /\ c.who = "object" =>
            /\ Same(t, u, {"modules", "gaveUp"})
            /\ u.modules = [t.modules EXCEPT ![c.to].own = Mod!ActivationError(@)]
      /\ c.who \in Requests =>
            /\ Same(t, u, {"replies", "speedFailed"})
            /\ u.replies = [t.replies EXCEPT ![c.who] = Append(@, "error")]
            /\ u.speedFailed
      /\ c.who = "nobody" => u = t
  BY <1>2, <1>3, <1>5, CallErrorEffect
<1>7. \/ c.who \in {"deleted", "object", "nobody"} \cup Requests
      \/ c.kind = "Info"
  BY <1>2, CommandKinds DEF Fatal, SpeedCmds
<1>8. /\ "object" \notin Requests /\ "deleted" \notin Requests /\ "daemon" \notin Requests
      /\ "nobody" \notin Requests
  BY MtbDaemonAssumption DEF Callers
<1> HIDE DEF u
<1>9. c.who # "object" => u.modules = t.modules
  BY <1>6, <1>7 DEF Same, Fields
<1>10. c.who \notin Requests => u.replies = t.replies /\ u.speedFailed = t.speedFailed
  BY <1>6, <1>7 DEF Same, Fields
<1>11. \A j \in 1 .. k : j \in 1 .. (k - 1) \/ j = k
  BY <1>1
<1>12. u.alive => s.alive /\ \A j \in 1 .. k : s.bus[j].who # "deleted"
  BY <1>6, <1>11 DEF After
<1>13. ASSUME NEW a \in Addr
       PROVE  /\ u.modules[a] = Null <=> s.modules[a] = Null
              /\ s.modules[a] # Null =>
                    /\ u.modules[a].type = s.modules[a].type
                    /\ u.modules[a].class = s.modules[a].class
                    /\ Own(u, a).active = Own(s, a).active
                    /\ Own(u, a).activationsRemaining > 0
                          => Own(s, a).activationsRemaining > 0
                    /\ Own(u, a).activating =>
                          /\ Own(s, a).activating
                          /\ \A j \in 1 .. k : s.bus[j].who = "object" => s.bus[j].to # a
  <2>1. CASE c.who = "object" /\ c.to = a
    <3>1. t.modules \in [Addr -> Objects \cup {Null}] /\ t.modules[a] # Null
      BY <1>3, <1>5, <2>1 DEF Typed
    <3>2. t.modules[a].own \in Owns
      BY <3>1 DEF Objects
    <3> DEFINE w == Mod!ActivationError(t.modules[a].own)
    <3>3. w \in Owns
      BY <3>2, OwnTypes
    <3>4. /\ w.active = t.modules[a].own.active /\ ~w.activating
          /\ w.activationsRemaining = IF t.modules[a].own.activationsRemaining > 0
                                      THEN t.modules[a].own.activationsRemaining - 1 ELSE 0
          /\ t.modules[a].own.activationsRemaining \in Nat
      BY <3>2, OwnFacts
    <3>5. u.modules = [t.modules EXCEPT ![a].own = w]
      BY <1>6, <2>1
    <3> HIDE DEF w
    <3>6. /\ u.modules[a] # Null
          /\ u.modules[a].type = t.modules[a].type
          /\ u.modules[a].class = t.modules[a].class
          /\ u.modules[a].own = w
      BY <3>1, <3>3, <3>5, OwnChange
    <3>7. w.activationsRemaining > 0 => t.modules[a].own.activationsRemaining > 0
      BY <3>4
    <3>. QED  BY <1>5, <2>1, <3>4, <3>6, <3>7 DEF After, Own
  <2>2. CASE ~(c.who = "object" /\ c.to = a)
    <3>1. u.modules[a] = t.modules[a]
      <4>1. CASE c.who = "object"
        <5>1. t.modules \in [Addr -> Objects \cup {Null}] /\ c.to # a
          BY <1>3, <2>2, <4>1 DEF Typed
        <5>. QED  BY <1>6, <4>1, <5>1
      <4>. QED  BY <1>9, <4>1
    <3>. QED  BY <1>11, <2>2, <3>1 DEF After, Own
  <2>. QED  BY <2>1, <2>2
<1>14. ASSUME NEW r \in Requests
       PROVE  Len(u.replies[r]) = Len(s.replies[r])
                                  + IF \E j \in 1 .. k : s.bus[j].who = r THEN 1 ELSE 0
  <2>1. /\ t.replies \in [Requests -> Seq({"ok", "error"})]
        /\ s.replies \in [Requests -> Seq({"ok", "error"})]
    BY <1>3 DEF Typed
  <2>2. Len(t.replies[r]) = Len(s.replies[r])
                            + IF \E j \in 1 .. (k - 1) : s.bus[j].who = r THEN 1 ELSE 0
    BY DEF After
  <2>3. CASE c.who = r
    <3>1. ~ \E j \in 1 .. (k - 1) : s.bus[j].who = r
      <4> SUFFICES ASSUME NEW j \in 1 .. (k - 1), s.bus[j].who = r  PROVE FALSE
        OBVIOUS
      <4>1. j \in DOMAIN s.bus /\ j < k /\ s.bus[j] \in Commands
        BY <1>1
      <4>2. <<s.bus[j], c>> \in Unique
        BY <1>1, <4>1 DEF OrderedBy
      <4>. QED  BY <1>2, <2>3, <4>1, <4>2, UniquePair
    <3>2. \E j \in 1 .. k : s.bus[j].who = r
      BY <1>1, <2>3
    <3>3. u.replies[r] = Append(t.replies[r], "error")
      BY <1>6, <2>1, <2>3
    <3>4. t.replies[r] \in Seq({"ok", "error"})
      BY <2>1
    <3>5. Len(u.replies[r]) = Len(t.replies[r]) + 1
      BY <3>3, <3>4
    <3>6. Len(s.replies[r]) \in Nat
      BY <2>1
    <3>7. Len(t.replies[r]) = Len(s.replies[r])
      <4>1. Len(t.replies[r]) = Len(s.replies[r]) + 0
        BY <2>2, <3>1, Zenon
      <4>. QED  BY <3>6, <4>1
    <3>8. (IF \E j \in 1 .. k : s.bus[j].who = r THEN 1 ELSE 0) = 1
      BY <3>2, Zenon
    <3>. QED  BY <3>5, <3>7, <3>8
  <2>4. CASE c.who # r
    <3>1. (\E j \in 1 .. k : s.bus[j].who = r) <=> \E j \in 1 .. (k - 1) : s.bus[j].who = r
      BY <1>1, <1>11, <2>4
    <3>2. u.replies[r] = t.replies[r]
      BY <1>6, <1>10, <2>1, <2>4
    <3>. QED  BY <2>2, <3>1, <3>2
  <2>. QED  BY <2>3, <2>4
<1>15. /\ s.speedFailed => u.speedFailed
       /\ (\E j \in 1 .. k : s.bus[j].who \in Requests) => u.speedFailed
  BY <1>6, <1>10, <1>11 DEF After
<1>16. Same(s, u, {"alive", "retries", "gaveUp", "modules", "replies", "speedFailed"})
  BY <1>6 DEF After, Same
<1>17. u = CallError(t, c)
  BY DEF u
<1> HIDE DEF u
<1>. QED  BY <1>6, <1>12, <1>13, <1>14, <1>15, <1>16, <1>17, Zenon DEF After

\* What all of them did.
LEMMA AfterAll ==
    ASSUME NEW s, Shaped(s), Typed(s), OrderedBy(s.bus, Unique), Pointing(s),
           \A i \in DOMAIN s.bus : ~Fatal(s.bus[i])
    PROVE  After(s, Len(s.bus), FoldLeft(CallError, s, s.bus))
<1> DEFINE n == Len(s.bus)
<1>1. s.bus \in Seq(Commands) /\ n \in Nat
  BY DEF Typed
<1>2. PICK after : /\ after[0] = s
                   /\ \A k \in 1 .. n : after[k] = CallError(after[k - 1], s.bus[k])
                   /\ FoldLeft(CallError, s, s.bus) = after[n]
  <2>1. \E after : Calls(s, s.bus, after)
    BY <1>1, InOrder, Zenon
  <2>. QED  BY <2>1, Zenon DEF Calls
<1> DEFINE S == {k \in Nat : k <= n => After(s, k, after[k])}
<1>3. 0 \in S
  <2>1. \A r \in Requests : Len(s.replies[r]) \in Nat
    <3>1. \A r \in Requests : s.replies[r] \in Seq({"ok", "error"})
      BY DEF Typed
    <3>. QED  BY <3>1
  <2>2. After(s, 0, s)
    BY <2>1 DEF After, Same
  <2>. QED  BY <1>2, <2>2
<1>4. ASSUME NEW k \in S  PROVE k + 1 \in S
  <2> SUFFICES ASSUME k + 1 <= n  PROVE After(s, k + 1, after[k + 1])
    OBVIOUS
  <2>1. /\ k + 1 \in 1 .. n /\ (k + 1) - 1 = k
        /\ After(s, k, after[k])
    BY <1>1, <1>4
  <2>2. after[k + 1] = CallError(after[k], s.bus[k + 1])
    BY <1>2, <2>1
  <2>. QED  BY <2>1, <2>2, AfterNext
<1>5. S \in SUBSET Nat
  OBVIOUS
<1> HIDE DEF S
<1>6. S = Nat
  BY <1>3, <1>4, <1>5, Induction
<1>7. n \in S
  BY <1>1, <1>6
<1>. QED  BY <1>1, <1>2, <1>7 DEF S

-----------------------------------------------------------------------------
(* The port closes *)

LEMMA JsonClosed ==
    ASSUME NEW s, NEW t, ~s.open, ~t.open
    PROVE  MtbUsbJson(s) = MtbUsbJson(t)
BY DEF MtbUsbJson

\* Who hears what.
LEMMA TellEffect ==
    ASSUME NEW s, Shaped(s), Typed(s), NEW clients
    PROVE  LET t == Tell(s, clients)
           IN  /\ Shaped(t) /\ Typed(t) /\ Same(s, t, {"told"})
               /\ MtbUsbJson(t) = MtbUsbJson(s)
               /\ \A c \in Clients :
                     t.told[c] = IF c \in clients \cap s.topoSubscribes
                                 THEN MtbUsbJson(s) ELSE s.told[c]
<1> DEFINE t == Tell(s, clients)
           f == [c \in Clients |-> IF c \in clients \cap s.topoSubscribes
                                   THEN MtbUsbJson(s) ELSE s.told[c]]
<1>1. MtbUsbJson(s) \in Reports
  BY DEF MtbUsbJson, Reports, Typed
<1>2. f \in [Clients -> Reports]
  BY <1>1 DEF Typed
<1>3. t = [s EXCEPT !.told = f]
  BY DEF Tell
<1> HIDE DEF f
<1>4. Shaped(t) /\ Same(s, t, {"told"}) /\ t.told = f
  BY <1>3 DEF Shaped, Same, Fields
<1>5. Typed(t)
  BY <1>2, <1>4 DEF Typed, Same, Fields
<1>6. t.open = s.open /\ t.known = s.known /\ t.activeModules = s.activeModules
  BY <1>4 DEF Same, Fields
<1>7. MtbUsbJson(t) = MtbUsbJson(s)
  BY <1>6 DEF MtbUsbJson
<1>. QED  BY <1>4, <1>5, <1>7 DEF f

\* What closing the port makes of s.
Disconnected(s, t) ==
    /\ Shaped(t) /\ Typed(t)
    /\ ToSet(t.bus) \subseteq ToSet(s.bus)
    /\ t.alive =>
       /\ s.alive
       /\ ~t.open /\ t.tReconnect /\ t.known = {} /\ t.bus = <<>>
       /\ t.activeModules = {} /\ t.speed = Unset
       /\ t.topoSubscribes = s.topoSubscribes /\ t.asked = s.asked
       /\ \A c \in ToSet(s.bus) : c.who \notin {"deleted", "connect"}
       /\ \A c \in Clients : t.told[c] = IF c \in s.topoSubscribes
                                         THEN MtbUsbJson(t) ELSE s.told[c]
       /\ \A a \in Addr :
             /\ t.modules[a] = Null <=> s.modules[a] = Null
             /\ s.modules[a] # Null =>
                   /\ t.modules[a].type = s.modules[a].type
                   /\ t.modules[a].class = s.modules[a].class
                   /\ ~Own(t, a).active
                   /\ Own(t, a).activationsRemaining > 0
                         => Own(s, a).activationsRemaining > 0
                   /\ Own(t, a).activating =>
                         /\ Own(s, a).activating
                         /\ \A c \in ToSet(s.bus) : c.who = "object" => c.to # a
       /\ \A r \in Requests :
             Len(t.replies[r]) = Len(s.replies[r])
                + IF \E c \in ToSet(s.bus) : c.who = r THEN 1 ELSE 0
       /\ s.speedFailed => t.speedFailed
       /\ (\E c \in ToSet(s.bus) : c.who \in Requests) => t.speedFailed

LEMMA DisconnectEffect ==
    ASSUME NEW s, Shaped(s), Typed(s), OrderedBy(s.bus, Unique), Pointing(s)
    PROVE  Disconnected(s, Disconnect(s))
<1> DEFINE t == Disconnect(s)
<1>1. CASE \E i \in DOMAIN s.bus : Fatal(s.bus[i])
  <2>1. t = [s EXCEPT !.alive = FALSE]
    BY <1>1 DEF Disconnect
  <2>2. Shaped(t) /\ Same(s, t, {"alive"}) /\ ~t.alive
    BY <2>1 DEF Shaped, Same, Fields
  <2>3. Typed(t) /\ t.bus = s.bus
    BY <2>1, <2>2 DEF Typed, Same, Fields
  <2>. QED  BY <2>2, <2>3 DEF Disconnected
<1>2. CASE ~ \E i \in DOMAIN s.bus : Fatal(s.bus[i])
  <2> DEFINE u == FoldLeft(CallError, s, s.bus)
             v == [u EXCEPT !.bus = <<>>, !.known = {}, !.open = FALSE,
                            !.speed = Unset, !.activeModules = {}]
             w == Tell(v, Clients)
             m == [a \in Addr |->
                     IF w.modules[a] = Null THEN Null
                     ELSE [w.modules[a] EXCEPT !.own.active = FALSE]]
  <2>1. After(s, Len(s.bus), u)
    BY <1>2, AfterAll
  <2>2. t = MtbUsbOnDisconnect(v)
    BY <1>2 DEF Disconnect
  <2>3. t = [w EXCEPT !.modules = m, !.tReconnect = TRUE]
    BY <2>2 DEF MtbUsbOnDisconnect
  <2> HIDE DEF u
  <2>4. /\ Shaped(v)
        /\ Same(u, v, {"bus", "known", "open", "speed", "activeModules"})
        /\ v.bus = <<>> /\ v.known = {} /\ v.open = FALSE
        /\ v.speed = Unset /\ v.activeModules = {}
    BY <2>1 DEF After, Shaped, Same, Fields
  <2>5. Typed(v)
    BY <2>1, <2>4 DEF After, Typed, Same, Fields
  <2> HIDE DEF v
  <2>6. /\ Shaped(w) /\ Typed(w) /\ Same(v, w, {"told"})
        /\ MtbUsbJson(w) = MtbUsbJson(v)
        /\ \A c \in Clients : w.told[c] = IF c \in Clients \cap v.topoSubscribes
                                         THEN MtbUsbJson(v) ELSE v.told[c]
    BY <2>4, <2>5, TellEffect
  <2> HIDE DEF w
  <2>7. /\ w.modules = u.modules
        /\ w.modules \in [Addr -> Objects \cup {Null}]
    BY <2>4, <2>6 DEF Same, Fields, Typed
  <2>8. ASSUME NEW a \in Addr
        PROVE  /\ m[a] = Null <=> u.modules[a] = Null
               /\ m[a] \in Objects \cup {Null}
               /\ u.modules[a] # Null => /\ m[a].type = u.modules[a].type
                                         /\ m[a].class = u.modules[a].class
                                         /\ ~m[a].own.active
                                         /\ m[a].own.activating = Own(u, a).activating
                                         /\ m[a].own.activationsRemaining
                                               = Own(u, a).activationsRemaining
    <3>1. CASE u.modules[a] = Null
      BY <2>7, <3>1
    <3>2. CASE u.modules[a] # Null
      <4> DEFINE o == u.modules[a]
                 p == [o EXCEPT !.own.active = FALSE]
      <4>1. o \in Objects /\ o.own \in Owns
        BY <2>7, <3>2 DEF Objects
      <4>2. [o.own EXCEPT !.active = FALSE] \in Owns
        BY <4>1, OwnTypes
      <4>3. p = [o EXCEPT !.own = [o.own EXCEPT !.active = FALSE]]
        OBVIOUS
      <4>4. p \in Objects /\ p # Null
        BY <4>1, <4>2, <4>3, MtbDaemonAssumption DEF Objects
      <4>5. /\ p.type = o.type /\ p.class = o.class /\ ~p.own.active
            /\ p.own.activating = o.own.activating
            /\ p.own.activationsRemaining = o.own.activationsRemaining
        BY <4>1 DEF Objects, Owns
      <4>6. m[a] = p
        BY <2>7, <3>2
      <4> HIDE DEF p
      <4>. QED  BY <3>2, <4>4, <4>5, <4>6 DEF Own
    <3>. QED  BY <3>1, <3>2
  <2>9. m \in [Addr -> Objects \cup {Null}]
    BY <2>8
  <2> HIDE DEF m
  <2>10. /\ Shaped(t) /\ Same(w, t, {"modules", "tReconnect"})
         /\ t.modules = m /\ t.tReconnect = TRUE
    BY <2>3, <2>6 DEF Shaped, Same, Fields
  <2>11. Typed(t)
    BY <2>6, <2>9, <2>10 DEF Typed, Same, Fields
  <2> HIDE DEF t
  <2>12. /\ t.open = FALSE /\ t.known = {} /\ t.bus = <<>> /\ t.activeModules = {}
         /\ t.speed = Unset
         /\ t.topoSubscribes = s.topoSubscribes /\ t.asked = s.asked
         /\ t.alive = u.alive /\ t.replies = u.replies
         /\ t.speedFailed = u.speedFailed
         /\ t.told = w.told /\ v.told = s.told /\ v.topoSubscribes = s.topoSubscribes
         /\ v.open = FALSE
    BY <2>1, <2>4, <2>6, <2>10 DEF After, Same, Fields
  <2>13. MtbUsbJson(v) = MtbUsbJson(t)
    BY <2>12, JsonClosed
  <2>14. \A c \in Clients : t.told[c] = IF c \in s.topoSubscribes
                                        THEN MtbUsbJson(t) ELSE s.told[c]
    BY <2>6, <2>12, <2>13
  <2>15. /\ DOMAIN s.bus = 1 .. Len(s.bus) /\ s.bus \in Seq(Commands)
         /\ \A c : c \in ToSet(s.bus) <=> \E j \in 1 .. Len(s.bus) : s.bus[j] = c
    BY DEF Typed, ToSet
  <2>16. ToSet(t.bus) = {}
    BY <2>12 DEF ToSet
  <2>17. t.alive => \A c \in ToSet(s.bus) : c.who \notin {"deleted", "connect"}
    BY <1>2, <2>1, <2>12, <2>15 DEF After, Fatal
  <2>18. \A a \in Addr :
            /\ t.modules[a] = Null <=> s.modules[a] = Null
            /\ s.modules[a] # Null =>
                  /\ t.modules[a].type = s.modules[a].type
                  /\ t.modules[a].class = s.modules[a].class
                  /\ ~Own(t, a).active
                  /\ Own(t, a).activationsRemaining > 0
                        => Own(s, a).activationsRemaining > 0
                  /\ Own(t, a).activating =>
                        /\ Own(s, a).activating
                        /\ \A c \in ToSet(s.bus) : c.who = "object" => c.to # a
    BY <2>1, <2>8, <2>10, <2>15 DEF After, Own
  <2>19. \A r \in Requests :
            (\E c \in ToSet(s.bus) : c.who = r)
               <=> (\E j \in 1 .. Len(s.bus) : s.bus[j].who = r)
    BY <2>15
  <2>20. \A r \in Requests :
            Len(t.replies[r]) = Len(s.replies[r])
               + IF \E c \in ToSet(s.bus) : c.who = r THEN 1 ELSE 0
    BY <2>1, <2>12, <2>19 DEF After
  <2>21. /\ s.speedFailed => t.speedFailed
         /\ (\E c \in ToSet(s.bus) : c.who \in Requests) => t.speedFailed
    BY <2>1, <2>12, <2>15 DEF After
  <2>22. t.alive => s.alive
    BY <2>1, <2>12 DEF After
  <2>. QED  BY <2>10, <2>11, <2>12, <2>14, <2>16, <2>17, <2>18, <2>20, <2>21, <2>22
           DEF Disconnected, t
<1>. QED  BY <1>1, <1>2

\* Nothing that a closed port leaves behind is unsound, if the command whose
\* end closed it, which the caller took away, was nobody else's.
LEMMA DisconnectSound ==
    ASSUME NEW s, Shaped(s), Typed(s), OrderedBy(s.bus, Unique),
           Pointing(s), Activating(s), Answering(s),
           \A c \in Clients \ s.topoSubscribes : s.told[c] = Null
    PROVE  LET t == Disconnect(s)
           IN  Shaped(t) /\ Typed(t) /\ (t.alive => Sound(t))
<1> DEFINE t == Disconnect(s)
<1>1. Disconnected(s, t)
  BY DisconnectEffect
<1> HIDE DEF t
<1>0. Shaped(t) /\ Typed(t)
  BY <1>1 DEF Disconnected
<1> SUFFICES ASSUME t.alive  PROVE Sound(t)
  BY <1>0 DEF t
<1>2. ToSet(t.bus) = {}
  BY <1>1 DEF Disconnected, ToSet
<1>3. OrderedBy(t.bus, Unique)
  BY <1>1 DEF Disconnected, OrderedBy
<1>4. Closed(t) /\ Connecting(t) /\ Pointing(t) /\ Listing(t)
  BY <1>1, <1>2, <1>3 DEF Disconnected, Closed, Connecting, Pointing, Listing
<1>5. \A c \in ToSet(s.bus) : c \in Commands
  BY DEF Typed, ToSet
<1>6. ASSUME NEW r \in Requests
      PROVE  Len(t.replies[r]) = IF r \in t.asked THEN 1 ELSE 0
  <2>1. /\ Len(s.replies[r]) =
             IF r \in s.asked /\ (\A c \in ToSet(s.bus) : c.who # r) THEN 1 ELSE 0
        /\ \A c \in ToSet(s.bus) : c.who \in Requests => c.who \in s.asked
    BY DEF Answering
  <2>2. /\ Len(t.replies[r]) = Len(s.replies[r])
                          + IF \E c \in ToSet(s.bus) : c.who = r THEN 1 ELSE 0
        /\ t.asked = s.asked
    BY <1>1 DEF Disconnected
  <2>3. CASE \E c \in ToSet(s.bus) : c.who = r
    <3>1. r \in s.asked
      BY <2>1, <2>3
    <3>2. Len(s.replies[r]) = 0 /\ Len(t.replies[r]) = Len(s.replies[r]) + 1
      BY <2>1, <2>2, <2>3, Zenon
    <3>. QED  BY <2>2, <3>1, <3>2
  <2>4. CASE ~ \E c \in ToSet(s.bus) : c.who = r
    <3>1. Len(s.replies[r]) = IF r \in s.asked THEN 1 ELSE 0
      BY <2>1, <2>4, Zenon
    <3>2. Len(t.replies[r]) = Len(s.replies[r]) + 0
      BY <2>2, <2>4, Zenon
    <3>. QED  BY <2>2, <3>1, <3>2
  <2>. QED  BY <2>3, <2>4
<1>7. Answering(t)
  BY <1>2, <1>6 DEF Answering
<1>8. Telling(t)
  BY <1>0, <1>1 DEF Disconnected, Telling, Typed
<1>9. \A a \in Addr : ~IsActivating(t, a)
  <2> SUFFICES ASSUME NEW a \in Addr, IsActivating(t, a)  PROVE FALSE
    OBVIOUS
  <2>1. /\ IsActivating(s, a)
        /\ \A c \in ToSet(s.bus) : c.who = "object" => c.to # a
    BY <1>1 DEF Disconnected, IsActivating
  <2>2. PICK c \in ToSet(s.bus) : c.kind = "Inputs" /\ c.to = a
    BY <2>1 DEF Activating
  <2>3. c.who \in {"object", "deleted"} /\ c.who # "deleted"
    BY <1>1, <1>5, <2>2, CommandKinds DEF Disconnected
  <2>. QED  BY <2>1, <2>2, <2>3
<1>10. Activating(t)
  BY <1>9 DEF Activating
<1>. QED  BY <1>4, <1>7, <1>8, <1>10 DEF Sound

-----------------------------------------------------------------------------
(* What depends on what *)

\* Changes of other fields do no harm.
LEMMA ClosedKept ==
    ASSUME NEW s, NEW t, Closed(s),
           t.open = s.open, t.tReconnect = s.tReconnect, t.known = s.known,
           t.activeModules = s.activeModules, t.open \/ t.bus = s.bus
    PROVE  Closed(t)
BY DEF Closed

LEMMA TellingKept ==
    ASSUME NEW s, NEW t, Telling(s),
           t.told = s.told, t.topoSubscribes = s.topoSubscribes,
           \/ t.newTimerPending \/ t.failTimerPending
           \/ /\ t.newTimerPending = s.newTimerPending
              /\ t.failTimerPending = s.failTimerPending
              /\ MtbUsbJson(t) = MtbUsbJson(s)
    PROVE  Telling(t)
BY DEF Telling

LEMMA JsonKept ==
    ASSUME NEW s, NEW t,
           t.open = s.open, t.known = s.known, t.activeModules = s.activeModules
    PROVE  MtbUsbJson(t) = MtbUsbJson(s)
BY DEF MtbUsbJson

\* Commands that come and go: what is new neither follows the opening of the
\* port nor belongs to a request, and what ended did not either.
LEMMA ConnectingKept ==
    ASSUME NEW s, NEW t, Connecting(s), OrderedBy(t.bus, Unique), t.known = s.known,
           \A c \in ToSet(t.bus) : c \in ToSet(s.bus)
              \/ (c.who # "connect" /\ c.kind # "UsbInfo" /\ c.kind \notin SpeedCmds)
    PROVE  Connecting(t)
BY DEF Connecting

LEMMA AnsweringKept ==
    ASSUME NEW s, NEW t, Answering(s), t.asked = s.asked, t.replies = s.replies,
           \A r \in Requests : (\E c \in ToSet(t.bus) : c.who = r)
                                  <=> (\E c \in ToSet(s.bus) : c.who = r)
    PROVE  Answering(t)
<1>1. \A c \in ToSet(t.bus) : c.who \in Requests => c.who \in t.asked
  BY DEF Answering
<1>2. ASSUME NEW r \in Requests
      PROVE  Len(t.replies[r]) =
               IF r \in t.asked /\ (\A c \in ToSet(t.bus) : c.who # r) THEN 1 ELSE 0
  <2>1. Len(s.replies[r]) =
          IF r \in s.asked /\ (\A c \in ToSet(s.bus) : c.who # r) THEN 1 ELSE 0
    BY DEF Answering
  <2>2. (\A c \in ToSet(t.bus) : c.who # r) <=> (\A c \in ToSet(s.bus) : c.who # r)
    OBVIOUS
  <2>. QED  BY <2>1, <2>2
<1>. QED  BY <1>1, <1>2 DEF Answering

\* The object parts depend on the commands to modules only.
LEMMA ObjectsKept ==
    ASSUME NEW s, NEW t, Pointing(s), Activating(s), Listing(s),
           t.modules = s.modules, t.retries = s.retries, s.gaveUp \subseteq t.gaveUp,
           t.activeModules = s.activeModules,
           \A c \in ToSet(t.bus) : c.who = "object" => c \in ToSet(s.bus),
           \A c \in ToSet(s.bus) : c.kind \in {"Info", "Inputs"} => c \in ToSet(t.bus)
    PROVE  Pointing(t) /\ Activating(t) /\ Listing(t)
<1>1. Pointing(t)
  BY DEF Pointing
<1>2. Activating(t)
  BY DEF Activating, IsActivating, Own
<1>3. Listing(t)
  BY DEF Listing, LookedAfter, IsActive, Own
<1>. QED  BY <1>1, <1>2, <1>3

-----------------------------------------------------------------------------
(* What the operations do to the fields *)

\* One more command.
LEMMA SendEffect ==
    ASSUME NEW s, Shaped(s), Typed(s), OrderedBy(s.bus, Unique), NEW c \in Commands,
           \A x \in ToSet(s.bus) :
              x.who = c.who => x.who \notin Requests \cup {"connect"}
    PROVE  LET t == Send(s, c)
           IN  /\ Shaped(t) /\ Typed(t) /\ Same(s, t, {"bus"})
               /\ OrderedBy(t.bus, Unique)
               /\ ToSet(t.bus) = ToSet(s.bus) \cup {c}
               /\ t.bus = Append(s.bus, c)
<1> DEFINE t == Send(s, c)
<1>1. s.bus \in Seq(Commands)
  BY DEF Typed
<1>2. \A x \in ToSet(s.bus) : <<x, c>> \in Unique
  <2>1. \A x \in ToSet(s.bus) : x \in Commands
    BY <1>1 DEF ToSet
  <2>. QED  BY <2>1, UniquePair
<1> DEFINE q == Append(s.bus, c)
<1>3. /\ q \in Seq(Commands)
      /\ OrderedBy(q, Unique)
      /\ ToSet(q) = ToSet(s.bus) \cup {c}
  BY <1>1, <1>2, AppendOrdered
<1>4. t = [s EXCEPT !.bus = q]
  BY DEF Send
<1> HIDE DEF q
<1>5. Shaped(t) /\ Same(s, t, {"bus"}) /\ t.bus = q
  BY <1>4 DEF Shaped, Same, Fields
<1>6. Typed(t)
  BY <1>3, <1>5 DEF Typed, Same, Fields
<1>. QED  BY <1>3, <1>5, <1>6 DEF q

\* Three more: the broadcasts of a change of the speed.
LEMMA ChangeSpeedEffect ==
    ASSUME NEW s, Shaped(s), Typed(s), OrderedBy(s.bus, Unique), s.open,
           "info" \in s.known, NEW v \in Speeds, NEW w \in Requests \cup {"connect"},
           \A x \in ToSet(s.bus) : x.who # w
    PROVE  LET t == ChangeSpeed(s, v, w)
               n == Cmd("BusSpeed", 0, v, "nobody")
               c == Cmd("BusSpeed", 0, v, w)
           IN  /\ Shaped(t) /\ Typed(t) /\ Same(s, t, {"bus"})
               /\ OrderedBy(t.bus, Unique)
               /\ ToSet(t.bus) = ToSet(s.bus) \cup {n, c}
               /\ t.bus = Append(Append(Append(s.bus, n), n), c)
<1> DEFINE n == Cmd("BusSpeed", 0, v, "nobody")
           c == Cmd("BusSpeed", 0, v, w)
           a == Send(s, n)
           b == Send(a, n)
           t == Send(b, c)
<1>1. n \in Commands /\ c \in Commands
  BY CommandTypes
<1>2. n.who = "nobody" /\ c.who = w /\ "nobody" \notin Requests \cup {"connect"}
  BY MtbDaemonAssumption DEF Cmd, Callers
<1>3. ChangeSpeed(s, v, w) = t
  BY DEF ChangeSpeed
<1> HIDE DEF n, c
<1>4. /\ Shaped(a) /\ Typed(a) /\ Same(s, a, {"bus"})
      /\ OrderedBy(a.bus, Unique)
      /\ ToSet(a.bus) = ToSet(s.bus) \cup {n}
      /\ a.bus = Append(s.bus, n)
  <2>1. \A x \in ToSet(s.bus) : x.who = n.who => x.who \notin Requests \cup {"connect"}
    BY <1>2
  <2>. QED  BY <1>1, <2>1, SendEffect
<1> HIDE DEF a
<1>5. /\ Shaped(b) /\ Typed(b) /\ Same(a, b, {"bus"})
      /\ OrderedBy(b.bus, Unique)
      /\ ToSet(b.bus) = ToSet(a.bus) \cup {n}
      /\ b.bus = Append(a.bus, n)
  <2>1. \A x \in ToSet(a.bus) : x.who = n.who => x.who \notin Requests \cup {"connect"}
    BY <1>2
  <2>. QED  BY <1>1, <1>4, <2>1, SendEffect
<1> HIDE DEF b
<1>6. \A x \in ToSet(b.bus) : x.who # w
  BY <1>2, <1>4, <1>5
<1>7. /\ Shaped(t) /\ Typed(t) /\ Same(b, t, {"bus"})
      /\ OrderedBy(t.bus, Unique)
      /\ ToSet(t.bus) = ToSet(b.bus) \cup {c}
      /\ t.bus = Append(b.bus, c)
  <2>1. \A x \in ToSet(b.bus) : x.who = c.who => x.who \notin Requests \cup {"connect"}
    BY <1>2, <1>6
  <2>. QED  BY <1>1, <1>5, <2>1, SendEffect
<1> HIDE DEF t
<1>8. Same(s, t, {"bus"})
  BY <1>4, <1>5, <1>7 DEF Same
<1>9. /\ ToSet(t.bus) = ToSet(s.bus) \cup {n, c}
      /\ t.bus = Append(Append(Append(s.bus, n), n), c)
  BY <1>4, <1>5, <1>7
<1>. QED  BY <1>3, <1>7, <1>8, <1>9 DEF n, c

\* A response to a request that got none so far.
LEMMA ReplyEffect ==
    ASSUME NEW s, Shaped(s), Typed(s), NEW r \in Requests, NEW v \in {"ok", "error"}
    PROVE  LET t == Reply(s, r, v)
           IN  /\ Shaped(t) /\ Typed(t) /\ Same(s, t, {"replies"})
               /\ Len(t.replies[r]) = Len(s.replies[r]) + 1
               /\ \A x \in Requests \ {r} : t.replies[x] = s.replies[x]
<1> DEFINE t == Reply(s, r, v)
<1>1. s.replies \in [Requests -> Seq({"ok", "error"})]
  BY DEF Typed
<1>2. /\ Append(s.replies[r], v) \in Seq({"ok", "error"})
      /\ Len(Append(s.replies[r], v)) = Len(s.replies[r]) + 1
  <2>1. s.replies[r] \in Seq({"ok", "error"})
    BY <1>1
  <2>. QED  BY <2>1
<1>3. /\ Shaped(t) /\ Same(s, t, {"replies"})
      /\ t.replies = [s.replies EXCEPT ![r] = Append(s.replies[r], v)]
  BY DEF Reply, Shaped, Same, Fields
<1>4. Typed(t)
  <2>1. t.replies \in [Requests -> Seq({"ok", "error"})]
    BY <1>1, <1>2, <1>3
  <2>. QED  BY <1>3, <2>1 DEF Typed, Same, Fields
<1>. QED  BY <1>1, <1>2, <1>3, <1>4

\* A response to a request that has one command under way less than before: c0.
LEMMA AnsweredBy ==
    ASSUME NEW s, NEW t, Answering(s), NEW c0 \in ToSet(s.bus), c0.who \in Requests,
           t.asked = s.asked,
           \A c \in ToSet(s.bus) : c \in ToSet(t.bus) \/ c = c0,
           \A c \in ToSet(t.bus) : c \in ToSet(s.bus) /\ c.who # c0.who,
           Len(t.replies[c0.who]) = Len(s.replies[c0.who]) + 1,
           \A r \in Requests \ {c0.who} : t.replies[r] = s.replies[r]
    PROVE  Answering(t)
<1>1. \A c \in ToSet(t.bus) : c.who \in Requests => c.who \in t.asked
  BY DEF Answering
<1>2. ASSUME NEW r \in Requests
      PROVE  Len(t.replies[r]) =
               IF r \in t.asked /\ (\A c \in ToSet(t.bus) : c.who # r) THEN 1 ELSE 0
  <2>1. /\ Len(s.replies[r]) =
             IF r \in s.asked /\ (\A c \in ToSet(s.bus) : c.who # r) THEN 1 ELSE 0
        /\ c0.who \in s.asked
    BY DEF Answering
  <2>2. CASE r = c0.who
    <3>1. Len(s.replies[r]) = 0
      BY <2>1, <2>2, Zenon
    <3>2. \A c \in ToSet(t.bus) : c.who # r
      BY <2>2
    <3>3. Len(t.replies[r]) = Len(s.replies[r]) + 1
      BY <2>2
    <3>. QED  BY <2>1, <2>2, <3>1, <3>2, <3>3
  <2>3. CASE r # c0.who
    <3>1. (\A c \in ToSet(t.bus) : c.who # r) <=> (\A c \in ToSet(s.bus) : c.who # r)
      BY <2>3
    <3>2. t.replies[r] = s.replies[r]
      BY <2>3
    <3>. QED  BY <2>1, <3>1, <3>2
  <2>. QED  BY <2>2, <2>3
<1>. QED  BY <1>1, <1>2 DEF Answering

\* What follows MTB-USB's information: its modules, or first another speed.
LEMMA MtbUsbGotInfoEffect ==
    ASSUME NEW s, Shaped(s), Typed(s), OrderedBy(s.bus, Unique), s.open,
           "info" \in s.known, \A x \in ToSet(s.bus) : x.who # "connect"
    PROVE  LET t == MtbUsbGotInfo(s)
               n == Cmd("BusSpeed", 0, s.fileSpeed, "nobody")
               c == Cmd("BusSpeed", 0, s.fileSpeed, "connect")
               m == Cmd("UsbModules", 0, 0, "connect")
           IN  /\ Shaped(t) /\ Typed(t) /\ Same(s, t, {"bus"})
               /\ OrderedBy(t.bus, Unique)
               /\ \/ /\ ToSet(t.bus) = ToSet(s.bus) \cup {m}
                     /\ t.bus = Append(s.bus, m)
                  \/ /\ s.fileSpeed \in Speeds
                     /\ ToSet(t.bus) = ToSet(s.bus) \cup {n, c}
                     /\ t.bus = Append(Append(Append(s.bus, n), n), c)
<1> DEFINE t == MtbUsbGotInfo(s)
           m == Cmd("UsbModules", 0, 0, "connect")
<1>1. CASE s.fileSpeed \in {Unset, s.speed}
  <2>1. t = Send(s, m)
    BY <1>1 DEF MtbUsbGotInfo, MtbUsbProperSpeedSet
  <2>2. m \in Commands /\ m.who = "connect"
    BY CommandTypes DEF Cmd
  <2> HIDE DEF m, t
  <2>3. \A x \in ToSet(s.bus) : x.who = m.who => x.who \notin Requests \cup {"connect"}
    BY <2>2
  <2>4. /\ Shaped(t) /\ Typed(t) /\ Same(s, t, {"bus"})
        /\ OrderedBy(t.bus, Unique)
        /\ ToSet(t.bus) = ToSet(s.bus) \cup {m}
        /\ t.bus = Append(s.bus, m)
    BY <2>1, <2>2, <2>3, SendEffect
  <2>. QED  BY <2>4 DEF m, t
<1>2. CASE s.fileSpeed \notin {Unset, s.speed}
  <2>1. t = ChangeSpeed(s, s.fileSpeed, "connect")
    BY <1>2 DEF MtbUsbGotInfo
  <2>2. s.fileSpeed \in Speeds
    BY <1>2 DEF Typed
  <2> DEFINE v == s.fileSpeed
             w == "connect"
             n == Cmd("BusSpeed", 0, v, "nobody")
             c == Cmd("BusSpeed", 0, v, w)
  <2>3. v \in Speeds /\ w \in Requests \cup {"connect"} /\ t = ChangeSpeed(s, v, w)
    BY <2>1, <2>2
  <2>4. \A x \in ToSet(s.bus) : x.who # w
    OBVIOUS
  <2> HIDE DEF t, v, w
  <2>5. /\ Shaped(t) /\ Typed(t) /\ Same(s, t, {"bus"})
        /\ OrderedBy(t.bus, Unique)
        /\ ToSet(t.bus) = ToSet(s.bus) \cup {n, c}
        /\ t.bus = Append(Append(Append(s.bus, n), n), c)
    BY <2>3, <2>4, ChangeSpeedEffect
  <2>. QED  BY <2>3, <2>5 DEF t, v, w
<1>. QED  BY <1>1, <1>2

\* A relation that asks nothing of the commands to modules.
ForUsb(R) ==
    \A x \in Commands, y \in Commands :
       x.kind \in {"Info", "Inputs"} \/ y.kind \in {"Info", "Inputs"} => <<x, y>> \in R

LEMMA FollowsForUsb == ForUsb(Follows)
BY DEF ForUsb, Follows, SpeedCmds

LEMMA UniqueForUsb == ForUsb(Unique)
<1> SUFFICES ASSUME NEW x \in Commands, NEW y \in Commands,
                    x.kind \in {"Info", "Inputs"} \/ y.kind \in {"Info", "Inputs"}
             PROVE  <<x, y>> \in Unique
  BY DEF ForUsb
<1>1. \A c \in Commands : c.kind \in {"Info", "Inputs"} =>
                              c.who \notin Requests \cup {"connect"}
  BY CommandKinds, MtbDaemonAssumption DEF Callers
<1>. QED  BY <1>1, UniquePair

\* The end of the chain: everything that MTB-USB lists is activated.
LEMMA MtbUsbGotModulesEffect ==
    ASSUME NEW s, Shaped(s), Typed(s), NEW R, ForUsb(R), OrderedBy(s.bus, R)
    PROVE  LET t == MtbUsbGotModules(s)
           IN  /\ Shaped(t) /\ Typed(t) /\ Same(s, t, {"bus", "told", "gaveUp"})
               /\ OrderedBy(t.bus, R)
               /\ ToSet(t.bus) = ToSet(s.bus)
                     \cup {Cmd("Info", a, ATTEMPTS, "daemon") : a \in s.activeModules}
               /\ MtbUsbJson(t) = MtbUsbJson(s)
               /\ t.gaveUp = s.gaveUp \ s.activeModules
               /\ \A c \in Clients :
                     t.told[c] = IF c \in s.topoSubscribes THEN MtbUsbJson(s)
                                 ELSE s.told[c]
<1> DEFINE t == MtbUsbGotModules(s)
           u == Tell(s, Clients)
           q == SetToSeq(s.activeModules)
           r == [i \in DOMAIN q |-> Cmd("Info", q[i], ATTEMPTS, "daemon")]
           I == {Cmd("Info", a, ATTEMPTS, "daemon") : a \in s.activeModules}
           b == s.bus \o r
           g == s.gaveUp \ s.activeModules
<1>1. /\ Shaped(u) /\ Typed(u) /\ Same(s, u, {"told"})
      /\ MtbUsbJson(u) = MtbUsbJson(s)
      /\ \A c \in Clients :
            u.told[c] = IF c \in Clients \cap s.topoSubscribes
                        THEN MtbUsbJson(s) ELSE s.told[c]
  BY TellEffect
<1>2. t = [u EXCEPT !.bus = @ \o r, !.gaveUp = @ \ s.activeModules]
  BY DEF MtbUsbGotModules
<1> HIDE DEF u, t
<1>3. u.bus = s.bus /\ u.gaveUp = s.gaveUp
  BY <1>1 DEF Same, Fields
<1>4. s.activeModules \subseteq Addr /\ IsFiniteSet(s.activeModules)
  BY MtbDaemonAssumption, FS_Subset DEF Typed
<1>5. q \in Seq(s.activeModules) /\ ToSet(q) = s.activeModules
  BY <1>4, SetToSeqFacts
<1> HIDE DEF q
<1>6. /\ r \in Seq(Commands)
      /\ DOMAIN r = DOMAIN q
      /\ \A i \in DOMAIN r : r[i] \in I
      /\ ToSet(r) = I
  <2>1. \A i \in DOMAIN q : q[i] \in Addr /\ q[i] \in s.activeModules
    BY <1>4, <1>5
  <2>2. ATTEMPTS \in 0 .. ATTEMPTS
    BY MtbDaemonAssumption
  <2>3. \A i \in DOMAIN q : r[i] \in Commands
    BY <2>1, <2>2, CommandTypes
  <2>4. DOMAIN q = 1 .. Len(q) /\ Len(q) \in Nat
    BY <1>5
  <2>5. r \in Seq(Commands)
    BY <2>3, <2>4
  <2>6. ToSet(r) = I
    BY <1>5, <2>1 DEF ToSet
  <2>. QED  BY <2>1, <2>5, <2>6
<1> HIDE DEF r
<1>7. /\ I \subseteq Commands
      /\ \A x \in I : x.kind = "Info"
  <2>1. ATTEMPTS \in 0 .. ATTEMPTS
    BY MtbDaemonAssumption
  <2>2. \A x \in I : x.kind = "Info"
    BY DEF Cmd
  <2>. QED  BY <1>4, <2>1, <2>2, CommandTypes
<1> HIDE DEF I
<1>8. OrderedBy(r, R)
  <2>1. \A x \in I, y \in I : <<x, y>> \in R
    BY <1>7 DEF ForUsb
  <2>. QED  BY <1>6, <2>1 DEF OrderedBy
<1>9. s.bus \in Seq(Commands) /\ \A x \in ToSet(s.bus) : x \in Commands
  BY DEF Typed, ToSet
<1>10. \A x \in ToSet(s.bus), y \in ToSet(r) : <<x, y>> \in R
  BY <1>6, <1>7, <1>9 DEF ForUsb
<1>11. /\ b \in Seq(Commands)
       /\ OrderedBy(b, R)
       /\ ToSet(b) = ToSet(s.bus) \cup I
  BY <1>6, <1>8, <1>9, <1>10, ConcatOrdered
<1>12. t = [u EXCEPT !.bus = b, !.gaveUp = g]
  BY <1>2, <1>3
<1>13. g \in SUBSET Addr
  BY DEF Typed
<1> HIDE DEF b, g
<1>14. /\ Shaped(t) /\ Same(u, t, {"bus", "gaveUp"})
       /\ t.bus = b /\ t.gaveUp = g
  BY <1>1, <1>12 DEF Shaped, Same, Fields
<1>15. Typed(t)
  BY <1>1, <1>11, <1>13, <1>14 DEF Typed, Same, Fields
<1>16. /\ t.open = u.open /\ t.known = u.known /\ t.activeModules = u.activeModules
       /\ t.told = u.told
  BY <1>14 DEF Same, Fields
<1>17. MtbUsbJson(t) = MtbUsbJson(u)
  BY <1>16, JsonKept
<1>18. Same(s, t, {"bus", "told", "gaveUp"})
  BY <1>1, <1>14 DEF Same
<1>19. \A c \in Clients :
          t.told[c] = IF c \in s.topoSubscribes THEN MtbUsbJson(s) ELSE s.told[c]
  BY <1>1, <1>16
<1>. QED  BY <1>1, <1>11, <1>14, <1>15, <1>17, <1>18, <1>19 DEF I, g, t

-----------------------------------------------------------------------------
(* Steps: the ends of commands *)

\* What is left to show of a step.
LEMMA StepKeeps ==
    ASSUME NEW t, d' = t, Shaped(t), Typed(t), UsbTyped(usb'), t.alive => Sound(t)
    PROVE  IInv'
BY DEF IInv, TypeOK

LEMMA CarriedOutTyped ==
    ASSUME UsbTyped(usb), NEW c \in Commands
    PROVE  UsbTyped(CarriedOut(c))
<1>1. c.kind \in SpeedCmds => c.arg \in Speeds
  BY CommandKinds DEF SpeedCmds
<1>. QED  BY <1>1 DEF CarriedOut, UsbTyped, SpeedCmds

\* What an answer of MTB-USB can be to.
LEMMA UsbAnswersEffect ==
    ASSUME IInv, NEW i \in DOMAIN d.bus, UsbAnswers(i)
    PROVE  /\ d.alive
           /\ d.bus[i].kind \in {"UsbInfo", "UsbModules", "BusSpeed", "UsbSpeed"}
           /\ UsbTyped(usb')
           /\ d.bus[i].kind = "UsbInfo" =>
                 d' = MtbUsbGotInfo([Without(i) EXCEPT !.known = @ \cup {"info"},
                                                       !.speed = usb.speed])
           /\ d.bus[i].kind = "UsbModules" =>
                 d' = MtbUsbGotModules([Without(i) EXCEPT !.known = @ \cup {"modules"},
                                                          !.activeModules = usb.list])
           /\ d.bus[i].kind = "BusSpeed" /\ d.bus[i].who # "nobody" =>
                 d' = Send(Without(i), Cmd("UsbSpeed", 0, d.bus[i].arg, d.bus[i].who))
           /\ d.bus[i].kind = "BusSpeed" /\ d.bus[i].who = "nobody" =>
                 d' = Without(i)
           /\ d.bus[i].kind = "UsbSpeed" =>
                 d' = UsbSpeedSet(Without(i), d.bus[i].arg, d.bus[i].who)
<1> DEFINE c0 == d.bus[i]
<1>1. c0 \in Commands
  BY DEF IInv, TypeOK, Typed
<1>2. d.alive /\ c0.to = 0 /\ usb' = CarriedOut(c0)
  BY DEF UsbAnswers
<1>3. c0.kind \in {"UsbInfo", "UsbModules", "BusSpeed", "UsbSpeed"}
  BY <1>1, <1>2, CommandKinds DEF SpeedCmds
<1>4. UsbTyped(usb')
  BY <1>1, <1>2, CarriedOutTyped DEF IInv, TypeOK
<1>5. d' = CASE c0.kind = "UsbInfo" ->
                      MtbUsbGotInfo([Without(i) EXCEPT !.known = @ \cup {"info"},
                                              !.speed = usb.speed])
             [] c0.kind = "UsbModules" ->
                      MtbUsbGotModules([Without(i) EXCEPT !.known = @ \cup {"modules"},
                                                 !.activeModules = usb.list])
             [] c0.kind = "BusSpeed" /\ c0.who # "nobody" ->
                      Send(Without(i), Cmd("UsbSpeed", 0, c0.arg, c0.who))
             [] c0.kind = "UsbSpeed" -> UsbSpeedSet(Without(i), c0.arg, c0.who)
             [] OTHER -> Without(i)
  BY Zenon DEF UsbAnswers
<1> HIDE DEF c0
<1>6. c0.kind = "UsbInfo" =>
         d' = MtbUsbGotInfo([Without(i) EXCEPT !.known = @ \cup {"info"},
                                               !.speed = usb.speed])
  BY <1>5
<1>7. c0.kind = "UsbModules" =>
         d' = MtbUsbGotModules([Without(i) EXCEPT !.known = @ \cup {"modules"},
                                                  !.activeModules = usb.list])
  BY <1>5
<1>8. c0.kind = "BusSpeed" /\ c0.who # "nobody" =>
         d' = Send(Without(i), Cmd("UsbSpeed", 0, c0.arg, c0.who))
  BY <1>5
<1>9. c0.kind = "BusSpeed" /\ c0.who = "nobody" => d' = Without(i)
  BY <1>5
<1>10. c0.kind = "UsbSpeed" => d' = UsbSpeedSet(Without(i), c0.arg, c0.who)
  BY <1>5
<1>. QED  BY <1>2, <1>3, <1>4, <1>6, <1>7, <1>8, <1>9, <1>10 DEF c0

\* MTB-USB's information came.
LEMMA UsbInfoStep ==
    ASSUME IInv, NEW i \in DOMAIN d.bus, UsbAnswers(i), d.bus[i].kind = "UsbInfo"
    PROVE  IInv' /\ Keeps(d')
<1> DEFINE c0 == d.bus[i]
           w == Without(i)
           s == [w EXCEPT !.known = @ \cup {"info"}, !.speed = usb.speed]
           t == MtbUsbGotInfo(s)
           n == Cmd("BusSpeed", 0, s.fileSpeed, "nobody")
           c == Cmd("BusSpeed", 0, s.fileSpeed, "connect")
           m == Cmd("UsbModules", 0, 0, "connect")
<1>1. /\ d.alive /\ UsbTyped(usb') /\ d' = t
      /\ Shaped(d) /\ Typed(d) /\ UsbTyped(usb) /\ Sound(d)
  BY UsbAnswersEffect DEF IInv, TypeOK
<1>2. Ended(c0, w)
  BY <1>1, Taken
<1>3. c0.kind = "UsbInfo" /\ c0.who = "connect" /\ c0.to = 0
  BY <1>2, CommandKinds DEF Ended
<1> HIDE DEF c0, w
<1>4. /\ Shaped(s) /\ Same(d, s, {"bus", "known", "speed"})
      /\ s.bus = w.bus /\ s.known = d.known \cup {"info"} /\ s.speed = usb.speed
  BY <1>2 DEF Shaped, Same, Fields, Ended
<1>5. Typed(s)
  <2>1. s.speed \in Speeds /\ s.known \in SUBSET {"info", "modules"}
    BY <1>1, <1>4 DEF Typed, UsbTyped
  <2>. QED  BY <1>1, <1>2, <1>4, <2>1 DEF Typed, Same, Fields, Ended
<1> HIDE DEF s
<1>6. \A x \in ToSet(w.bus) : x.who # "connect"
  BY <1>2, <1>3 DEF Ended
<1>7. s.open
  BY <1>2, <1>4 DEF Same, Fields, Ended
<1>8. /\ Shaped(t) /\ Typed(t) /\ Same(s, t, {"bus"})
      /\ OrderedBy(t.bus, Unique)
      /\ \/ ToSet(t.bus) = ToSet(w.bus) \cup {m}
         \/ ToSet(t.bus) = ToSet(w.bus) \cup {n, c}
  BY <1>2, <1>4, <1>5, <1>6, <1>7, MtbUsbGotInfoEffect DEF Ended
<1> HIDE DEF t
<1>9. /\ "modules" \notin d.known /\ "info" \notin d.known
      /\ \A x \in ToSet(w.bus) : x.kind \notin SpeedCmds \cup {"UsbInfo", "UsbModules"}
  BY <1>1, <1>2, <1>3, <1>6, CommandKinds DEF Sound, Connecting, Ended
<1>10. \A x \in {m, n, c} : /\ x.who \in {"connect", "nobody"}
                            /\ x.kind \in {"UsbModules", "BusSpeed"}
  BY DEF Cmd
<1> HIDE DEF m, n, c
<1>11. /\ t.known = d.known \cup {"info"} /\ t.open = d.open /\ t.asked = d.asked
       /\ t.tReconnect = d.tReconnect /\ t.activeModules = d.activeModules
       /\ t.replies = d.replies /\ t.modules = d.modules /\ t.retries = d.retries
       /\ t.gaveUp = d.gaveUp /\ t.told = d.told
       /\ t.topoSubscribes = d.topoSubscribes
       /\ t.newTimerPending = d.newTimerPending
       /\ t.failTimerPending = d.failTimerPending
  BY <1>4, <1>8 DEF Same, Fields
<1>12. \A x \in ToSet(t.bus) : x \in ToSet(w.bus) \/ x \in {m, n, c}
  BY <1>8
<1>13. \A x \in ToSet(w.bus) : x \in ToSet(t.bus)
  BY <1>8
<1>14. "connect" \notin Requests /\ "nobody" \notin Requests
  BY MtbDaemonAssumption DEF Callers
<1>15. Closed(t)
  BY <1>1, <1>2, <1>11 DEF Sound, Closed, Ended
<1>16. Connecting(t)
  BY <1>8, <1>9, <1>10, <1>11, <1>12 DEF Connecting, SpeedCmds
<1>17. Answering(t)
  <2>1. \A r \in Requests : (\E x \in ToSet(t.bus) : x.who = r)
                               <=> (\E x \in ToSet(d.bus) : x.who = r)
    BY <1>2, <1>3, <1>10, <1>12, <1>13, <1>14 DEF Ended
  <2>. QED  BY <1>1, <1>11, <2>1, AnsweringKept DEF Sound
<1>18. Telling(t)
  <2>1. MtbUsbJson(t) = MtbUsbJson(d)
    BY <1>9, <1>11 DEF MtbUsbJson
  <2>. QED  BY <1>1, <1>11, <2>1, TellingKept DEF Sound
<1>19. Pointing(t) /\ Activating(t) /\ Listing(t)
  <2>1. \A x \in ToSet(t.bus) : x.who = "object" => x \in ToSet(d.bus)
    BY <1>2, <1>10, <1>12 DEF Ended
  <2>2. \A x \in ToSet(d.bus) : x.kind \in {"Info", "Inputs"} => x \in ToSet(t.bus)
    BY <1>2, <1>3, <1>13 DEF Ended
  <2>. QED  BY <1>1, <1>11, <2>1, <2>2, ObjectsKept DEF Sound
<1>20. Sound(t)
  BY <1>15, <1>16, <1>17, <1>18, <1>19 DEF Sound
<1>21. Keeps(t)
  <2>1. \A x \in ToSet(t.bus) : x.kind = "Inputs" => x \in ToSet(d.bus)
    BY <1>2, <1>10, <1>12 DEF Ended
  <2>. QED  BY <1>11, <2>1, KeepsSame
<1>. QED  BY <1>1, <1>8, <1>20, <1>21, StepKeeps DEF t

\* MTB-USB's modules came.
LEMMA UsbModulesStep ==
    ASSUME IInv, NEW i \in DOMAIN d.bus, UsbAnswers(i), d.bus[i].kind = "UsbModules"
    PROVE  IInv' /\ Keeps(d') /\ Steady(d')
<1> DEFINE c0 == d.bus[i]
           w == Without(i)
           s == [w EXCEPT !.known = @ \cup {"modules"}, !.activeModules = usb.list]
           t == MtbUsbGotModules(s)
           I == {Cmd("Info", a, ATTEMPTS, "daemon") : a \in s.activeModules}
<1>1. /\ d.alive /\ UsbTyped(usb') /\ d' = t
      /\ Shaped(d) /\ Typed(d) /\ UsbTyped(usb) /\ Sound(d)
  BY UsbAnswersEffect DEF IInv, TypeOK
<1>2. Ended(c0, w)
  BY <1>1, Taken
<1>3. c0.kind = "UsbModules" /\ c0.who = "connect" /\ c0.to = 0
  BY <1>2, CommandKinds DEF Ended
<1> HIDE DEF c0, w
<1>4. /\ Shaped(s) /\ Same(d, s, {"bus", "known", "activeModules"})
      /\ s.bus = w.bus /\ s.known = d.known \cup {"modules"}
      /\ s.activeModules = usb.list
  BY <1>2 DEF Shaped, Same, Fields, Ended
<1>5. Typed(s)
  <2>1. s.activeModules \in SUBSET Addr /\ s.known \in SUBSET {"info", "modules"}
    BY <1>1, <1>4 DEF Typed, UsbTyped
  <2>. QED  BY <1>1, <1>2, <1>4, <2>1 DEF Typed, Same, Fields, Ended
<1> HIDE DEF s
<1>6. \A x \in ToSet(w.bus) : x.who # "connect"
  BY <1>2, <1>3 DEF Ended
<1>7. /\ Shaped(t) /\ Typed(t) /\ Same(s, t, {"bus", "told", "gaveUp"})
      /\ OrderedBy(t.bus, Unique)
      /\ ToSet(t.bus) = ToSet(w.bus) \cup I
      /\ MtbUsbJson(t) = MtbUsbJson(s)
      /\ \A c \in Clients :
            t.told[c] = IF c \in s.topoSubscribes THEN MtbUsbJson(s) ELSE s.told[c]
  BY <1>2, <1>4, <1>5, UniqueForUsb, MtbUsbGotModulesEffect DEF Ended
<1>22. OrderedBy(w.bus, Follows) => OrderedBy(t.bus, Follows)
  <2>1. ASSUME OrderedBy(s.bus, Follows)  PROVE OrderedBy(t.bus, Follows)
    BY <1>4, <1>5, <2>1, FollowsForUsb, MtbUsbGotModulesEffect
  <2>. QED  BY <1>4, <2>1
<1> HIDE DEF t
<1>8. /\ t.known = d.known \cup {"modules"} /\ t.open = d.open /\ t.asked = d.asked
      /\ t.speed = d.speed /\ t.speedFailed = d.speedFailed
      /\ t.tReconnect = d.tReconnect /\ t.activeModules = s.activeModules
      /\ t.replies = d.replies /\ t.modules = d.modules /\ t.retries = d.retries
      /\ t.topoSubscribes = d.topoSubscribes
      /\ s.topoSubscribes = d.topoSubscribes /\ s.told = d.told
  BY <1>4, <1>7 DEF Same, Fields
<1>9. \A x \in I : x.who = "daemon" /\ x.kind = "Info"
  BY DEF Cmd
<1>10. \A a \in t.activeModules : \E x \in ToSet(t.bus) : x.kind = "Info" /\ x.to = a
  <2> SUFFICES ASSUME NEW a \in t.activeModules
               PROVE  \E x \in ToSet(t.bus) : x.kind = "Info" /\ x.to = a
    OBVIOUS
  <2>1. Cmd("Info", a, ATTEMPTS, "daemon") \in ToSet(t.bus)
    BY <1>7, <1>8
  <2>. QED  BY <2>1 DEF Cmd
<1> HIDE DEF I
<1>11. \A x \in ToSet(t.bus) : x \in ToSet(w.bus) \/ x \in I
  BY <1>7
<1>12. \A x \in ToSet(w.bus) : x \in ToSet(t.bus)
  BY <1>7
<1>13. "connect" \notin Requests /\ "daemon" \notin Requests
  BY MtbDaemonAssumption DEF Callers
<1>14. Closed(t)
  BY <1>1, <1>2, <1>8 DEF Sound, Closed, Ended
<1>15. Connecting(t)
  <2>1. \A x \in ToSet(w.bus) : x.kind # "UsbInfo"
                                /\ (x.kind \in SpeedCmds => "info" \in d.known)
    BY <1>1, <1>2, <1>6, CommandKinds DEF Sound, Connecting, Ended
  <2>. QED  BY <1>6, <1>7, <1>8, <1>9, <1>11, <2>1 DEF Connecting, SpeedCmds
<1>16. Answering(t)
  <2>1. \A r \in Requests : (\E x \in ToSet(t.bus) : x.who = r)
                               <=> (\E x \in ToSet(d.bus) : x.who = r)
    BY <1>2, <1>3, <1>9, <1>11, <1>12, <1>13 DEF Ended
  <2>. QED  BY <1>1, <1>8, <2>1, AnsweringKept DEF Sound
<1>17. Telling(t)
  <2>1. \A c \in t.topoSubscribes : t.told[c] = MtbUsbJson(t)
    BY <1>1, <1>7, <1>8 DEF Typed
  <2>2. \A c \in Clients \ t.topoSubscribes : t.told[c] = Null
    BY <1>1, <1>7, <1>8 DEF Sound, Telling
  <2>. QED  BY <2>1, <2>2 DEF Telling
<1>18. Pointing(t)
  <2>1. \A x \in ToSet(t.bus) : x.who = "object" => x \in ToSet(d.bus)
    BY <1>2, <1>9, <1>11 DEF Ended
  <2>. QED  BY <1>1, <1>8, <2>1 DEF Sound, Pointing
<1>19. Activating(t)
  <2>1. \A x \in ToSet(d.bus) : x.kind = "Inputs" => x \in ToSet(t.bus)
    BY <1>2, <1>3, <1>12 DEF Ended
  <2>. QED  BY <1>1, <1>8, <2>1 DEF Sound, Activating, IsActivating, Own
<1>20. Listing(t)
  BY <1>10 DEF Listing, LookedAfter
<1>21. Sound(t)
  BY <1>14, <1>15, <1>16, <1>17, <1>18, <1>19, <1>20 DEF Sound
<1>23. Keeps(t)
  <2>1. \A x \in ToSet(t.bus) : x.kind = "Inputs" => x \in ToSet(d.bus)
    BY <1>2, <1>9, <1>11 DEF Ended
  <2>. QED  BY <1>8, <2>1, KeepsSame
<1>24. Steady(t)
  BY <1>2, <1>3, <1>8, <1>9, <1>11, <1>12, <1>22 DEF Ended, Steady, SpeedCmds
<1>. QED  BY <1>1, <1>7, <1>21, <1>23, <1>24, StepKeeps DEF t

\* Commands of changes of the speed and of the opening of the port come and go
\* without a trace in the other fields.
LEMMA UsbCommandsSound ==
    ASSUME Shaped(d), Typed(d), Sound(d), NEW c0, NEW w, Ended(c0, w), c0.to = 0,
           NEW t, Shaped(t), Typed(t), OrderedBy(t.bus, Unique),
           Same(d, t, {"bus", "replies", "speed", "speedFailed"}),
           \A x \in ToSet(w.bus) : x \in ToSet(t.bus),
           \A x \in ToSet(t.bus) : x \in ToSet(w.bus)
               \/ (x.to = 0 /\ x.kind # "UsbInfo" /\ x.who = c0.who
                   /\ (x.kind \in SpeedCmds => c0.kind \in SpeedCmds)),
           Answering(t)
    PROVE  Sound(t)
<1>1. /\ t.known = d.known /\ t.open = d.open /\ t.asked = d.asked
      /\ t.tReconnect = d.tReconnect /\ t.activeModules = d.activeModules
      /\ t.modules = d.modules /\ t.retries = d.retries
      /\ t.gaveUp = d.gaveUp /\ t.told = d.told
      /\ t.topoSubscribes = d.topoSubscribes
      /\ t.newTimerPending = d.newTimerPending
      /\ t.failTimerPending = d.failTimerPending
  BY DEF Same, Fields
<1>2. c0.kind \notin {"Info", "Inputs"} /\ c0.who # "object"
  BY CommandKinds DEF Ended
<1>3. Closed(t)
  BY <1>1 DEF Sound, Closed, Ended
<1>4. Connecting(t)
  BY <1>1 DEF Sound, Connecting, Ended
<1>5. Telling(t)
  <2>1. MtbUsbJson(t) = MtbUsbJson(d)
    BY <1>1, JsonKept
  <2>. QED  BY <1>1, <2>1, TellingKept DEF Sound
<1>6. Pointing(t) /\ Activating(t) /\ Listing(t)
  <2>1. \A x \in ToSet(t.bus) : x.who = "object" => x \in ToSet(d.bus)
    BY <1>2 DEF Ended
  <2>2. \A x \in ToSet(d.bus) : x.kind \in {"Info", "Inputs"} => x \in ToSet(t.bus)
    BY <1>2 DEF Ended
  <2>. QED  BY <1>1, <2>1, <2>2, ObjectsKept DEF Sound
<1>. QED  BY <1>3, <1>4, <1>5, <1>6 DEF Sound

\* A broadcast of the speed was sent: the third is followed by MTB-USB's own.
LEMMA BusSpeedStep ==
    ASSUME IInv, NEW i \in DOMAIN d.bus, UsbAnswers(i), d.bus[i].kind = "BusSpeed"
    PROVE  IInv' /\ Keeps(d')
<1> DEFINE c0 == d.bus[i]
           w == Without(i)
           c == Cmd("UsbSpeed", 0, c0.arg, c0.who)
<1>1. /\ d.alive /\ UsbTyped(usb')
      /\ Shaped(d) /\ Typed(d) /\ Sound(d)
      /\ c0.who # "nobody" => d' = Send(w, c)
      /\ c0.who = "nobody" => d' = w
  BY UsbAnswersEffect DEF IInv, TypeOK
<1>2. Ended(c0, w)
  BY <1>1, Taken
<1>3. /\ c0.kind = "BusSpeed" /\ c0.to = 0 /\ c0.arg \in Speeds
      /\ c0.who \in Requests \cup {"connect", "nobody"}
      /\ c0 \in ToSet(d.bus)
  BY <1>2, CommandKinds DEF Ended
<1>4. "nobody" \notin Requests
  BY MtbDaemonAssumption DEF Callers
<1> HIDE DEF c0, w
<1>5. CASE c0.who = "nobody"
  <2>1. /\ Shaped(w) /\ Typed(w) /\ OrderedBy(w.bus, Unique)
        /\ Same(d, w, {"bus"}) /\ Same(d, w, {"bus", "replies", "speed", "speedFailed"})
    BY <1>2 DEF Ended, Same
  <2>2. Answering(w)
    <3>1. \A r \in Requests : (\E x \in ToSet(w.bus) : x.who = r)
                                 <=> (\E x \in ToSet(d.bus) : x.who = r)
      BY <1>2, <1>4, <1>5 DEF Ended
    <3>2. w.asked = d.asked /\ w.replies = d.replies
      BY <2>1 DEF Same, Fields
    <3>. QED  BY <1>1, <3>1, <3>2, AnsweringKept DEF Sound
  <2>3. Sound(w)
    BY <1>1, <1>2, <1>3, <2>1, <2>2, UsbCommandsSound
  <2>4. Keeps(w)
    <3>1. w.modules = d.modules
      BY <2>1 DEF Same, Fields
    <3>. QED  BY <1>2, <3>1, KeepsSame DEF Ended
  <2>. QED  BY <1>1, <1>5, <2>1, <2>3, <2>4, StepKeeps
<1>6. CASE c0.who # "nobody"
  <2> DEFINE t == Send(w, c)
  <2>1. c \in Commands /\ c.who = c0.who /\ c.to = 0 /\ c.kind = "UsbSpeed"
    BY <1>3, <1>6, CommandTypes DEF Cmd
  <2> HIDE DEF c
  <2>2. \A x \in ToSet(w.bus) : x.who = c.who => x.who \notin Requests \cup {"connect"}
    BY <1>2, <2>1 DEF Ended
  <2>3. /\ Shaped(t) /\ Typed(t) /\ Same(w, t, {"bus"})
        /\ OrderedBy(t.bus, Unique)
        /\ ToSet(t.bus) = ToSet(w.bus) \cup {c}
    BY <1>2, <2>1, <2>2, SendEffect DEF Ended
  <2> HIDE DEF t
  <2>4. Same(d, t, {"bus", "replies", "speed", "speedFailed"})
    BY <1>2, <2>3 DEF Ended, Same
  <2>5. /\ \A x \in ToSet(t.bus) : x \in ToSet(w.bus) \/ x = c
        /\ \A x \in ToSet(w.bus) : x \in ToSet(t.bus)
        /\ c \in ToSet(t.bus)
    BY <2>3
  <2>6. Answering(t)
    <3>1. \A r \in Requests : (\E x \in ToSet(t.bus) : x.who = r)
                                 <=> (\E x \in ToSet(d.bus) : x.who = r)
      BY <1>2, <1>3, <2>1, <2>5 DEF Ended
    <3>2. t.asked = d.asked /\ t.replies = d.replies
      BY <1>2, <2>3 DEF Same, Fields, Ended
    <3>. QED  BY <1>1, <3>1, <3>2, AnsweringKept DEF Sound
  <2>7. \A x \in ToSet(t.bus) : x \in ToSet(w.bus)
               \/ (x.to = 0 /\ x.kind # "UsbInfo" /\ x.who = c0.who
                   /\ (x.kind \in SpeedCmds => c0.kind \in SpeedCmds))
    BY <1>3, <2>1, <2>5 DEF SpeedCmds
  <2>8. Sound(t)
    BY <1>1, <1>2, <1>3, <2>3, <2>4, <2>5, <2>6, <2>7, UsbCommandsSound
  <2>9. Keeps(t)
    <3>1. t.modules = d.modules
      BY <2>4 DEF Same, Fields
    <3>2. \A x \in ToSet(t.bus) : x.kind = "Inputs" => x \in ToSet(d.bus)
      BY <1>2, <2>1, <2>5 DEF Ended
    <3>. QED  BY <3>1, <3>2, KeepsSame
  <2>. QED  BY <1>1, <1>6, <2>3, <2>8, <2>9, StepKeeps DEF t
<1>. QED  BY <1>5, <1>6

\* MTB-USB changed its own speed: the next of the chain, or the response.
LEMMA UsbSpeedStep ==
    ASSUME IInv, NEW i \in DOMAIN d.bus, UsbAnswers(i), d.bus[i].kind = "UsbSpeed"
    PROVE  IInv' /\ Keeps(d')
<1> DEFINE c0 == d.bus[i]
           w == Without(i)
           u == [w EXCEPT !.speed = c0.arg]
           c == Cmd("UsbModules", 0, 0, "connect")
<1>1. /\ d.alive /\ UsbTyped(usb')
      /\ Shaped(d) /\ Typed(d) /\ Sound(d)
      /\ d' = UsbSpeedSet(w, c0.arg, c0.who)
  BY UsbAnswersEffect DEF IInv, TypeOK
<1>2. Ended(c0, w)
  BY <1>1, Taken
<1>3. /\ c0.kind = "UsbSpeed" /\ c0.to = 0 /\ c0.arg \in Speeds
      /\ c0.who \in Requests \cup {"connect"}
      /\ c0 \in ToSet(d.bus)
  BY <1>2, CommandKinds DEF Ended
<1>4. "connect" \notin Requests
  BY MtbDaemonAssumption DEF Callers
<1>5. d' = IF c0.who = "connect" THEN Send(u, c) ELSE Reply(u, c0.who, "ok")
  BY <1>1 DEF UsbSpeedSet, MtbUsbProperSpeedSet
<1> HIDE DEF c0, w
<1>6. /\ Shaped(u) /\ Same(w, u, {"speed"}) /\ u.speed = c0.arg
      /\ u.bus = w.bus
  BY <1>2 DEF Shaped, Same, Fields, Ended
<1>7. Typed(u)
  BY <1>2, <1>3, <1>6 DEF Typed, Same, Fields, Ended
<1> HIDE DEF u
<1>8. CASE c0.who = "connect"
  <2> DEFINE t == Send(u, c)
  <2>1. c \in Commands /\ c.who = c0.who /\ c.to = 0 /\ c.kind = "UsbModules"
    BY <1>8, CommandTypes DEF Cmd
  <2> HIDE DEF c
  <2>2. /\ \A x \in ToSet(u.bus) : x.who = c.who => x.who \notin Requests \cup {"connect"}
        /\ OrderedBy(u.bus, Unique)
    BY <1>2, <1>6, <2>1 DEF Ended
  <2>3. /\ Shaped(t) /\ Typed(t) /\ Same(u, t, {"bus"})
        /\ OrderedBy(t.bus, Unique)
        /\ ToSet(t.bus) = ToSet(w.bus) \cup {c}
    <3>1. /\ Shaped(t) /\ Typed(t) /\ Same(u, t, {"bus"})
          /\ OrderedBy(t.bus, Unique)
          /\ ToSet(t.bus) = ToSet(u.bus) \cup {c}
      BY <1>6, <1>7, <2>1, <2>2, SendEffect
    <3>. QED  BY <1>6, <3>1
  <2> HIDE DEF t
  <2>4. Same(d, t, {"bus", "replies", "speed", "speedFailed"})
    BY <1>2, <1>6, <2>3 DEF Ended, Same
  <2>5. /\ \A x \in ToSet(t.bus) : x \in ToSet(w.bus) \/ x = c
        /\ \A x \in ToSet(w.bus) : x \in ToSet(t.bus)
        /\ c \in ToSet(t.bus)
    BY <2>3
  <2>6. Answering(t)
    <3>1. \A r \in Requests : (\E x \in ToSet(t.bus) : x.who = r)
                                 <=> (\E x \in ToSet(d.bus) : x.who = r)
      BY <1>2, <1>3, <2>1, <2>5 DEF Ended
    <3>2. t.asked = d.asked /\ t.replies = d.replies
      BY <1>2, <1>6, <2>3 DEF Same, Fields, Ended
    <3>. QED  BY <1>1, <3>1, <3>2, AnsweringKept DEF Sound
  <2>7. \A x \in ToSet(t.bus) : x \in ToSet(w.bus)
               \/ (x.to = 0 /\ x.kind # "UsbInfo" /\ x.who = c0.who
                   /\ (x.kind \in SpeedCmds => c0.kind \in SpeedCmds))
    BY <1>3, <2>1, <2>5 DEF SpeedCmds
  <2>8. Sound(t)
    BY <1>1, <1>2, <1>3, <2>3, <2>4, <2>5, <2>6, <2>7, UsbCommandsSound
  <2>9. Keeps(t)
    <3>1. t.modules = d.modules
      BY <2>4 DEF Same, Fields
    <3>2. \A x \in ToSet(t.bus) : x.kind = "Inputs" => x \in ToSet(d.bus)
      BY <1>2, <2>1, <2>5 DEF Ended
    <3>. QED  BY <3>1, <3>2, KeepsSame
  <2>. QED  BY <1>1, <1>5, <1>8, <2>3, <2>8, <2>9, StepKeeps DEF t
<1>9. CASE c0.who # "connect"
  <2> DEFINE t == Reply(u, c0.who, "ok")
  <2>1. /\ Shaped(t) /\ Typed(t) /\ Same(u, t, {"replies"})
        /\ Len(t.replies[c0.who]) = Len(u.replies[c0.who]) + 1
        /\ \A x \in Requests \ {c0.who} : t.replies[x] = u.replies[x]
    BY <1>3, <1>6, <1>7, <1>9, ReplyEffect
  <2> HIDE DEF t
  <2>2. /\ t.bus = w.bus /\ t.asked = d.asked
        /\ u.replies = d.replies
        /\ Same(d, t, {"bus", "replies", "speed", "speedFailed"})
    BY <1>2, <1>6, <2>1 DEF Same, Fields, Ended
  <2>3. Answering(t)
    <3>1. \A x \in ToSet(t.bus) : x \in ToSet(d.bus) /\ x.who # c0.who
      BY <1>2, <1>3, <1>9, <2>2 DEF Ended
    <3>2. \A x \in ToSet(d.bus) : x \in ToSet(t.bus) \/ x = c0
      BY <1>2, <2>2 DEF Ended
    <3>3. c0.who \in Requests
      BY <1>3, <1>9
    <3>. QED  BY <1>1, <1>3, <2>1, <2>2, <3>1, <3>2, <3>3, AnsweredBy DEF Sound
  <2>4. OrderedBy(t.bus, Unique)
    BY <1>2, <2>2 DEF Ended
  <2>5. Sound(t)
    BY <1>1, <1>2, <1>3, <2>1, <2>2, <2>3, <2>4, UsbCommandsSound
  <2>6. Keeps(t)
    <3>1. t.modules = d.modules
      BY <2>2 DEF Same, Fields
    <3>. QED  BY <1>2, <2>2, <3>1, KeepsSame DEF Ended
  <2>. QED  BY <1>1, <1>5, <1>9, <2>1, <2>5, <2>6, StepKeeps DEF t
<1>. QED  BY <1>8, <1>9

LEMMA UsbAnswersStep ==
    ASSUME IInv, NEW i \in DOMAIN d.bus, UsbAnswers(i)
    PROVE  IInv' /\ Keeps(d')
<1>1. d.bus[i].kind \in {"UsbInfo", "UsbModules", "BusSpeed", "UsbSpeed"}
  BY UsbAnswersEffect
<1>. QED  BY <1>1, UsbInfoStep, UsbModulesStep, BusSpeedStep, UsbSpeedStep

-----------------------------------------------------------------------------
(* Steps: modules *)

\* What becomes of the commands when the object of a goes.
LEMMA OrphanedFacts ==
    ASSUME NEW q \in Seq(Commands), NEW a \in Addr, NEW R, ForUsb(R), OrderedBy(q, R)
    PROVE  LET o == Orphaned(q, a)
           IN  /\ o \in Seq(Commands)
               /\ OrderedBy(o, R)
               /\ \A x \in ToSet(o) :
                     \/ x \in ToSet(q) /\ ~(x.kind = "Inputs" /\ x.to = a)
                     \/ /\ x.kind = "Inputs" /\ x.to = a /\ x.who = "deleted"
                        /\ \E y \in ToSet(q) : y.kind = "Inputs" /\ y.to = a
               /\ \A y \in ToSet(q) :
                     \/ y \in ToSet(o)
                     \/ /\ y.kind = "Inputs" /\ y.to = a
                        /\ \E x \in ToSet(o) : x.kind = "Inputs" /\ x.to = a
<1> DEFINE o == Orphaned(q, a)
<1>1. DOMAIN q = 1 .. Len(q) /\ Len(q) \in Nat /\ \A i \in DOMAIN q : q[i] \in Commands
  OBVIOUS
<1>2. \A c \in Commands : c.kind = "Inputs" /\ c.to = a =>
         /\ [c EXCEPT !.who = "deleted"] \in Commands
         /\ [c EXCEPT !.who = "deleted"].kind = "Inputs"
         /\ [c EXCEPT !.who = "deleted"].to = a
         /\ [c EXCEPT !.who = "deleted"].who = "deleted"
  BY DEF Commands
<1>3. /\ DOMAIN o = DOMAIN q
      /\ \A i \in DOMAIN q :
            /\ o[i] \in Commands /\ o[i].kind = q[i].kind
            /\ ~(q[i].kind = "Inputs" /\ q[i].to = a) => o[i] = q[i]
            /\ q[i].kind = "Inputs" /\ q[i].to = a =>
                  o[i].kind = "Inputs" /\ o[i].to = a /\ o[i].who = "deleted"
  BY <1>1, <1>2 DEF Orphaned
<1> HIDE DEF o
<1>4. o \in Seq(Commands)
  <2>1. o = [i \in 1 .. Len(q) |-> o[i]]
    BY <1>1, <1>3 DEF o, Orphaned
  <2>. QED  BY <1>1, <1>3, <2>1
<1>5. OrderedBy(o, R)
  <2> SUFFICES ASSUME NEW i \in DOMAIN o, NEW j \in DOMAIN o, i < j
               PROVE  <<o[i], o[j]>> \in R
    BY DEF OrderedBy
  <2>1. CASE q[i].kind = "Inputs" \/ q[j].kind = "Inputs"
    BY <1>3, <2>1 DEF ForUsb
  <2>2. CASE ~(q[i].kind = "Inputs" \/ q[j].kind = "Inputs")
    BY <1>3, <2>2 DEF OrderedBy
  <2>. QED  BY <2>1, <2>2
<1>6. ASSUME NEW x \in ToSet(o)
      PROVE  \/ x \in ToSet(q) /\ ~(x.kind = "Inputs" /\ x.to = a)
             \/ /\ x.kind = "Inputs" /\ x.to = a /\ x.who = "deleted"
                /\ \E y \in ToSet(q) : y.kind = "Inputs" /\ y.to = a
  <2>1. PICK i \in DOMAIN q : x = o[i]
    BY <1>3 DEF ToSet
  <2>2. q[i] \in ToSet(q)
    BY DEF ToSet
  <2>. QED  BY <1>3, <2>1, <2>2
<1>7. ASSUME NEW y \in ToSet(q)
      PROVE  \/ y \in ToSet(o)
             \/ /\ y.kind = "Inputs" /\ y.to = a
                /\ \E x \in ToSet(o) : x.kind = "Inputs" /\ x.to = a
  <2>1. PICK i \in DOMAIN q : y = q[i]
    BY DEF ToSet
  <2>2. o[i] \in ToSet(o)
    BY <1>3 DEF ToSet
  <2>. QED  BY <1>3, <2>1, <2>2
<1>. QED  BY <1>4, <1>5, <1>6, <1>7 DEF o

\* An object that nothing happened to.
LEMMA NewObjectFacts ==
    ASSUME NEW type \in Types
    PROVE  /\ NewObject(type) \in Objects
           /\ NewObject(type).type = type
           /\ NewObject(type).class = ClassOf(type)
           /\ ~NewObject(type).own.activating /\ ~NewObject(type).own.active
           /\ NewObject(type).own.activationsRemaining = 0
<1> DEFINE w == Mod!NewModule
<1>1. [r \in {} |-> <<>>] = <<>>
  <2>1. DOMAIN <<>> = {}
    OBVIOUS
  <2>2. <<>> = [r \in DOMAIN <<>> |-> <<>>[r]]
    OBVIOUS
  <2>. QED  BY <2>1, <2>2
<1>2. w \in Owns /\ ~w.activating /\ ~w.active /\ w.activationsRemaining = 0
  BY <1>1 DEF Mod!NewModule, Mod!None, None, Owns
<1> HIDE DEF w
<1>3. ClassOf(type) \in {"MtbRc", "MtbModule"}
  BY DEF ClassOf
<1>4. NewObject(type) = [type |-> type, class |-> ClassOf(type), own |-> w]
  BY DEF NewObject, w
<1>. QED  BY <1>2, <1>3, <1>4 DEF Objects

\* What the information of the module at a makes of s.
GotInfo(s, t, a, type, R) ==
    /\ Shaped(t) /\ Typed(t) /\ Same(s, t, {"modules", "bus"})
    /\ OrderedBy(t.bus, R)
    /\ t.modules[a] # Null /\ t.modules[a].type = type
    /\ Own(t, a).activationsRemaining = MTB_MODULE_ACTIVATIONS
    /\ \A b \in Addr \ {a} : t.modules[b] = s.modules[b]
    /\ \A x \in ToSet(t.bus) : x \in ToSet(s.bus) \/ (x.kind = "Inputs" /\ x.to = a)
    /\ \A x \in ToSet(s.bus) : x \in ToSet(t.bus) \/ (x.kind = "Inputs" /\ x.to = a)
    /\ Own(t, a).activating =>
          /\ t.modules[a].class = "MtbRc"
          /\ \E x \in ToSet(t.bus) : x.kind = "Inputs" /\ x.to = a
    /\ \A x \in ToSet(t.bus) : x.who = "deleted" =>
          \/ x \in ToSet(s.bus)
          \/ /\ s.modules[a] # Null /\ s.modules[a].type # type
             /\ \E y \in ToSet(s.bus) : y.kind = "Inputs" /\ y.to = a

LEMMA ModuleGotInfoEffect ==
    ASSUME NEW s, Shaped(s), Typed(s), Activating(s), NEW a \in Addr,
           NEW type \in Types, NEW bootloader \in BOOLEAN,
           NEW R, ForUsb(R), OrderedBy(s.bus, R)
    PROVE  GotInfo(s, ModuleGotInfo(s, a, type, bootloader), a, type, R)
<1> DEFINE old == s.modules[a]
           mismatch == old # Null /\ old.type # type
           object == IF old = Null \/ mismatch THEN NewObject(type) ELSE old
           q == IF mismatch THEN Orphaned(s.bus, a) ELSE s.bus
           own == Mod!ModuleActivate(object.own, bootloader)
           new == [object EXCEPT !.own = own]
           t == [s EXCEPT !.modules[a] = new, !.bus = q]
           v == ModuleGotInfo(s, a, type, bootloader)
           c == Cmd("Inputs", a, 0, "object")
<1>1. /\ s.modules \in [Addr -> Objects \cup {Null}] /\ s.bus \in Seq(Commands)
  BY DEF Typed
<1>2. v = CASE object.class # "MtbRc" -> t
            [] object.class = "MtbRc" /\ bootloader ->
                 [t EXCEPT !.modules[a].own.active = TRUE]
            [] OTHER -> Activate(t, a)
  <2>1. t = [s EXCEPT !.modules[a] =
                          [object EXCEPT !.own = Mod!ModuleActivate(@, bootloader)],
                       !.bus = IF mismatch THEN Orphaned(@, a) ELSE @]
    OBVIOUS
  <2>. QED  BY <2>1, Zenon DEF ModuleGotInfo
<1>3. /\ NewObject(type) \in Objects
      /\ NewObject(type).type = type /\ ~NewObject(type).own.activating
  BY NewObjectFacts
<1>4. /\ object \in Objects /\ object.type = type
      /\ object.own.activating => old # Null /\ ~mismatch /\ object = old
  BY <1>1, <1>3
<1>5. /\ q \in Seq(Commands)
      /\ OrderedBy(q, R)
      /\ \A x \in ToSet(q) : x \in ToSet(s.bus) \/ (x.kind = "Inputs" /\ x.to = a)
      /\ \A x \in ToSet(s.bus) : x \in ToSet(q) \/ (x.kind = "Inputs" /\ x.to = a)
      /\ ~mismatch => q = s.bus
      /\ \A x \in ToSet(q) : x.who = "deleted" =>
            \/ x \in ToSet(s.bus)
            \/ /\ mismatch
               /\ \E y \in ToSet(s.bus) : y.kind = "Inputs" /\ y.to = a
  <2>1. CASE mismatch
    BY <1>1, <2>1, OrphanedFacts
  <2>2. CASE ~mismatch
    BY <1>1, <2>2
  <2>. QED  BY <2>1, <2>2
<1>6. /\ own \in Owns /\ own.activating = object.own.activating
      /\ own.activationsRemaining = MTB_MODULE_ACTIVATIONS
  <2>1. object.own \in Owns
    BY <1>4 DEF Objects
  <2>2. own \in Owns
    BY <2>1, OwnTypes
  <2>3. /\ own.activating = object.own.activating
        /\ own.activationsRemaining = MTB_MODULE_ACTIVATIONS
    BY <2>1, OwnFacts
  <2>. QED  BY <2>2, <2>3
<1>7. object.own.activating =>
         /\ object.class = "MtbRc"
         /\ \E x \in ToSet(q) : x.kind = "Inputs" /\ x.to = a
  BY <1>4, <1>5 DEF Activating, IsActivating, Own
<1> HIDE DEF object, own, q
<1>8. new \in Objects /\ new # Null /\ new.type = type /\ new.class = object.class
      /\ new.own = own
  <2>1. new \in Objects /\ new.type = type /\ new.class = object.class /\ new.own = own
    BY <1>4, <1>6 DEF Objects
  <2>. QED  BY <2>1, MtbDaemonAssumption
<1> HIDE DEF new
<1> DEFINE m == [s.modules EXCEPT ![a] = new]
<1>9. /\ m \in [Addr -> Objects \cup {Null}] /\ m[a] = new
      /\ \A b \in Addr \ {a} : m[b] = s.modules[b]
  BY <1>1, <1>8
<1>10. t = [s EXCEPT !.modules = m, !.bus = q]
  OBVIOUS
<1> HIDE DEF m
<1>11. /\ Shaped(t) /\ Same(s, t, {"modules", "bus"}) /\ t.modules = m /\ t.bus = q
  BY <1>10 DEF Shaped, Same, Fields
<1>12. Typed(t)
  BY <1>5, <1>9, <1>11 DEF Typed, Same, Fields
<1> HIDE DEF t
<1>13. CASE object.class # "MtbRc"
  <2>1. v = t
    BY <1>2, <1>13
  <2>2. ~t.modules[a].own.activating
    BY <1>6, <1>7, <1>8, <1>9, <1>11, <1>13
  <2>. QED  BY <1>5, <1>6, <1>8, <1>9, <1>11, <1>12, <2>1, <2>2 DEF GotInfo, Own
<1>14. CASE object.class = "MtbRc" /\ bootloader
  <2> DEFINE w == [own EXCEPT !.active = TRUE]
             n == [m EXCEPT ![a].own = w]
  <2>1. v = [t EXCEPT !.modules[a].own.active = TRUE]
    BY <1>2, <1>14
  <2>2. w \in Owns
    BY <1>6, OwnTypes
  <2>3. /\ w.activating = own.activating
        /\ w.activationsRemaining = MTB_MODULE_ACTIVATIONS
    BY <1>6 DEF Owns
  <2>4. v = [t EXCEPT !.modules = n]
    BY <1>8, <1>9, <1>11, <2>1
  <2> HIDE DEF w
  <2>5. /\ n \in [Addr -> Objects \cup {Null}]
        /\ n[a] # Null /\ n[a].type = m[a].type /\ n[a].class = m[a].class
        /\ n[a].own = w
        /\ \A b \in Addr \ {a} : n[b] = m[b]
    BY <1>8, <1>9, <2>2, OwnChange
  <2> HIDE DEF n, v
  <2>6. /\ Shaped(v) /\ Same(t, v, {"modules"}) /\ v.modules = n /\ v.bus = q
    BY <1>11, <2>4 DEF Shaped, Same, Fields
  <2>7. Typed(v)
    BY <1>12, <2>5, <2>6 DEF Typed, Same, Fields
  <2>8. Same(s, v, {"modules", "bus"})
    BY <1>11, <2>6 DEF Same
  <2>9. GotInfo(s, v, a, type, R)
    BY <1>5, <1>6, <1>7, <1>8, <1>9, <2>3, <2>5, <2>6, <2>7, <2>8 DEF GotInfo, Own
  <2>. QED  BY <2>9 DEF v
<1>15. CASE object.class = "MtbRc" /\ ~bootloader
  <2> DEFINE w == [own EXCEPT !.activating = TRUE]
             n == [m EXCEPT ![a].own = w]
             p == Append(q, c)
  <2>1. v = [Send(t, c) EXCEPT !.modules[a].own.activating = TRUE]
    BY <1>2, <1>15 DEF Activate
  <2>2. w \in Owns
    BY <1>6, OwnTypes
  <2>3. w.activationsRemaining = MTB_MODULE_ACTIVATIONS
    BY <1>6 DEF Owns
  <2>4. v = [t EXCEPT !.modules = n, !.bus = p]
    BY <1>8, <1>9, <1>11, <2>1 DEF Send
  <2> HIDE DEF w
  <2>5. /\ n \in [Addr -> Objects \cup {Null}]
        /\ n[a] # Null /\ n[a].type = m[a].type /\ n[a].class = m[a].class
        /\ n[a].own = w
        /\ \A b \in Addr \ {a} : n[b] = m[b]
    BY <1>8, <1>9, <2>2, OwnChange
  <2>6. c \in Commands /\ c.kind = "Inputs" /\ c.to = a /\ c.who = "object"
    BY CommandTypes DEF Cmd
  <2> HIDE DEF c
  <2>7. /\ p \in Seq(Commands) /\ OrderedBy(p, R)
        /\ ToSet(p) = ToSet(q) \cup {c}
    <3>1. \A x \in ToSet(q) : <<x, c>> \in R
      <4>1. \A x \in ToSet(q) : x \in Commands
        BY <1>5 DEF ToSet
      <4>. QED  BY <2>6, <4>1 DEF ForUsb
    <3>. QED  BY <1>5, <2>6, <3>1, AppendOrdered
  <2> HIDE DEF n, p, v
  <2>8. /\ Shaped(v) /\ Same(t, v, {"modules", "bus"}) /\ v.modules = n /\ v.bus = p
    BY <1>11, <2>4 DEF Shaped, Same, Fields
  <2>9. Typed(v)
    BY <1>12, <2>5, <2>7, <2>8 DEF Typed, Same, Fields
  <2>10. Same(s, v, {"modules", "bus"})
    BY <1>11, <2>8 DEF Same
  <2>11. /\ \A x \in ToSet(v.bus) : x \in ToSet(q) \/ x = c
         /\ \A x \in ToSet(q) : x \in ToSet(v.bus)
         /\ c \in ToSet(v.bus)
    BY <2>7, <2>8
  <2>12. GotInfo(s, v, a, type, R)
    BY <1>5, <1>8, <1>9, <1>15, <2>3, <2>5, <2>6, <2>7, <2>8, <2>9, <2>10, <2>11
       DEF GotInfo, Own
  <2>. QED  BY <2>12 DEF v
<1>. QED  BY <1>13, <1>14, <1>15

\* Commands to modules do not touch the other parts.
LEMMA OthersKept ==
    ASSUME NEW s, NEW t, Typed(s), Sound(s), Typed(t),
           Same(s, t, {"modules", "bus", "retries", "gaveUp"}),
           OrderedBy(t.bus, Unique), s.open \/ t.bus = s.bus,
           \A x \in ToSet(t.bus) : x \in ToSet(s.bus) \/ x.kind \in {"Info", "Inputs"},
           \A x \in ToSet(s.bus) : x \in ToSet(t.bus) \/ x.kind \in {"Info", "Inputs"}
    PROVE  Closed(t) /\ Connecting(t) /\ Answering(t) /\ Telling(t)
<1>1. /\ t.known = s.known /\ t.open = s.open /\ t.asked = s.asked
      /\ t.tReconnect = s.tReconnect /\ t.activeModules = s.activeModules
      /\ t.replies = s.replies /\ t.told = s.told
      /\ t.topoSubscribes = s.topoSubscribes
      /\ t.newTimerPending = s.newTimerPending
      /\ t.failTimerPending = s.failTimerPending
  BY DEF Same, Fields
<1>2. /\ \A x \in ToSet(t.bus) : x \in Commands
      /\ \A x \in ToSet(s.bus) : x \in Commands
  BY DEF Typed, ToSet
<1>3. \A x \in Commands : x.kind \in {"Info", "Inputs"} =>
         x.who \notin Requests \cup {"connect"} /\ x.kind \notin SpeedCmds
  BY CommandKinds, MtbDaemonAssumption DEF Callers, SpeedCmds
<1>4. Closed(t)
  BY <1>1 DEF Sound, Closed
<1>5. Connecting(t)
  <2>1. \A x \in ToSet(t.bus) : x \in ToSet(s.bus)
           \/ (x.who # "connect" /\ x.kind # "UsbInfo" /\ x.kind \notin SpeedCmds)
    BY <1>2, <1>3
  <2>. QED  BY <1>1, <2>1, ConnectingKept DEF Sound
<1>6. Answering(t)
  <2>1. \A r \in Requests : (\E x \in ToSet(t.bus) : x.who = r)
                               <=> (\E x \in ToSet(s.bus) : x.who = r)
    BY <1>2, <1>3
  <2>. QED  BY <1>1, <2>1, AnsweringKept DEF Sound
<1>7. Telling(t)
  <2>1. MtbUsbJson(t) = MtbUsbJson(s)
    BY <1>1, JsonKept
  <2>. QED  BY <1>1, <2>1, TellingKept DEF Sound
<1>. QED  BY <1>4, <1>5, <1>6, <1>7

\* A module answered with its information.
LEMMA ModuleInfoEffect ==
    ASSUME IInv, NEW i \in DOMAIN d.bus, ModuleInfo(i),
           NEW R, ForUsb(R), OrderedBy(Without(i).bus, R)
    PROVE  /\ d.bus[i].to \in Addr /\ usb.present[d.bus[i].to] \in Types
           /\ GotInfo(Without(i), d', d.bus[i].to, usb.present[d.bus[i].to], R)
<1> DEFINE c0 == d.bus[i]
           w == Without(i)
           a == c0.to
           type == usb.present[a]
<1>1. /\ d.alive /\ Shaped(d) /\ Typed(d) /\ UsbTyped(usb) /\ Sound(d)
      /\ c0.kind = "Info" /\ type # None
  BY DEF ModuleInfo, Hears, IInv, TypeOK
<1>2. Ended(c0, w)
  BY <1>1, Taken
<1>3. a \in Addr
  BY <1>1, <1>2, CommandKinds DEF Ended
<1>4. type \in Types
  BY <1>1, <1>3 DEF UsbTyped
<1>5. PICK bootloader \in BOOLEAN : d' = ModuleGotInfo(w, a, type, bootloader)
  <2>1. \E b \in (IF "bootloader" \in Events THEN BOOLEAN ELSE {FALSE}) :
           d' = ModuleGotInfo(w, a, type, b)
    BY Zenon DEF ModuleInfo
  <2>2. (IF "bootloader" \in Events THEN BOOLEAN ELSE {FALSE}) \subseteq BOOLEAN
    OBVIOUS
  <2>. QED  BY <2>1, <2>2, Zenon
<1> DEFINE t == ModuleGotInfo(w, a, type, bootloader)
<1>6. OrderedBy(w.bus, R)
  OBVIOUS
<1> HIDE DEF c0, w, type
<1>7. w.modules = d.modules
  BY <1>2 DEF Ended, Same, Fields
<1>8. Activating(w)
  BY <1>1, <1>2, <1>7 DEF Sound, Activating, IsActivating, Own, Ended
<1>9. GotInfo(w, t, a, type, R)
  BY <1>2, <1>3, <1>4, <1>6, <1>8, ModuleGotInfoEffect DEF Ended
<1> HIDE DEF t, a
<1>. QED  BY <1>3, <1>4, <1>5, <1>9 DEF t, a, c0, w, type

LEMMA ModuleInfoStep ==
    ASSUME IInv, NEW i \in DOMAIN d.bus, ModuleInfo(i)
    PROVE  IInv' /\ Steady(d')
<1> DEFINE c0 == d.bus[i]
           w == Without(i)
           a == c0.to
           type == usb.present[a]
<1>1. /\ d.alive /\ Shaped(d) /\ Typed(d) /\ UsbTyped(usb) /\ Sound(d)
      /\ c0.kind = "Info" /\ usb' = usb
  BY DEF ModuleInfo, IInv, TypeOK
<1>2. Ended(c0, w)
  BY <1>1, Taken
<1>3. PICK t : t = d'
  OBVIOUS
<1>4. OrderedBy(w.bus, Unique)
  BY <1>2 DEF Ended
<1>8. a \in Addr /\ GotInfo(w, t, a, type, Unique)
  BY <1>3, <1>4, ModuleInfoEffect, UniqueForUsb
<1>5. OrderedBy(d.bus, Follows) => OrderedBy(t.bus, Follows)
  <2>1. ASSUME OrderedBy(w.bus, Follows)  PROVE OrderedBy(t.bus, Follows)
    BY <1>3, <2>1, ModuleInfoEffect, FollowsForUsb DEF GotInfo
  <2>. QED  BY <1>2, <2>1 DEF Ended
<1> HIDE DEF c0, w, type
<1>6. w.modules = d.modules /\ w.retries = d.retries /\ w.gaveUp = d.gaveUp
  BY <1>2 DEF Ended, Same, Fields
<1> HIDE DEF a
<1>9. Shaped(t) /\ Typed(t) /\ OrderedBy(t.bus, Unique)
  BY <1>8 DEF GotInfo
<1>10. /\ Same(d, t, {"modules", "bus"})
       /\ Same(d, t, {"modules", "bus", "retries", "gaveUp"})
  BY <1>2, <1>8 DEF GotInfo, Ended, Same
<1>11. /\ \A x \in ToSet(t.bus) : x \in ToSet(d.bus) \/ (x.kind = "Inputs" /\ x.to = a)
       /\ \A x \in ToSet(d.bus) : \/ x \in ToSet(t.bus)
                                  \/ x.kind \in {"Info", "Inputs"} /\ x.to = a
  BY <1>1, <1>2, <1>8 DEF GotInfo, Ended, a
<1>12. Closed(t) /\ Connecting(t) /\ Answering(t) /\ Telling(t)
  <2>1. /\ \A x \in ToSet(t.bus) : x \in ToSet(d.bus) \/ x.kind \in {"Info", "Inputs"}
        /\ \A x \in ToSet(d.bus) : x \in ToSet(t.bus) \/ x.kind \in {"Info", "Inputs"}
        /\ d.open
    BY <1>2, <1>11 DEF Ended
  <2>. QED  BY <1>1, <1>9, <1>10, <2>1, OthersKept
<1>13. /\ t.activeModules = d.activeModules /\ t.retries = d.retries
       /\ t.gaveUp = d.gaveUp
       /\ \A b \in Addr \ {a} : t.modules[b] = d.modules[b]
       /\ t.modules[a] # Null
       /\ Own(t, a).activationsRemaining > 0
  BY <1>6, <1>8, <1>10, MtbDaemonAssumption DEF GotInfo, Same, Fields
<1>14. Pointing(t)
  <2> SUFFICES ASSUME NEW x \in ToSet(t.bus), x.who = "object"
               PROVE  t.modules[x.to] # Null
    BY DEF Pointing
  <2>1. x.to \in Addr
    BY <1>9, CommandKinds DEF Typed, ToSet
  <2>. QED  BY <1>1, <1>11, <1>13, <2>1 DEF Sound, Pointing
<1>15. Activating(t)
  <2> SUFFICES ASSUME NEW b \in Addr, IsActivating(t, b)
               PROVE  /\ t.modules[b].class = "MtbRc"
                      /\ Own(t, b).activationsRemaining > 0
                      /\ \E x \in ToSet(t.bus) : x.kind = "Inputs" /\ x.to = b
    BY DEF Activating
  <2>1. CASE b = a
    BY <1>8, <1>13, <2>1 DEF GotInfo, IsActivating
  <2>2. CASE b # a
    BY <1>1, <1>11, <1>13, <2>2 DEF Sound, Activating, IsActivating, Own
  <2>. QED  BY <2>1, <2>2
<1>16. Listing(t)
  <2> SUFFICES ASSUME NEW b \in t.activeModules \ t.gaveUp
               PROVE  LookedAfter(t, b)
    BY DEF Listing
  <2>1. CASE b = a
    BY <1>13, <2>1 DEF LookedAfter
  <2>2. CASE b # a
    <3>1. b \in Addr /\ LookedAfter(d, b)
      BY <1>1, <1>13 DEF Sound, Listing, Typed
    <3>. QED  BY <1>11, <1>13, <2>2, <3>1 DEF LookedAfter, IsActive, Own
  <2>. QED  BY <2>1, <2>2
<1>17. Sound(t)
  BY <1>12, <1>14, <1>15, <1>16 DEF Sound
<1>18. Steady(t)
  <2>1. t.speed = d.speed /\ t.known = d.known /\ t.speedFailed = d.speedFailed
    BY <1>10 DEF Same, Fields
  <2>. QED  BY <1>5, <1>11, <2>1 DEF Steady, SpeedCmds
<1>. QED  BY <1>1, <1>3, <1>9, <1>17, <1>18, StepKeeps

\* A module answered with its inputs, which ends its activation.
LEMMA InputsReadStep ==
    ASSUME IInv, NEW i \in DOMAIN d.bus, InputsRead(i)
    PROVE  /\ IInv' /\ Steady(d')
           /\ d.bus[i].who = "object" =>
                 /\ \A c \in ToSet(d'.bus) : c \in ToSet(d.bus)
                 /\ \A b \in Addr \ {d.bus[i].to} : d'.modules[b] = d.modules[b]
                 /\ d'.modules[d.bus[i].to] # Null
                 /\ d'.modules[d.bus[i].to].type = d.modules[d.bus[i].to].type
<1> DEFINE c0 == d.bus[i]
           w == Without(i)
           a == c0.to
<1>1. /\ d.alive /\ Shaped(d) /\ Typed(d) /\ UsbTyped(usb) /\ Sound(d)
      /\ c0.kind = "Inputs" /\ usb' = usb
      /\ d' = IF c0.who = "deleted" THEN [d EXCEPT !.alive = FALSE]
              ELSE [w EXCEPT !.modules[a].own = Mod!FullyActivated(@)]
  BY DEF InputsRead, IInv, TypeOK
<1>2. Ended(c0, w)
  BY <1>1, Taken
<1>3. a \in Addr /\ c0.who \in {"object", "deleted"} /\ c0 \in ToSet(d.bus)
  BY <1>1, <1>2, CommandKinds DEF Ended
<1> HIDE DEF c0, w
<1>4. CASE c0.who = "deleted"
  <2> DEFINE t == [d EXCEPT !.alive = FALSE]
  <2>1. Shaped(t) /\ Same(d, t, {"alive"}) /\ ~t.alive
    BY <1>1 DEF Shaped, Same, Fields
  <2>2. Typed(t)
    BY <1>1, <2>1 DEF Typed, Same, Fields
  <2>3. Steady(t)
    <3>1. /\ t.bus = d.bus /\ t.speed = d.speed /\ t.known = d.known
          /\ t.speedFailed = d.speedFailed
      BY <2>1 DEF Same, Fields
    <3>. QED  BY <3>1, SteadySame
  <2>. QED  BY <1>1, <1>4, <2>1, <2>2, <2>3, StepKeeps DEF c0
<1>5. CASE c0.who = "object"
  <2>1. w.modules = d.modules /\ d.modules[a] # Null
    BY <1>1, <1>2, <1>3, <1>5 DEF Ended, Same, Fields, Sound, Pointing
  <2>2. d.modules \in [Addr -> Objects \cup {Null}] /\ d.modules[a].own \in Owns
    BY <1>1, <1>3, <2>1 DEF Typed, Objects
  <2> DEFINE o == Mod!FullyActivated(d.modules[a].own)
             n == [d.modules EXCEPT ![a].own = o]
             t == [w EXCEPT !.modules[a].own = Mod!FullyActivated(@)]
  <2>3. o \in Owns
    BY <2>2, OwnTypes
  <2>4. o.active /\ ~o.activating
    BY <2>2, OwnFacts
  <2>5. t = [w EXCEPT !.modules = n]
    BY <2>1
  <2> HIDE DEF o
  <2>6. /\ n \in [Addr -> Objects \cup {Null}]
        /\ n[a] # Null /\ n[a].own = o /\ n[a].type = d.modules[a].type
        /\ \A b \in Addr \ {a} : n[b] = d.modules[b]
    BY <1>3, <2>1, <2>2, <2>3, OwnChange
  <2> HIDE DEF n, t, a
  <2>7. /\ Shaped(t) /\ Same(w, t, {"modules"}) /\ t.modules = n /\ t.bus = w.bus
    BY <1>2, <2>5 DEF Shaped, Same, Fields, Ended
  <2>8. Typed(t)
    BY <1>2, <2>6, <2>7 DEF Typed, Same, Fields, Ended
  <2>9. /\ Same(d, t, {"modules", "bus"})
        /\ Same(d, t, {"modules", "bus", "retries", "gaveUp"})
    BY <1>2, <2>7 DEF Ended, Same
  <2>10. /\ OrderedBy(t.bus, Unique)
         /\ \A x \in ToSet(t.bus) : x \in ToSet(d.bus)
         /\ \A x \in ToSet(d.bus) : x \in ToSet(t.bus) \/ (x.kind = "Inputs" /\ x.to = a)
    BY <1>1, <1>2, <2>7 DEF Ended, a
  <2>11. Closed(t) /\ Connecting(t) /\ Answering(t) /\ Telling(t)
    <3>1. /\ \A x \in ToSet(t.bus) : x \in ToSet(d.bus) \/ x.kind \in {"Info", "Inputs"}
          /\ \A x \in ToSet(d.bus) : x \in ToSet(t.bus) \/ x.kind \in {"Info", "Inputs"}
          /\ d.open
      BY <1>2, <2>10 DEF Ended
    <3>. QED  BY <1>1, <2>8, <2>9, <2>10, <3>1, OthersKept
  <2>12. /\ t.activeModules = d.activeModules /\ t.retries = d.retries
         /\ t.gaveUp = d.gaveUp
    BY <2>9 DEF Same, Fields
  <2>13. Pointing(t)
    <3> SUFFICES ASSUME NEW x \in ToSet(t.bus), x.who = "object"
                 PROVE  t.modules[x.to] # Null
      BY DEF Pointing
    <3>1. x.to \in Addr
      BY <2>8, CommandKinds DEF Typed, ToSet
    <3>. QED  BY <1>1, <2>6, <2>7, <2>10, <3>1 DEF Sound, Pointing
  <2>14. Activating(t)
    BY <1>1, <2>4, <2>6, <2>7, <2>10 DEF Sound, Activating, IsActivating, Own
  <2>15. Listing(t)
    <3> SUFFICES ASSUME NEW b \in t.activeModules \ t.gaveUp
                 PROVE  LookedAfter(t, b)
      BY DEF Listing
    <3>1. CASE b = a
      BY <2>4, <2>6, <2>7, <3>1 DEF LookedAfter, IsActive, Own
    <3>2. CASE b # a
      <4>1. b \in Addr /\ LookedAfter(d, b)
        BY <1>1, <2>12 DEF Sound, Listing, Typed
      <4>. QED  BY <2>6, <2>7, <2>10, <2>12, <3>2, <4>1 DEF LookedAfter, IsActive, Own
    <3>. QED  BY <3>1, <3>2
  <2>16. Sound(t)
    BY <2>11, <2>13, <2>14, <2>15 DEF Sound
  <2>17. d' = t /\ UsbTyped(usb')
    BY <1>1, <1>5 DEF t, a
  <2>18. Steady(t)
    <3>1. t.speed = d.speed /\ t.known = d.known /\ t.speedFailed = d.speedFailed
      BY <2>9 DEF Same, Fields
    <3>. QED  BY <1>1, <1>2, <2>7, <3>1, SteadyEnded DEF SpeedCmds
  <2>. QED  BY <2>6, <2>7, <2>8, <2>10, <2>16, <2>17, <2>18, StepKeeps DEF a, c0
<1>. QED  BY <1>3, <1>4, <1>5

\* What the port leaves of the objects when it closes.
LEMMA DisconnectedKeeps ==
    ASSUME NEW s, NEW t, Disconnected(s, t), s.modules = d.modules,
           \A x \in ToSet(t.bus) : x \in ToSet(d.bus)
    PROVE  Keeps(t)
<1>1. ASSUME t.alive, NEW a \in Addr  PROVE Kept(t, a)
  BY <1>1 DEF Disconnected, Kept, InUse, Own
<1>. QED  BY <1>1 DEF Keeps

\* A command whose error closes the port failed.
LEMMA FatalStep ==
    ASSUME IInv, NEW i \in DOMAIN d.bus, CmdFails(i), Fatal(d.bus[i])
    PROVE  IInv' /\ Keeps(d') /\ Broken(d')
<1> DEFINE c0 == d.bus[i]
           w == Without(i)
           s == [w EXCEPT !.speedFailed = @ \/ c0.kind \in SpeedCmds]
           t == Disconnect(s)
<1>1. /\ d.alive /\ Shaped(d) /\ Typed(d) /\ UsbTyped(usb) /\ Sound(d)
      /\ c0 \in Commands /\ usb' \in {usb, CarriedOut(c0)}
      /\ c0.who = "connect" /\ d' = t
  BY DEF CmdFails, Fatal, IInv, TypeOK, Typed
<1>2. Ended(c0, w)
  BY <1>1, Taken
<1>3. c0.to = 0 /\ c0.kind \notin {"Info", "Inputs"} /\ "connect" \notin Requests
  BY <1>1, CommandKinds, MtbDaemonAssumption DEF Callers
<1>4. UsbTyped(usb')
  BY <1>1, CarriedOutTyped
<1> DEFINE b == w.speedFailed \/ c0.kind \in SpeedCmds
<1>5. s = [w EXCEPT !.speedFailed = b] /\ b \in BOOLEAN
  BY <1>2 DEF Ended, Typed
<1> HIDE DEF c0, w, b
<1>6. Shaped(s) /\ Same(w, s, {"speedFailed"}) /\ s.speedFailed = b
  BY <1>2, <1>5 DEF Ended, Shaped, Same, Fields
<1>7. Typed(s)
  BY <1>2, <1>5, <1>6 DEF Ended, Typed, Same, Fields
<1> HIDE DEF s
<1>8. /\ s.bus = w.bus /\ s.modules = d.modules /\ s.asked = d.asked
      /\ s.replies = d.replies /\ s.told = d.told
      /\ s.topoSubscribes = d.topoSubscribes
  BY <1>2, <1>6 DEF Ended, Same, Fields
<1>9. OrderedBy(s.bus, Unique) /\ Pointing(s)
  BY <1>1, <1>2, <1>8 DEF Ended, Sound, Pointing
<1>10. Activating(s)
  BY <1>1, <1>2, <1>3, <1>8 DEF Ended, Sound, Activating, IsActivating, Own
<1>11. Answering(s)
  <2>1. \A r \in Requests : (\E x \in ToSet(s.bus) : x.who = r)
                               <=> (\E x \in ToSet(d.bus) : x.who = r)
    BY <1>1, <1>2, <1>3, <1>8 DEF Ended, c0
  <2>. QED  BY <1>1, <1>8, <2>1, AnsweringKept DEF Sound
<1>12. \A c \in Clients \ s.topoSubscribes : s.told[c] = Null
  BY <1>1, <1>8 DEF Sound, Telling
<1>13. Shaped(t) /\ Typed(t) /\ (t.alive => Sound(t))
  BY <1>6, <1>7, <1>9, <1>10, <1>11, <1>12, DisconnectSound
<1>14. Disconnected(s, t)
  BY <1>6, <1>7, <1>9, DisconnectEffect
<1> HIDE DEF t
<1>15. Keeps(t)
  <2>1. \A x \in ToSet(t.bus) : x \in ToSet(d.bus)
    BY <1>2, <1>8, <1>14 DEF Ended, Disconnected
  <2>. QED  BY <1>8, <1>14, <2>1, DisconnectedKeeps
<1>16. Broken(t)
  <2>1. \A x \in ToSet(d.bus) : x \in ToSet(s.bus) \/ x = c0
    BY <1>2, <1>8 DEF Ended
  <2>2. b <=> d.speedFailed \/ c0.kind \in SpeedCmds
    BY <1>2 DEF Ended, Same, Fields, b
  <2>3. t.alive =>
           /\ ToSet(t.bus) = {} /\ t.known = {}
           /\ \A c \in ToSet(s.bus) : c.who \notin {"deleted", "connect"}
           /\ s.speedFailed => t.speedFailed
           /\ (\E c \in ToSet(s.bus) : c.who \in Requests) => t.speedFailed
    BY <1>14 DEF Disconnected, ToSet
  <2>4. ASSUME NEW x \in ToSet(d.bus), x.kind \in SpeedCmds, x.who # "nobody"
        PROVE  x \in Commands /\ x.who \in Requests \cup {"connect"}
    BY <1>1, <2>4, CommandKinds DEF Typed, ToSet, SpeedCmds
  <2>. QED  BY <1>6, <2>1, <2>2, <2>3, <2>4 DEF Broken
<1>. QED  BY <1>1, <1>4, <1>13, <1>15, <1>16, StepKeeps

\* Another one failed.
LEMMA CallErrorStep ==
    ASSUME IInv, NEW i \in DOMAIN d.bus, CmdFails(i), ~Fatal(d.bus[i])
    PROVE  /\ IInv' /\ Keeps(d')
           /\ d.bus[i].kind \notin SpeedCmds => Steady(d')
           /\ d.bus[i].kind \in SpeedCmds =>
                 \/ d'.speedFailed
                 \/ d.bus[i].who = "nobody" /\ d' = Without(i)
<1> DEFINE c0 == d.bus[i]
           w == Without(i)
           t == CallError(w, c0)
           a == c0.to
<1>1. /\ d.alive /\ Shaped(d) /\ Typed(d) /\ UsbTyped(usb) /\ Sound(d)
      /\ c0 \in Commands /\ usb' \in {usb, CarriedOut(c0)}
      /\ ~Fatal(c0) /\ d' = t
  BY DEF CmdFails, IInv, TypeOK, Typed
<1>2. Ended(c0, w)
  BY <1>1, Taken
<1>3. UsbTyped(usb')
  BY <1>1, CarriedOutTyped
<1>4. /\ w.modules = d.modules /\ w.retries = d.retries /\ w.gaveUp = d.gaveUp
      /\ w.asked = d.asked /\ w.replies = d.replies
  BY <1>2 DEF Ended, Same, Fields
<1>5. c0.who = "object" => w.modules[c0.to] # Null
  BY <1>1, <1>2, <1>4 DEF Ended, Sound, Pointing
<1>6. /\ Shaped(t) /\ Typed(t)
      /\ Same(w, t, {"alive", "retries", "gaveUp", "modules", "replies", "speedFailed"})
      /\ c0.who = "deleted" => ~t.alive /\ Same(w, t, {"alive"})
      /\ c0.kind = "Info" =>
            /\ Same(w, t, {"retries", "gaveUp"})
            /\ \/ /\ c0.arg > 0
                  /\ t.retries = [w.retries EXCEPT ![c0.to][c0.arg] = @ + 1]
                  /\ t.gaveUp = w.gaveUp
               \/ /\ t.retries = w.retries
                  /\ t.gaveUp = w.gaveUp \cup {c0.to}
      /\ c0.who = "object" =>
            /\ Same(w, t, {"modules", "gaveUp"})
            /\ t.modules = [w.modules EXCEPT ![c0.to].own = Mod!ActivationError(@)]
            /\ t.gaveUp = IF Own(w, c0.to).activationsRemaining = 1
                          THEN w.gaveUp \cup {c0.to} ELSE w.gaveUp
      /\ c0.who \in Requests =>
            /\ Same(w, t, {"replies", "speedFailed"})
            /\ t.replies = [w.replies EXCEPT ![c0.who] = Append(@, "error")]
            /\ t.speedFailed
      /\ c0.who = "nobody" => t = w
  BY <1>1, <1>2, <1>5, CallErrorEffect DEF Ended
<1> HIDE DEF w, t
<1> HIDE DEF c0
<1>7. t.bus = w.bus /\ OrderedBy(t.bus, Unique)
  BY <1>2, <1>6 DEF Ended, Same, Fields
<1>8. /\ \A x \in ToSet(t.bus) : x \in ToSet(d.bus)
      /\ \A x \in ToSet(d.bus) : x \in ToSet(t.bus) \/ x = c0
  BY <1>2, <1>7 DEF Ended
<1>15. ASSUME c0.kind \notin SpeedCmds, t.speedFailed = d.speedFailed
       PROVE  Steady(t)
  <2>1. t.speed = d.speed /\ t.known = d.known
    BY <1>2, <1>6 DEF Ended, Same, Fields
  <2>. QED  BY <1>2, <1>7, <1>15, <2>1, SteadyEnded
<1>16. ASSUME t.modules = d.modules  PROVE Keeps(t)
  BY <1>8, <1>16, KeepsSame
<1>9. CASE c0.who = "deleted"
  <2>1. /\ t.modules = d.modules /\ t.speedFailed = d.speedFailed
        /\ c0.kind \notin SpeedCmds
    BY <1>1, <1>2, <1>6, <1>9, CommandKinds DEF Ended, Same, Fields, SpeedCmds
  <2>. QED  BY <1>1, <1>3, <1>6, <1>9, <1>15, <1>16, <2>1, StepKeeps DEF c0
<1>10. CASE c0.kind = "Info"
  <2>1. a \in Addr /\ c0.arg \in 0 .. ATTEMPTS
    BY <1>1, <1>10, CommandKinds
  <2>2. /\ Same(d, t, {"bus", "retries", "gaveUp"})
        /\ Same(d, t, {"modules", "bus", "retries", "gaveUp"})
    BY <1>2, <1>6, <1>10 DEF Ended, Same
  <2>3. t.modules = d.modules /\ t.activeModules = d.activeModules
    BY <2>2 DEF Same, Fields
  <2>4. Closed(t) /\ Connecting(t) /\ Answering(t) /\ Telling(t)
    <3>1. /\ \A x \in ToSet(t.bus) : x \in ToSet(d.bus) \/ x.kind \in {"Info", "Inputs"}
          /\ \A x \in ToSet(d.bus) : x \in ToSet(t.bus) \/ x.kind \in {"Info", "Inputs"}
          /\ d.open
      BY <1>2, <1>8, <1>10 DEF Ended
    <3>. QED  BY <1>1, <1>6, <1>7, <2>2, <3>1, OthersKept
  <2>5. Pointing(t)
    BY <1>1, <1>8, <2>3 DEF Sound, Pointing
  <2>6. Activating(t)
    BY <1>1, <1>8, <1>10, <2>3 DEF Sound, Activating, IsActivating, Own
  <2>7. Listing(t)
    <3> SUFFICES ASSUME NEW b \in t.activeModules \ t.gaveUp
                 PROVE  LookedAfter(t, b)
      BY DEF Listing
    <3>1. b \in Addr /\ LookedAfter(d, b)
      BY <1>1, <1>4, <1>6, <1>10, <2>3 DEF Sound, Listing, Typed
    <3>2. d.retries \in [Addr -> [1 .. ATTEMPTS -> Nat]]
      BY <1>1 DEF Typed
    <3>3. CASE c0.arg > 0 /\ t.retries = [d.retries EXCEPT ![a][c0.arg] = @ + 1]
      <4>1. c0.arg \in 1 .. ATTEMPTS
        BY <2>1, <3>3, MtbDaemonAssumption
      <4>2. t.retries[a][c0.arg] > 0
        <5>1. d.retries[a] \in [1 .. ATTEMPTS -> Nat]
          BY <2>1, <3>2
        <5>2. t.retries[a] = [d.retries[a] EXCEPT ![c0.arg] = @ + 1]
          BY <2>1, <3>2, <3>3
        <5>3. t.retries[a][c0.arg] = d.retries[a][c0.arg] + 1
          BY <4>1, <5>1, <5>2
        <5>4. d.retries[a][c0.arg] \in Nat
          BY <4>1, <5>1
        <5>. QED  BY <5>3, <5>4
      <4>3. b # a => t.retries[b] = d.retries[b]
        BY <2>1, <3>1, <3>2, <3>3
      <4>4. CASE b = a
        BY <4>1, <4>2, <4>4 DEF LookedAfter
      <4>5. CASE b # a
        BY <1>8, <2>3, <3>1, <4>3, <4>5 DEF LookedAfter, IsActive, Own
      <4>. QED  BY <4>4, <4>5
    <3>4. CASE t.retries = d.retries /\ t.gaveUp = d.gaveUp \cup {a}
      <4>1. b # a
        BY <3>4
      <4>. QED  BY <1>8, <2>3, <3>1, <3>4, <4>1 DEF LookedAfter, IsActive, Own
    <3>. QED  BY <1>4, <1>6, <1>10, <3>3, <3>4
  <2>8. Sound(t)
    BY <2>4, <2>5, <2>6, <2>7 DEF Sound
  <2>9. Steady(t) /\ Keeps(t) /\ c0.kind \notin SpeedCmds
    <3>1. t.speedFailed = d.speedFailed /\ c0.kind \notin SpeedCmds
      BY <1>10, <2>2 DEF Same, Fields, SpeedCmds
    <3>. QED  BY <1>15, <1>16, <2>3, <3>1
  <2>. QED  BY <1>1, <1>3, <1>6, <2>8, <2>9, StepKeeps DEF c0
<1>11. CASE c0.who = "object"
  <2>1. a \in Addr /\ c0.kind = "Inputs"
    BY <1>1, <1>11, CommandKinds
  <2>2. /\ Same(d, t, {"bus", "modules", "gaveUp"})
        /\ Same(d, t, {"modules", "bus", "retries", "gaveUp"})
    BY <1>2, <1>6, <1>11 DEF Ended, Same
  <2>3. /\ t.retries = d.retries /\ t.activeModules = d.activeModules
        /\ d.modules[a] # Null
    BY <1>4, <1>5, <1>11, <2>2 DEF Same, Fields
  <2>4. d.modules \in [Addr -> Objects \cup {Null}] /\ d.modules[a].own \in Owns
    BY <1>1, <2>1, <2>3 DEF Typed, Objects
  <2> DEFINE o == Mod!ActivationError(d.modules[a].own)
             k == d.modules[a].own.activationsRemaining
  <2>5. /\ o \in Owns /\ o.active = d.modules[a].own.active /\ ~o.activating
        /\ k \in Nat
        /\ o.activationsRemaining = IF k > 0 THEN k - 1 ELSE 0
    BY <2>4, OwnTypes, OwnFacts
  <2>6. t.modules = [d.modules EXCEPT ![a].own = o]
    BY <1>4, <1>6, <1>11
  <2> HIDE DEF o
  <2>7. /\ t.modules[a] # Null /\ t.modules[a].class = d.modules[a].class
        /\ t.modules[a].own = o /\ t.modules[a].type = d.modules[a].type
        /\ \A b \in Addr \ {a} : t.modules[b] = d.modules[b]
    BY <2>1, <2>3, <2>4, <2>5, <2>6, OwnChange
  <2>8. t.gaveUp = IF k = 1 THEN d.gaveUp \cup {a} ELSE d.gaveUp
    BY <1>4, <1>6, <1>11 DEF Own
  <2>9. Closed(t) /\ Connecting(t) /\ Answering(t) /\ Telling(t)
    <3>1. /\ \A x \in ToSet(t.bus) : x \in ToSet(d.bus) \/ x.kind \in {"Info", "Inputs"}
          /\ \A x \in ToSet(d.bus) : x \in ToSet(t.bus) \/ x.kind \in {"Info", "Inputs"}
          /\ d.open
      BY <1>2, <1>8, <2>1 DEF Ended
    <3>. QED  BY <1>1, <1>6, <1>7, <2>2, <3>1, OthersKept
  <2>10. Pointing(t)
    <3> SUFFICES ASSUME NEW x \in ToSet(t.bus), x.who = "object"
                 PROVE  t.modules[x.to] # Null
      BY DEF Pointing
    <3>1. x.to \in Addr
      BY <1>6, CommandKinds DEF Typed, ToSet
    <3>. QED  BY <1>1, <1>8, <2>7, <3>1 DEF Sound, Pointing
  <2>11. Activating(t)
    <3> SUFFICES ASSUME NEW b \in Addr, IsActivating(t, b)
                 PROVE  /\ t.modules[b].class = "MtbRc"
                        /\ Own(t, b).activationsRemaining > 0
                        /\ \E x \in ToSet(t.bus) : x.kind = "Inputs" /\ x.to = b
      BY DEF Activating
    <3>1. b # a
      BY <2>5, <2>7 DEF IsActivating, Own
    <3>. QED  BY <1>1, <1>8, <2>7, <3>1 DEF Sound, Activating, IsActivating, Own
  <2>12. Listing(t)
    <3> SUFFICES ASSUME NEW b \in t.activeModules \ t.gaveUp
                 PROVE  LookedAfter(t, b)
      BY DEF Listing
    <3>1. b \in Addr /\ LookedAfter(d, b)
      <4>1. b \in d.activeModules \ d.gaveUp
        BY <2>3, <2>8
      <4>. QED  BY <1>1, <4>1 DEF Sound, Listing, Typed
    <3>2. CASE b = a
      <4>1. k # 1
        BY <2>8, <3>2
      <4>2. k > 0 => o.activationsRemaining > 0
        BY <2>5, <4>1
      <4>3. CASE \E x \in ToSet(d.bus) : x.kind = "Info" /\ x.to = b
        BY <1>8, <2>1, <4>3 DEF LookedAfter
      <4>4. CASE \E n \in 1 .. ATTEMPTS : d.retries[b][n] > 0
        BY <2>3, <4>4 DEF LookedAfter
      <4>5. CASE IsActive(d, b)
        BY <2>5, <2>7, <3>2, <4>5 DEF LookedAfter, IsActive, Own
      <4>6. CASE d.modules[b].class = "MtbRc" => Own(d, b).activationsRemaining > 0
        BY <2>7, <3>2, <4>2, <4>6 DEF LookedAfter, Own
      <4>. QED  BY <3>1, <4>3, <4>4, <4>5, <4>6 DEF LookedAfter
    <3>3. CASE b # a
      BY <1>8, <2>1, <2>3, <2>7, <3>1, <3>3 DEF LookedAfter, IsActive, Own
    <3>. QED  BY <3>2, <3>3
  <2>13. Sound(t)
    BY <2>9, <2>10, <2>11, <2>12 DEF Sound
  <2>14. Steady(t) /\ c0.kind \notin SpeedCmds
    <3>1. t.speedFailed = d.speedFailed /\ c0.kind \notin SpeedCmds
      BY <2>1, <2>2 DEF Same, Fields, SpeedCmds
    <3>. QED  BY <1>15, <3>1
  <2>15. Keeps(t)
    <3>1. Kept(t, a)
      BY <2>3, <2>5, <2>7 DEF Kept, InUse
    <3>2. \A b \in Addr \ {a} : Kept(t, b)
      BY <2>7 DEF Kept
    <3>. QED  BY <1>8, <3>1, <3>2 DEF Keeps
  <2>. QED  BY <1>1, <1>3, <1>6, <2>13, <2>14, <2>15, StepKeeps DEF c0
<1>12. CASE c0.who \in Requests
  <2>1. a = 0 /\ c0 \in ToSet(d.bus)
    BY <1>1, <1>2, <1>12, CommandKinds DEF Ended, SpeedCmds
  <2>2. Same(d, t, {"bus", "replies", "speed", "speedFailed"})
    BY <1>2, <1>6, <1>12 DEF Ended, Same
  <2>3. /\ Len(t.replies[c0.who]) = Len(d.replies[c0.who]) + 1
        /\ \A r \in Requests \ {c0.who} : t.replies[r] = d.replies[r]
        /\ t.asked = d.asked
    <3>1. d.replies \in [Requests -> Seq({"ok", "error"})]
      BY <1>1 DEF Typed
    <3>2. d.replies[c0.who] \in Seq({"ok", "error"})
      BY <1>12, <3>1
    <3>3. t.replies = [d.replies EXCEPT ![c0.who] = Append(d.replies[c0.who], "error")]
      BY <1>4, <1>6, <1>12
    <3>4. t.replies[c0.who] = Append(d.replies[c0.who], "error")
      BY <1>12, <3>1, <3>3
    <3>5. Len(t.replies[c0.who]) = Len(d.replies[c0.who]) + 1
      BY <3>2, <3>4
    <3>. QED  BY <3>1, <3>3, <3>5, <2>2 DEF Same, Fields
  <2>4. \A x \in ToSet(t.bus) : x \in ToSet(d.bus) /\ x.who # c0.who
    BY <1>2, <1>7, <1>12 DEF Ended
  <2>5. Answering(t)
    BY <1>1, <1>8, <1>12, <2>1, <2>3, <2>4, AnsweredBy DEF Sound
  <2>6. Sound(t)
    BY <1>1, <1>2, <1>6, <1>7, <2>1, <2>2, <2>5, UsbCommandsSound
  <2>7. Keeps(t) /\ t.speedFailed /\ c0.kind \in SpeedCmds
    <3>1. t.modules = d.modules
      BY <2>2 DEF Same, Fields
    <3>. QED  BY <1>1, <1>6, <1>12, <1>16, <3>1, CommandKinds
  <2>. QED  BY <1>1, <1>3, <1>6, <2>6, <2>7, StepKeeps DEF c0
<1>13. CASE c0.who = "nobody"
  <2>1. a = 0 /\ "nobody" \notin Requests
    BY <1>1, <1>13, CommandKinds, MtbDaemonAssumption DEF SpeedCmds, Callers
  <2>2. t = w /\ Same(d, t, {"bus", "replies", "speed", "speedFailed"})
    BY <1>2, <1>6, <1>13 DEF Ended, Same
  <2>3. Answering(t)
    <3>1. \A r \in Requests : (\E x \in ToSet(t.bus) : x.who = r)
                                 <=> (\E x \in ToSet(d.bus) : x.who = r)
      BY <1>8, <1>13, <2>1
    <3>. QED  BY <1>1, <1>4, <2>2, <3>1, AnsweringKept DEF Sound
  <2>4. Sound(t)
    BY <1>1, <1>2, <1>6, <1>7, <2>1, <2>2, <2>3, UsbCommandsSound
  <2>5. Keeps(t) /\ c0.kind \in SpeedCmds
    <3>1. t.modules = d.modules
      BY <2>2 DEF Same, Fields
    <3>2. c0.kind \in SpeedCmds
      BY <1>1, <1>13, CommandKinds DEF SpeedCmds
    <3>. QED  BY <1>16, <3>1, <3>2
  <2>. QED  BY <1>1, <1>3, <1>6, <1>13, <2>2, <2>4, <2>5, StepKeeps DEF c0, w
<1>14. \/ c0.who \in {"deleted", "object", "nobody"} \cup Requests
       \/ c0.kind = "Info"
  BY <1>1, CommandKinds DEF Fatal, SpeedCmds
<1>. QED  BY <1>9, <1>10, <1>11, <1>12, <1>13, <1>14

LEMMA CmdFailsStep ==
    ASSUME IInv, NEW i \in DOMAIN d.bus, CmdFails(i)
    PROVE  IInv' /\ Keeps(d')
BY FatalStep, CallErrorStep

-----------------------------------------------------------------------------
(* Steps: timers *)

\* The port is opened.
LEMMA TReconnectTickStep ==
    ASSUME IInv, TReconnectTick
    PROVE  IInv' /\ Keeps(d') /\ Steady(d')
<1> DEFINE s == [d EXCEPT !.tReconnect = FALSE]
           u == [s EXCEPT !.open = TRUE]
           c == Cmd("UsbInfo", 0, 0, "connect")
           t == Send(u, c)
<1>1. /\ d.alive /\ Shaped(d) /\ Typed(d) /\ UsbTyped(usb) /\ Sound(d)
      /\ d.tReconnect /\ usb' = usb
  BY DEF TReconnectTick, IInv, TypeOK
<1>2. ~d.open /\ d.bus = <<>> /\ d.known = {} /\ d.activeModules = {}
  BY <1>1 DEF Sound, Closed
<1>3. d' = t
  BY <1>2 DEF TReconnectTick, MtbUsbConnect
<1>4. /\ Shaped(u) /\ Same(d, u, {"tReconnect", "open"})
      /\ u.tReconnect = FALSE /\ u.open = TRUE
  BY <1>1 DEF Shaped, Same, Fields
<1>5. Typed(u)
  BY <1>1, <1>4 DEF Typed, Same, Fields
<1> HIDE DEF u
<1>6. c \in Commands /\ c.kind = "UsbInfo" /\ c.who = "connect"
  BY CommandTypes DEF Cmd
<1> HIDE DEF c
<1>7. u.bus = <<>> /\ ToSet(u.bus) = {} /\ OrderedBy(u.bus, Unique)
  BY <1>2, <1>4 DEF Same, Fields, ToSet, OrderedBy
<1>8. /\ Shaped(t) /\ Typed(t) /\ Same(u, t, {"bus"})
      /\ OrderedBy(t.bus, Unique)
      /\ ToSet(t.bus) = {c}
  <2>1. \A x \in ToSet(u.bus) : x.who = c.who => x.who \notin Requests \cup {"connect"}
    BY <1>7
  <2>2. /\ Shaped(t) /\ Typed(t) /\ Same(u, t, {"bus"})
        /\ OrderedBy(t.bus, Unique)
        /\ ToSet(t.bus) = ToSet(u.bus) \cup {c}
    BY <1>4, <1>5, <1>6, <1>7, <2>1, SendEffect
  <2>. QED  BY <1>7, <2>2
<1> HIDE DEF t
<1>9. /\ t.open = TRUE /\ t.tReconnect = FALSE /\ t.known = {}
      /\ t.activeModules = {} /\ t.modules = d.modules
      /\ t.asked = d.asked /\ t.replies = d.replies
      /\ t.told = d.told /\ t.topoSubscribes = d.topoSubscribes
      /\ t.newTimerPending = d.newTimerPending
      /\ t.failTimerPending = d.failTimerPending
  BY <1>2, <1>4, <1>8 DEF Same, Fields
<1>10. ToSet(d.bus) = {} /\ "connect" \notin Requests
  BY <1>2, MtbDaemonAssumption DEF ToSet, Callers
<1>11. Closed(t)
  BY <1>9 DEF Closed
<1>12. Connecting(t)
  BY <1>6, <1>8, <1>9 DEF Connecting, SpeedCmds
<1>13. Answering(t)
  <2>1. \A r \in Requests : (\E x \in ToSet(t.bus) : x.who = r)
                               <=> (\E x \in ToSet(d.bus) : x.who = r)
    BY <1>6, <1>8, <1>10
  <2>. QED  BY <1>1, <1>9, <2>1, AnsweringKept DEF Sound
<1>14. Telling(t)
  <2>1. MtbUsbJson(t) = MtbUsbJson(d)
    BY <1>2, <1>9 DEF MtbUsbJson
  <2>. QED  BY <1>1, <1>9, <2>1, TellingKept DEF Sound
<1>15. Pointing(t) /\ Listing(t)
  BY <1>6, <1>8, <1>9 DEF Pointing, Listing
<1>16. Activating(t)
  BY <1>1, <1>9, <1>10 DEF Sound, Activating, IsActivating, Own
<1>17. Sound(t)
  BY <1>11, <1>12, <1>13, <1>14, <1>15, <1>16 DEF Sound
<1>18. Keeps(t)
  <2>1. \A x \in ToSet(t.bus) : x.kind = "Inputs" => x \in ToSet(d.bus)
    BY <1>6, <1>8
  <2>. QED  BY <1>9, <2>1, KeepsSame
<1>19. Steady(t)
  <2>1. t.speed = d.speed /\ t.speedFailed = d.speedFailed
    BY <1>4, <1>8 DEF Same, Fields
  <2>2. OrderedBy(t.bus, Follows)
    <3>1. \A x, y \in ToSet(t.bus) : <<x, y>> \in Follows
      BY <1>6, <1>8 DEF Follows, SpeedCmds
    <3>. QED  BY <3>1 DEF OrderedBy, ToSet
  <2>. QED  BY <1>2, <1>6, <1>8, <1>9, <1>10, <2>1, <2>2 DEF Steady, SpeedCmds
<1>. QED  BY <1>1, <1>3, <1>8, <1>17, <1>18, <1>19, StepKeeps

\* Modules are activated again.
Reactivated(s, t, again, R) ==
    /\ Shaped(t) /\ Typed(t) /\ Same(s, t, {"modules", "bus"})
    /\ OrderedBy(t.bus, R)
    /\ \A x \in ToSet(s.bus) : x \in ToSet(t.bus)
    /\ \A x \in ToSet(t.bus) : x \in ToSet(s.bus)
          \/ (x.kind = "Inputs" /\ x.who = "object" /\ x.to \in again)
    /\ \A a \in again : \E x \in ToSet(t.bus) : x.kind = "Inputs" /\ x.to = a
    /\ \A a \in Addr :
          /\ t.modules[a] = Null <=> s.modules[a] = Null
          /\ s.modules[a] # Null =>
                /\ t.modules[a].type = s.modules[a].type
                /\ t.modules[a].class = s.modules[a].class
                /\ Own(t, a).active = Own(s, a).active
                /\ Own(t, a).activationsRemaining = Own(s, a).activationsRemaining
                /\ a \notin again => t.modules[a] = s.modules[a]

LEMMA TReactivateTickEffect ==
    ASSUME Shaped(d), Typed(d), TReactivateTick, NEW R, ForUsb(R), OrderedBy(d.bus, R)
    PROVE  Reactivated(d, d', {a \in Addr : Reactivates(d, a)}, R)
<1> DEFINE again == {a \in Addr : Reactivates(d, a)}
           q == SetToSeq(again)
           r == [i \in DOMAIN q |-> Cmd("Inputs", q[i], 0, "object")]
           m == [a \in Addr |-> IF a \in again
                                THEN [d.modules[a] EXCEPT !.own.activating = TRUE]
                                ELSE d.modules[a]]
           b == d.bus \o r
           t == [d EXCEPT !.bus = b, !.modules = m]
<1>1. d' = t
  BY DEF TReactivateTick
<1>2. /\ d.modules \in [Addr -> Objects \cup {Null}] /\ d.bus \in Seq(Commands)
      /\ \A x \in ToSet(d.bus) : x \in Commands
  BY DEF Typed, ToSet
<1>3. again \subseteq Addr /\ IsFiniteSet(again)
  BY MtbDaemonAssumption, FS_Subset
<1>4. \A a \in again : d.modules[a] # Null
  BY DEF Reactivates
<1> HIDE DEF again
<1>5. q \in Seq(again) /\ ToSet(q) = again
  BY <1>3, SetToSeqFacts
<1> HIDE DEF q
<1>6. /\ r \in Seq(Commands) /\ DOMAIN r = DOMAIN q
      /\ \A i \in DOMAIN q : /\ r[i] \in Commands /\ r[i].kind = "Inputs"
                             /\ r[i].who = "object" /\ r[i].to = q[i]
  <2>1. DOMAIN q = 1 .. Len(q) /\ Len(q) \in Nat /\ \A i \in DOMAIN q : q[i] \in Addr
    BY <1>3, <1>5
  <2>2. \A i \in DOMAIN q : /\ r[i] \in Commands /\ r[i].kind = "Inputs"
                            /\ r[i].who = "object" /\ r[i].to = q[i]
    BY <2>1, CommandTypes DEF Cmd
  <2>. QED  BY <2>1, <2>2
<1> HIDE DEF r
<1>7. \A x \in ToSet(r) : /\ x \in Commands /\ x.kind = "Inputs" /\ x.who = "object"
                          /\ x.to \in again
  <2>1. \A i \in DOMAIN q : q[i] \in again
    BY <1>5
  <2>. QED  BY <1>6, <2>1 DEF ToSet
<1>8. \A a \in again : \E x \in ToSet(r) : x.kind = "Inputs" /\ x.to = a
  <2> SUFFICES ASSUME NEW a \in again
               PROVE  \E x \in ToSet(r) : x.kind = "Inputs" /\ x.to = a
    OBVIOUS
  <2>1. PICK i \in DOMAIN q : q[i] = a
    BY <1>5 DEF ToSet
  <2>2. r[i] \in ToSet(r)
    BY <1>6 DEF ToSet
  <2>. QED  BY <1>6, <2>1, <2>2
<1>9. OrderedBy(r, R)
  BY <1>6 DEF OrderedBy, ForUsb
<1>10. \A x \in ToSet(d.bus), y \in ToSet(r) : <<x, y>> \in R
  BY <1>2, <1>7 DEF ForUsb
<1>11. /\ b \in Seq(Commands)
       /\ OrderedBy(b, R)
       /\ ToSet(b) = ToSet(d.bus) \cup ToSet(r)
  BY <1>2, <1>6, <1>9, <1>10, ConcatOrdered
<1> HIDE DEF b
<1>12. ASSUME NEW a \in Addr
       PROVE  /\ m[a] \in Objects \cup {Null}
              /\ m[a] = Null <=> d.modules[a] = Null
              /\ d.modules[a] # Null =>
                    /\ m[a].type = d.modules[a].type
                    /\ m[a].class = d.modules[a].class
                    /\ m[a].own.active = d.modules[a].own.active
                    /\ m[a].own.activationsRemaining
                          = d.modules[a].own.activationsRemaining
                    /\ a \notin again => m[a] = d.modules[a]
  <2>1. CASE a \notin again
    BY <1>2, <2>1
  <2>2. CASE a \in again
    <3> DEFINE o == d.modules[a]
               w == [o.own EXCEPT !.activating = TRUE]
               n == [o EXCEPT !.own = w]
    <3>1. o \in Objects /\ o.own \in Owns
      BY <1>2, <1>4, <2>2 DEF Objects
    <3>2. w \in Owns
      BY <3>1, OwnTypes
    <3>3. /\ w.active = o.own.active
          /\ w.activationsRemaining = o.own.activationsRemaining
      BY <3>1 DEF Owns
    <3> HIDE DEF w
    <3>4. n \in Objects /\ n.type = o.type /\ n.class = o.class /\ n.own = w
      BY <3>1, <3>2 DEF Objects
    <3>5. n # Null
      BY <3>4, MtbDaemonAssumption
    <3>6. m[a] = n
      BY <2>2 DEF w
    <3> HIDE DEF n
    <3>. QED  BY <1>4, <2>2, <3>3, <3>4, <3>5, <3>6
  <2>. QED  BY <2>1, <2>2
<1>13. m \in [Addr -> Objects \cup {Null}]
  BY <1>12
<1> HIDE DEF m
<1>14. /\ Shaped(t) /\ Same(d, t, {"bus", "modules"}) /\ t.bus = b /\ t.modules = m
  BY DEF Shaped, Same, Fields
<1>15. Typed(t)
  BY <1>11, <1>13, <1>14 DEF Typed, Same, Fields
<1> HIDE DEF t
<1>16. /\ \A x \in ToSet(d.bus) : x \in ToSet(t.bus)
       /\ \A x \in ToSet(r) : x \in ToSet(t.bus)
       /\ \A x \in ToSet(t.bus) : x \in ToSet(d.bus) \/ x \in ToSet(r)
  BY <1>11, <1>14
<1>17. Same(d, t, {"modules", "bus"})
  BY <1>14 DEF Same
<1>18. Reactivated(d, t, again, R)
  BY <1>7, <1>8, <1>11, <1>12, <1>14, <1>15, <1>16, <1>17 DEF Reactivated, Own
<1>. QED  BY <1>1, <1>18 DEF again

LEMMA TReactivateTickStep ==
    ASSUME IInv, TReactivateTick
    PROVE  IInv' /\ Steady(d')
<1> DEFINE again == {a \in Addr : Reactivates(d, a)}
<1>1. /\ d.alive /\ Shaped(d) /\ Typed(d) /\ UsbTyped(usb) /\ Sound(d)
      /\ d.open /\ usb' = usb /\ OrderedBy(d.bus, Unique)
  BY DEF TReactivateTick, IInv, TypeOK, Sound, Connecting
<1>2. PICK t : t = d'
  OBVIOUS
<1>3. Reactivated(d, t, again, Unique)
  BY <1>1, <1>2, TReactivateTickEffect, UniqueForUsb
<1>4. \A a \in again : /\ d.modules[a] # Null /\ d.modules[a].class = "MtbRc"
                       /\ Own(d, a).activationsRemaining > 0
  BY DEF Reactivates
<1> HIDE DEF again
<1>5. /\ Shaped(t) /\ Typed(t) /\ OrderedBy(t.bus, Unique)
      /\ Same(d, t, {"modules", "bus", "retries", "gaveUp"})
      /\ t.activeModules = d.activeModules /\ t.retries = d.retries
      /\ t.gaveUp = d.gaveUp
  BY <1>3 DEF Reactivated, Same, Fields
<1>6. Closed(t) /\ Connecting(t) /\ Answering(t) /\ Telling(t)
  <2>1. /\ \A x \in ToSet(t.bus) : x \in ToSet(d.bus) \/ x.kind \in {"Info", "Inputs"}
        /\ \A x \in ToSet(d.bus) : x \in ToSet(t.bus) \/ x.kind \in {"Info", "Inputs"}
    BY <1>3 DEF Reactivated
  <2>. QED  BY <1>1, <1>5, <2>1, OthersKept
<1>7. Pointing(t)
  <2> SUFFICES ASSUME NEW x \in ToSet(t.bus), x.who = "object"
               PROVE  t.modules[x.to] # Null
    BY DEF Pointing
  <2>1. x.to \in Addr
    BY <1>5, CommandKinds DEF Typed, ToSet
  <2>. QED  BY <1>1, <1>3, <1>4, <2>1 DEF Reactivated, Sound, Pointing
<1>8. Activating(t)
  <2> SUFFICES ASSUME NEW a \in Addr, IsActivating(t, a)
               PROVE  /\ t.modules[a].class = "MtbRc"
                      /\ Own(t, a).activationsRemaining > 0
                      /\ \E x \in ToSet(t.bus) : x.kind = "Inputs" /\ x.to = a
    BY DEF Activating
  <2>1. CASE a \in again
    BY <1>3, <1>4, <2>1 DEF Reactivated
  <2>2. CASE a \notin again
    BY <1>1, <1>3, <2>2 DEF Reactivated, Sound, Activating, IsActivating, Own
  <2>. QED  BY <2>1, <2>2
<1>9. Listing(t)
  <2> SUFFICES ASSUME NEW a \in t.activeModules \ t.gaveUp
               PROVE  LookedAfter(t, a)
    BY DEF Listing
  <2>1. a \in Addr /\ LookedAfter(d, a)
    BY <1>1, <1>5 DEF Sound, Listing, Typed
  <2>. QED  BY <1>3, <1>5, <2>1 DEF Reactivated, LookedAfter, IsActive, Own
<1>10. Sound(t)
  BY <1>6, <1>7, <1>8, <1>9 DEF Sound
<1>11. Steady(t)
  <2>1. OrderedBy(d.bus, Follows) => OrderedBy(t.bus, Follows)
    <3>1. ASSUME OrderedBy(d.bus, Follows)  PROVE OrderedBy(t.bus, Follows)
      BY <1>1, <1>2, <3>1, TReactivateTickEffect, FollowsForUsb DEF Reactivated
    <3>. QED  BY <3>1
  <2>2. t.speed = d.speed /\ t.known = d.known /\ t.speedFailed = d.speedFailed
    BY <1>5 DEF Same, Fields
  <2>. QED  BY <1>3, <2>1, <2>2 DEF Reactivated, Steady, SpeedCmds
<1>. QED  BY <1>1, <1>2, <1>5, <1>10, <1>11, StepKeeps

\* The request for the information of a module.
LEMMA ActivateModuleEffect ==
    ASSUME NEW s, Shaped(s), Typed(s), NEW a \in Addr, NEW n \in 0 .. ATTEMPTS,
           NEW R, ForUsb(R), OrderedBy(s.bus, R)
    PROVE  LET t == ActivateModule(s, a, n)
               c == Cmd("Info", a, n, "daemon")
           IN  /\ Shaped(t) /\ Typed(t) /\ Same(s, t, {"bus", "gaveUp"})
               /\ OrderedBy(t.bus, R)
               /\ c.kind = "Info" /\ c.to = a /\ c.who = "daemon"
               /\ \A x \in ToSet(t.bus) : x \in ToSet(s.bus) \/ x = c
               /\ \A x \in ToSet(s.bus) : x \in ToSet(t.bus)
               /\ c \in ToSet(t.bus)
               /\ \A b \in Addr \ {a} : b \in s.gaveUp => b \in t.gaveUp
<1> DEFINE t == ActivateModule(s, a, n)
           c == Cmd("Info", a, n, "daemon")
           b == Append(s.bus, c)
           g == IF n = ATTEMPTS THEN s.gaveUp \ {a} ELSE s.gaveUp
<1>1. c \in Commands /\ c.kind = "Info" /\ c.to = a /\ c.who = "daemon"
  BY CommandTypes DEF Cmd
<1>2. t = [s EXCEPT !.bus = b, !.gaveUp = g]
  BY DEF ActivateModule, Send
<1> HIDE DEF c
<1>3. b \in Seq(Commands) /\ OrderedBy(b, R) /\ ToSet(b) = ToSet(s.bus) \cup {c}
  <2>1. s.bus \in Seq(Commands) /\ \A x \in ToSet(s.bus) : x \in Commands
    BY DEF Typed, ToSet
  <2>2. \A x \in ToSet(s.bus) : <<x, c>> \in R
    BY <1>1, <2>1 DEF ForUsb
  <2>. QED  BY <1>1, <2>1, <2>2, AppendOrdered
<1>4. g \in SUBSET Addr /\ \A x \in Addr \ {a} : x \in s.gaveUp => x \in g
  BY DEF Typed
<1> HIDE DEF t, b, g
<1>5. /\ Shaped(t) /\ Same(s, t, {"bus", "gaveUp"}) /\ t.bus = b /\ t.gaveUp = g
  BY <1>2 DEF Shaped, Same, Fields
<1>6. Typed(t)
  BY <1>3, <1>4, <1>5 DEF Typed, Same, Fields
<1>7. /\ \A x \in ToSet(t.bus) : x \in ToSet(s.bus) \/ x = c
      /\ \A x \in ToSet(s.bus) : x \in ToSet(t.bus)
      /\ c \in ToSet(t.bus)
  BY <1>3, <1>5
<1>. QED  BY <1>1, <1>3, <1>4, <1>5, <1>6, <1>7 DEF c, t

\* A new attempt to activate a.
LEMMA RetryStep ==
    ASSUME IInv, NEW a \in Addr, NEW n \in 1 .. ATTEMPTS, Retry(a, n)
    PROVE  IInv' /\ Keeps(d') /\ Steady(d')
<1> DEFINE f == [d.retries EXCEPT ![a][n] = @ - 1]
           s == [d EXCEPT !.retries[a][n] = @ - 1]
           v == ActivateModule(s, a, n - 1)
           send == d.open /\ ~IsActive(d, a) /\ ~IsActivating(d, a)
           c == Cmd("Info", a, n - 1, "daemon")
<1>1. /\ d.alive /\ Shaped(d) /\ Typed(d) /\ UsbTyped(usb) /\ Sound(d)
      /\ usb' = usb /\ d.retries[a][n] > 0
      /\ d' = IF send THEN v ELSE s
      /\ OrderedBy(d.bus, Unique)
  BY DEF Retry, IInv, TypeOK, Sound, Connecting
<1>2. n - 1 \in 0 .. ATTEMPTS
  BY MtbDaemonAssumption
<1>3. /\ f \in [Addr -> [1 .. ATTEMPTS -> Nat]]
      /\ \A b \in Addr \ {a} : f[b] = d.retries[b]
  <2>1. d.retries \in [Addr -> [1 .. ATTEMPTS -> Nat]]
    BY <1>1 DEF Typed
  <2>2. d.retries[a] \in [1 .. ATTEMPTS -> Nat]
    BY <2>1
  <2> DEFINE g == [d.retries[a] EXCEPT ![n] = @ - 1]
  <2>3. d.retries[a][n] - 1 \in Nat
    <3>1. d.retries[a][n] \in Nat
      BY <2>2
    <3>2. d.retries[a][n] > 0
      BY <1>1
    <3>. QED  BY <3>1, <3>2
  <2>4. g \in [1 .. ATTEMPTS -> Nat]
    BY <2>2, <2>3
  <2>5. f = [d.retries EXCEPT ![a] = g]
    OBVIOUS
  <2> HIDE DEF g
  <2>. QED  BY <2>1, <2>4, <2>5
<1>4. s = [d EXCEPT !.retries = f]
  OBVIOUS
<1> HIDE DEF s, f
<1>5. Shaped(s) /\ Same(d, s, {"retries"}) /\ s.retries = f
  BY <1>1, <1>4 DEF Shaped, Same, Fields
<1>6. Typed(s)
  BY <1>1, <1>3, <1>5 DEF Typed, Same, Fields
<1>7. s.bus = d.bus /\ s.gaveUp = d.gaveUp
  BY <1>5 DEF Same, Fields
<1>8. PICK t : t = d'
  OBVIOUS
<1>9. /\ Shaped(t) /\ Typed(t) /\ OrderedBy(t.bus, Unique)
      /\ Same(s, t, {"bus", "gaveUp"})
      /\ \A x \in ToSet(t.bus) : x \in ToSet(d.bus) \/ (x.kind = "Info" /\ x.who = "daemon")
      /\ \A x \in ToSet(d.bus) : x \in ToSet(t.bus)
      /\ \A b \in Addr \ {a} : b \in d.gaveUp => b \in t.gaveUp
      /\ send => \E x \in ToSet(t.bus) : x.kind = "Info" /\ x.to = a
      /\ ~send => t.bus = d.bus /\ t.gaveUp = d.gaveUp
  <2>1. CASE send
    <3> HIDE DEF v
    <3>1. t = v
      BY <1>1, <1>8, <2>1
    <3>2. /\ Shaped(v) /\ Typed(v) /\ Same(s, v, {"bus", "gaveUp"})
          /\ OrderedBy(v.bus, Unique)
          /\ c.kind = "Info" /\ c.to = a /\ c.who = "daemon"
          /\ \A x \in ToSet(v.bus) : x \in ToSet(s.bus) \/ x = c
          /\ \A x \in ToSet(s.bus) : x \in ToSet(v.bus)
          /\ c \in ToSet(v.bus)
          /\ \A b \in Addr \ {a} : b \in s.gaveUp => b \in v.gaveUp
      <4>1. OrderedBy(s.bus, Unique)
        BY <1>1, <1>7
      <4>. QED  BY <1>2, <1>5, <1>6, <4>1, UniqueForUsb, ActivateModuleEffect DEF v
    <3> HIDE DEF c
    <3>. QED  BY <1>7, <2>1, <3>1, <3>2
  <2>2. CASE ~send
    BY <1>1, <1>5, <1>6, <1>7, <1>8, <2>2 DEF Same
  <2>. QED  BY <2>1, <2>2
<1>10. /\ Same(d, t, {"modules", "bus", "retries", "gaveUp"})
       /\ t.modules = d.modules /\ t.activeModules = d.activeModules /\ t.retries = f
  BY <1>5, <1>9 DEF Same, Fields
<1>11. Closed(t) /\ Connecting(t) /\ Answering(t) /\ Telling(t)
  <2>1. /\ \A x \in ToSet(t.bus) : x \in ToSet(d.bus) \/ x.kind \in {"Info", "Inputs"}
        /\ \A x \in ToSet(d.bus) : x \in ToSet(t.bus) \/ x.kind \in {"Info", "Inputs"}
        /\ d.open \/ t.bus = d.bus
    BY <1>9
  <2>. QED  BY <1>1, <1>9, <1>10, <2>1, OthersKept
<1>12. Pointing(t)
  BY <1>1, <1>9, <1>10 DEF Sound, Pointing
<1>13. Activating(t)
  BY <1>1, <1>9, <1>10 DEF Sound, Activating, IsActivating, Own
<1>14. Listing(t)
  <2> SUFFICES ASSUME NEW b \in t.activeModules \ t.gaveUp
               PROVE  LookedAfter(t, b)
    BY DEF Listing
  <2>1. CASE b # a
    <3>1. b \in Addr /\ LookedAfter(d, b)
      BY <1>1, <1>9, <1>10, <2>1 DEF Sound, Listing, Typed
    <3>. QED  BY <1>3, <1>9, <1>10, <2>1, <3>1 DEF LookedAfter, IsActive, Own
  <2>2. CASE b = a /\ send
    BY <1>9, <2>2 DEF LookedAfter
  <2>3. CASE b = a /\ ~send
    <3>1. d.open
      BY <1>1, <1>10 DEF Sound, Closed
    <3>2. CASE IsActive(d, a)
      BY <1>10, <2>3, <3>2 DEF LookedAfter, IsActive, Own
    <3>3. CASE IsActivating(d, a)
      BY <1>1, <1>10, <2>3, <3>3 DEF LookedAfter, Sound, Activating, IsActivating, Own
    <3>. QED  BY <2>3, <3>1, <3>2, <3>3
  <2>. QED  BY <2>1, <2>2, <2>3
<1>15. Sound(t)
  BY <1>11, <1>12, <1>13, <1>14 DEF Sound
<1>16. Keeps(t)
  <2>1. \A x \in ToSet(t.bus) : x.kind = "Inputs" => x \in ToSet(d.bus)
    BY <1>9
  <2>. QED  BY <1>10, <2>1, KeepsSame
<1>17. OrderedBy(d.bus, Follows) => OrderedBy(t.bus, Follows)
  <2> SUFFICES ASSUME OrderedBy(s.bus, Follows)  PROVE OrderedBy(t.bus, Follows)
    BY <1>7
  <2>1. CASE send
    <3>1. OrderedBy(v.bus, Follows)
      BY <1>2, <1>5, <1>6, FollowsForUsb, ActivateModuleEffect
    <3>. QED  BY <1>1, <1>8, <2>1, <3>1
  <2>2. CASE ~send
    BY <1>7, <1>9, <2>2
  <2>. QED  BY <2>1, <2>2
<1>18. Steady(t)
  <2>1. t.speed = d.speed /\ t.known = d.known /\ t.speedFailed = d.speedFailed
    BY <1>10 DEF Same, Fields
  <2>. QED  BY <1>9, <1>17, <2>1 DEF Steady, SpeedCmds
<1>. QED  BY <1>1, <1>8, <1>9, <1>15, <1>16, <1>18, StepKeeps

\* A timer tells all that subscribed.
LEMMA TellStep ==
    ASSUME IInv, d.alive, usb' = usb, NEW s, Shaped(s), Typed(s),
           Same(d, s, {"newTimerPending", "failTimerPending"}),
           d' = Tell(s, d.topoSubscribes)
    PROVE  IInv' /\ Keeps(d') /\ Steady(d')
<1> DEFINE t == Tell(s, d.topoSubscribes)
<1>1. Shaped(d) /\ Typed(d) /\ UsbTyped(usb) /\ Sound(d)
  BY DEF IInv, TypeOK
<1>2. /\ Shaped(t) /\ Typed(t) /\ Same(s, t, {"told"})
      /\ MtbUsbJson(t) = MtbUsbJson(s)
      /\ \A c \in Clients :
            t.told[c] = IF c \in d.topoSubscribes \cap s.topoSubscribes
                        THEN MtbUsbJson(s) ELSE s.told[c]
  BY TellEffect
<1> HIDE DEF t
<1>3. /\ t.known = d.known /\ t.open = d.open /\ t.asked = d.asked
      /\ t.tReconnect = d.tReconnect /\ t.activeModules = d.activeModules
      /\ t.modules = d.modules /\ t.retries = d.retries /\ t.bus = d.bus
      /\ t.gaveUp = d.gaveUp /\ t.replies = d.replies
      /\ t.topoSubscribes = d.topoSubscribes
      /\ s.topoSubscribes = d.topoSubscribes /\ s.told = d.told
  BY <1>2 DEF Same, Fields
<1>4. Closed(t) /\ Connecting(t) /\ Answering(t)
  BY <1>1, <1>3 DEF Sound, Closed, Connecting, Answering
<1>5. Telling(t)
  BY <1>1, <1>2, <1>3 DEF Sound, Telling, Typed
<1>6. Pointing(t) /\ Activating(t) /\ Listing(t)
  BY <1>1, <1>3, ObjectsKept DEF Sound
<1>7. Sound(t)
  BY <1>4, <1>5, <1>6 DEF Sound
<1>8. Keeps(t) /\ Steady(t)
  <2>1. t.speed = d.speed /\ t.speedFailed = d.speedFailed
    BY <1>2 DEF Same, Fields
  <2>. QED  BY <1>3, <2>1, KeepsSame, SteadySame
<1>. QED  BY <1>1, <1>2, <1>7, <1>8, StepKeeps DEF t

LEMMA TimerStep ==
    ASSUME IInv, NewTimer \/ FailTimer
    PROVE  IInv' /\ Keeps(d') /\ Steady(d')
<1>1. Shaped(d) /\ Typed(d)
  BY DEF IInv, TypeOK
<1>2. CASE NewTimer
  <2> DEFINE s == [d EXCEPT !.newTimerPending = FALSE]
  <2>1. /\ Shaped(s) /\ Same(d, s, {"newTimerPending"}) /\ s.newTimerPending = FALSE
        /\ Same(d, s, {"newTimerPending", "failTimerPending"})
    BY <1>1 DEF Shaped, Same, Fields
  <2>2. Typed(s)
    BY <1>1, <2>1 DEF Typed, Same, Fields
  <2>3. d.alive /\ usb' = usb /\ d' = Tell(s, d.topoSubscribes)
    BY <1>2 DEF NewTimer
  <2> HIDE DEF s
  <2>. QED  BY <2>1, <2>2, <2>3, TellStep
<1>3. CASE FailTimer
  <2> DEFINE s == [d EXCEPT !.failTimerPending = FALSE]
  <2>1. /\ Shaped(s) /\ Same(d, s, {"failTimerPending"}) /\ s.failTimerPending = FALSE
        /\ Same(d, s, {"newTimerPending", "failTimerPending"})
    BY <1>1 DEF Shaped, Same, Fields
  <2>2. Typed(s)
    BY <1>1, <2>1 DEF Typed, Same, Fields
  <2>3. d.alive /\ usb' = usb /\ d' = Tell(s, d.topoSubscribes)
    BY <1>3 DEF FailTimer
  <2> HIDE DEF s
  <2>. QED  BY <2>1, <2>2, <2>3, TellStep
<1>. QED  BY <1>2, <1>3

-----------------------------------------------------------------------------
(* Steps: what MTB-USB announces *)

\* A module came.
LEMMA NewModuleStep ==
    ASSUME IInv, NEW a \in Addr, NewModule(a)
    PROVE  IInv' /\ Keeps(d') /\ Steady(d')
<1> DEFINE s == [d EXCEPT !.activeModules = @ \cup {a}]
           v == IF IsActive(s, a) THEN s ELSE ActivateModule(s, a, ATTEMPTS)
           t == [v EXCEPT !.newTimerPending = TRUE]
           c == Cmd("Info", a, ATTEMPTS, "daemon")
<1>1. /\ d.alive /\ Shaped(d) /\ Typed(d) /\ UsbTyped(usb) /\ Sound(d)
      /\ usb' = [usb EXCEPT !.list = @ \cup {a}]
      /\ d' = IF "modules" \in d.known THEN t ELSE d
      /\ OrderedBy(d.bus, Unique)
  BY DEF NewModule, MtbUsbOnNewModule, IInv, TypeOK, Sound, Connecting
<1>2. UsbTyped(usb')
  BY <1>1 DEF UsbTyped
<1>3. CASE "modules" \notin d.known
  <2>1. Keeps(d) /\ Steady(d)
    BY KeepsSame, SteadySame
  <2>. QED  BY <1>1, <1>2, <1>3, <2>1, StepKeeps
<1>4. CASE "modules" \in d.known
  <2>1. /\ Shaped(s) /\ Same(d, s, {"activeModules"})
        /\ s.activeModules = d.activeModules \cup {a}
    BY <1>1 DEF Shaped, Same, Fields
  <2>2. Typed(s)
    BY <1>1, <2>1 DEF Typed, Same, Fields
  <2> HIDE DEF s
  <2>3. s.bus = d.bus /\ s.gaveUp = d.gaveUp /\ s.modules = d.modules
    BY <2>1 DEF Same, Fields
  <2>4. /\ Shaped(v) /\ Typed(v) /\ OrderedBy(v.bus, Unique)
        /\ Same(s, v, {"bus", "gaveUp"})
        /\ \A x \in ToSet(v.bus) : x \in ToSet(d.bus)
                                  \/ (x.kind = "Info" /\ x.who = "daemon")
        /\ \A x \in ToSet(d.bus) : x \in ToSet(v.bus)
        /\ \A b \in Addr \ {a} : b \in d.gaveUp => b \in v.gaveUp
        /\ IsActive(s, a) \/ \E x \in ToSet(v.bus) : x.kind = "Info" /\ x.to = a
        /\ OrderedBy(d.bus, Follows) => OrderedBy(v.bus, Follows)
    <3>1. CASE IsActive(s, a)
      BY <1>1, <2>1, <2>2, <2>3, <3>1 DEF Same
    <3>2. CASE ~IsActive(s, a)
      <4> DEFINE u == ActivateModule(s, a, ATTEMPTS)
      <4>1. OrderedBy(s.bus, Unique) /\ ATTEMPTS \in 0 .. ATTEMPTS
        BY <1>1, <2>3, MtbDaemonAssumption
      <4>2. /\ Shaped(u) /\ Typed(u) /\ Same(s, u, {"bus", "gaveUp"})
            /\ OrderedBy(u.bus, Unique)
            /\ c.kind = "Info" /\ c.to = a /\ c.who = "daemon"
            /\ \A x \in ToSet(u.bus) : x \in ToSet(s.bus) \/ x = c
            /\ \A x \in ToSet(s.bus) : x \in ToSet(u.bus)
            /\ c \in ToSet(u.bus)
            /\ \A b \in Addr \ {a} : b \in s.gaveUp => b \in u.gaveUp
        BY <2>1, <2>2, <4>1, UniqueForUsb, ActivateModuleEffect
      <4>4. OrderedBy(d.bus, Follows) => OrderedBy(u.bus, Follows)
        <5>1. ASSUME OrderedBy(s.bus, Follows)  PROVE OrderedBy(u.bus, Follows)
          BY <2>1, <2>2, <4>1, <5>1, FollowsForUsb, ActivateModuleEffect
        <5>. QED  BY <2>3, <5>1
      <4> HIDE DEF u, c
      <4>3. v = u
        BY <3>2 DEF u
      <4> HIDE DEF v
      <4>. QED  BY <2>3, <4>2, <4>3, <4>4
    <3>. QED  BY <3>1, <3>2
  <2> HIDE DEF v
  <2>5. /\ Shaped(t) /\ Same(v, t, {"newTimerPending"}) /\ t.newTimerPending = TRUE
    BY <2>4 DEF Shaped, Same, Fields
  <2>6. Typed(t)
    BY <2>4, <2>5 DEF Typed, Same, Fields
  <2> HIDE DEF t
  <2>7. /\ t.known = d.known /\ t.open = d.open /\ t.asked = d.asked
        /\ t.tReconnect = d.tReconnect
        /\ t.activeModules = d.activeModules \cup {a}
        /\ t.modules = d.modules /\ t.retries = d.retries /\ t.bus = v.bus
        /\ t.gaveUp = v.gaveUp /\ t.replies = d.replies
        /\ t.told = d.told /\ t.topoSubscribes = d.topoSubscribes
    BY <2>1, <2>4, <2>5 DEF Same, Fields
  <2>8. Closed(t)
    BY <1>1, <1>4, <2>7 DEF Sound, Closed
  <2>9. Connecting(t)
    <3>1. \A x \in ToSet(t.bus) : x \in ToSet(d.bus)
             \/ (x.who # "connect" /\ x.kind # "UsbInfo" /\ x.kind \notin SpeedCmds)
      BY <2>4, <2>7 DEF SpeedCmds
    <3>2. OrderedBy(t.bus, Unique)
      BY <2>4, <2>7
    <3>. QED  BY <1>1, <2>7, <3>1, <3>2, ConnectingKept DEF Sound
  <2>10. Answering(t)
    <3>1. "daemon" \notin Requests
      BY MtbDaemonAssumption DEF Callers
    <3>2. \A r \in Requests : (\E x \in ToSet(t.bus) : x.who = r)
                                 <=> (\E x \in ToSet(d.bus) : x.who = r)
      BY <2>4, <2>7, <3>1
    <3>. QED  BY <1>1, <2>7, <3>2, AnsweringKept DEF Sound
  <2>11. Telling(t)
    BY <1>1, <2>5, <2>7, TellingKept DEF Sound
  <2>12. Pointing(t)
    BY <1>1, <2>4, <2>7 DEF Sound, Pointing
  <2>13. Activating(t)
    BY <1>1, <2>4, <2>7 DEF Sound, Activating, IsActivating, Own
  <2>14. Listing(t)
    <3> SUFFICES ASSUME NEW b \in t.activeModules \ t.gaveUp
                 PROVE  LookedAfter(t, b)
      BY DEF Listing
    <3>1. CASE b = a
      BY <2>3, <2>4, <2>7, <3>1 DEF LookedAfter, IsActive, Own
    <3>2. CASE b # a
      <4>1. b \in Addr /\ LookedAfter(d, b)
        BY <1>1, <2>4, <2>7, <3>2 DEF Sound, Listing, Typed
      <4>. QED  BY <2>4, <2>7, <4>1 DEF LookedAfter, IsActive, Own
    <3>. QED  BY <3>1, <3>2
  <2>15. Sound(t)
    BY <2>8, <2>9, <2>10, <2>11, <2>12, <2>13, <2>14 DEF Sound
  <2>16. Keeps(t)
    <3>1. \A x \in ToSet(t.bus) : x.kind = "Inputs" => x \in ToSet(d.bus)
      BY <2>4, <2>7
    <3>. QED  BY <2>7, <3>1, KeepsSame
  <2>17. Steady(t)
    <3>1. t.speed = d.speed /\ t.speedFailed = d.speedFailed
      BY <2>1, <2>4, <2>5 DEF Same, Fields
    <3>. QED  BY <2>4, <2>7, <3>1 DEF Steady, SpeedCmds
  <2>. QED  BY <1>1, <1>2, <1>4, <2>5, <2>6, <2>15, <2>16, <2>17, StepKeeps
<1>. QED  BY <1>3, <1>4

\* A module was lost.
LEMMA ModuleFailedStep ==
    ASSUME IInv, NEW a \in Addr, ModuleFailed(a)
    PROVE  IInv' /\ Keeps(d') /\ Steady(d')
<1> DEFINE s == [d EXCEPT !.activeModules = @ \ {a}]
           v == [s EXCEPT !.failTimerPending = TRUE]
           t == IF v.modules[a] = Null THEN v
                ELSE [v EXCEPT !.modules[a].own = Mod!MtbBusLost(@)]
<1>1. /\ d.alive /\ Shaped(d) /\ Typed(d) /\ UsbTyped(usb) /\ Sound(d)
      /\ usb' = [usb EXCEPT !.list = @ \ {a}]
      /\ d' = IF "modules" \in d.known THEN t ELSE d
  BY DEF ModuleFailed, MtbUsbOnModuleFail, IInv, TypeOK
<1>2. UsbTyped(usb')
  BY <1>1 DEF UsbTyped
<1>3. CASE "modules" \notin d.known
  <2>1. Keeps(d) /\ Steady(d)
    BY KeepsSame, SteadySame
  <2>. QED  BY <1>1, <1>2, <1>3, <2>1, StepKeeps
<1>4. CASE "modules" \in d.known
  <2>1. /\ Shaped(v) /\ Same(d, v, {"activeModules", "failTimerPending"})
        /\ v.activeModules = d.activeModules \ {a} /\ v.failTimerPending = TRUE
    BY <1>1 DEF Shaped, Same, Fields
  <2>2. Typed(v)
    BY <1>1, <2>1 DEF Typed, Same, Fields
  <2> HIDE DEF v
  <2>3. v.modules = d.modules /\ d.modules \in [Addr -> Objects \cup {Null}]
    BY <1>1, <2>1 DEF Same, Fields, Typed
  <2>4. /\ Shaped(t) /\ Typed(t) /\ Same(v, t, {"modules"})
        /\ \A b \in Addr \ {a} : t.modules[b] = d.modules[b]
        /\ t.modules[a] = Null <=> d.modules[a] = Null
        /\ ~IsActivating(t, a)
        /\ Kept(t, a)
    <3>1. CASE d.modules[a] = Null
      BY <2>1, <2>2, <2>3, <3>1 DEF Same, IsActivating, Kept
    <3>2. CASE d.modules[a] # Null
      <4> DEFINE o == Mod!MtbBusLost(d.modules[a].own)
                 n == [d.modules EXCEPT ![a].own = o]
      <4>1. d.modules[a].own \in Owns
        BY <2>3, <3>2 DEF Objects
      <4>2. o \in Owns /\ ~o.activating /\ ~o.active /\ o.activationsRemaining = 0
        BY <4>1, OwnTypes, OwnFacts
      <4>3. t = [v EXCEPT !.modules = n]
        BY <2>3, <3>2
      <4> HIDE DEF o
      <4>4. /\ n \in [Addr -> Objects \cup {Null}]
            /\ n[a] # Null /\ n[a].own = o /\ n[a].type = d.modules[a].type
            /\ \A b \in Addr \ {a} : n[b] = d.modules[b]
        BY <2>3, <3>2, <4>2, OwnChange
      <4> HIDE DEF n, t
      <4>5. Shaped(t) /\ Same(v, t, {"modules"}) /\ t.modules = n
        BY <2>1, <4>3 DEF Shaped, Same, Fields
      <4>6. Typed(t)
        BY <2>2, <4>4, <4>5 DEF Typed, Same, Fields
      <4>. QED  BY <3>2, <4>2, <4>4, <4>5, <4>6 DEF IsActivating, Own, Kept, InUse
    <3>. QED  BY <3>1, <3>2
  <2> HIDE DEF t
  <2>5. /\ t.known = d.known /\ t.open = d.open /\ t.asked = d.asked
        /\ t.tReconnect = d.tReconnect
        /\ t.activeModules = d.activeModules \ {a}
        /\ t.retries = d.retries /\ t.bus = d.bus
        /\ t.gaveUp = d.gaveUp /\ t.replies = d.replies
        /\ t.told = d.told /\ t.topoSubscribes = d.topoSubscribes
        /\ t.failTimerPending = TRUE
    BY <2>1, <2>4 DEF Same, Fields
  <2>6. Closed(t) /\ Connecting(t) /\ Answering(t)
    BY <1>1, <2>5 DEF Sound, Closed, Connecting, Answering
  <2>7. Telling(t)
    BY <1>1, <2>5, TellingKept DEF Sound
  <2>8. Pointing(t)
    <3> SUFFICES ASSUME NEW x \in ToSet(t.bus), x.who = "object"
                 PROVE  t.modules[x.to] # Null
      BY DEF Pointing
    <3>1. x.to \in Addr
      BY <2>4, CommandKinds DEF Typed, ToSet
    <3>. QED  BY <1>1, <2>4, <2>5, <3>1 DEF Sound, Pointing
  <2>9. Activating(t)
    BY <1>1, <2>4, <2>5 DEF Sound, Activating, IsActivating, Own
  <2>10. Listing(t)
    <3> SUFFICES ASSUME NEW b \in t.activeModules \ t.gaveUp
                 PROVE  LookedAfter(t, b)
      BY DEF Listing
    <3>1. b \in Addr \ {a} /\ LookedAfter(d, b)
      BY <1>1, <2>5 DEF Sound, Listing, Typed
    <3>. QED  BY <2>4, <2>5, <3>1 DEF LookedAfter, IsActive, Own
  <2>11. Sound(t)
    BY <2>6, <2>7, <2>8, <2>9, <2>10 DEF Sound
  <2>12. Keeps(t)
    BY <2>4, <2>5 DEF Keeps, Kept
  <2>13. Steady(t)
    <3>1. t.speed = d.speed /\ t.speedFailed = d.speedFailed
      BY <2>1, <2>4 DEF Same, Fields
    <3>. QED  BY <2>5, <3>1, SteadySame
  <2>. QED  BY <1>1, <1>2, <1>4, <2>4, <2>11, <2>12, <2>13, StepKeeps
<1>. QED  BY <1>3, <1>4

\* Somebody exchanged a module.
LEMMA ExchangeStep ==
    ASSUME IInv, NEW a \in Addr, NEW type \in Types \cup {None}, Exchange(a, type)
    PROVE  IInv'
<1>1. /\ d' = d /\ usb' = [usb EXCEPT !.present[a] = type]
      /\ Shaped(d) /\ Typed(d) /\ UsbTyped(usb) /\ (d.alive => Sound(d))
  BY DEF Exchange, IInv, TypeOK
<1>2. UsbTyped(usb')
  BY <1>1 DEF UsbTyped
<1>. QED  BY <1>1, <1>2, StepKeeps

\* The port failed.
LEMMA SpHandleErrorStep ==
    ASSUME IInv, SpHandleError
    PROVE  IInv' /\ Keeps(d') /\ Broken(d')
<1>1. /\ d.alive /\ Shaped(d) /\ Typed(d) /\ UsbTyped(usb) /\ Sound(d)
      /\ usb' = usb /\ d' = Disconnect(d)
  BY DEF SpHandleError, IInv, TypeOK
<1>2. /\ OrderedBy(d.bus, Unique) /\ Pointing(d) /\ Activating(d) /\ Answering(d)
      /\ \A c \in Clients \ d.topoSubscribes : d.told[c] = Null
  BY <1>1 DEF Sound, Connecting, Telling
<1> DEFINE t == Disconnect(d)
<1>3. Shaped(t) /\ Typed(t) /\ (t.alive => Sound(t))
  BY <1>1, <1>2, DisconnectSound
<1>4. Disconnected(d, t)
  BY <1>1, <1>2, DisconnectEffect
<1> HIDE DEF t
<1>5. Keeps(t)
  <2>1. \A x \in ToSet(t.bus) : x \in ToSet(d.bus)
    BY <1>4 DEF Disconnected
  <2>. QED  BY <1>4, <2>1, DisconnectedKeeps
<1>6. Broken(t)
  <2>1. t.alive =>
           /\ ToSet(t.bus) = {} /\ t.known = {}
           /\ \A c \in ToSet(d.bus) : c.who \notin {"deleted", "connect"}
           /\ d.speedFailed => t.speedFailed
           /\ (\E c \in ToSet(d.bus) : c.who \in Requests) => t.speedFailed
    BY <1>4 DEF Disconnected, ToSet
  <2>2. ASSUME NEW x \in ToSet(d.bus), x.kind \in SpeedCmds, x.who # "nobody"
        PROVE  x.who \in Requests \cup {"connect"}
    BY <1>1, <2>2, CommandKinds DEF Typed, ToSet, SpeedCmds
  <2>. QED  BY <2>1, <2>2 DEF Broken
<1>. QED  BY <1>1, <1>3, <1>5, <1>6, StepKeeps DEF t

-----------------------------------------------------------------------------
(* Steps: requests of clients *)

\* Who subscribes, and what they hear.
LEMMA TopologyStep ==
    ASSUME IInv, NEW c \in Clients,
           \/ ServerCmdMtbusb(c) \/ ServerCmdTopoSubscribe(c)
           \/ ServerCmdTopoUnsubscribe(c)
    PROVE  IInv' /\ Keeps(d') /\ Steady(d')
<1>1. /\ d.alive /\ Shaped(d) /\ Typed(d) /\ UsbTyped(usb) /\ Sound(d)
      /\ usb' = usb
  BY DEF ServerCmdMtbusb, ServerCmdTopoSubscribe, ServerCmdTopoUnsubscribe, IInv, TypeOK
<1>2. PICK t : t = d'
  OBVIOUS
<1>3. /\ Shaped(t) /\ Same(d, t, {"told", "topoSubscribes"})
      /\ \/ /\ t.told = [d.told EXCEPT ![c] = MtbUsbJson(d)]
            /\ t.topoSubscribes = d.topoSubscribes /\ c \in d.topoSubscribes
         \/ /\ t.told = d.told
            /\ t.topoSubscribes = d.topoSubscribes \cup {c}
         \/ /\ t.told = [d.told EXCEPT ![c] = Null]
            /\ t.topoSubscribes = d.topoSubscribes \ {c}
  <2>1. CASE ServerCmdMtbusb(c)
    <3>1. t = [d EXCEPT !.told[c] = MtbUsbJson(d)] /\ c \in d.topoSubscribes
      BY <1>2, <2>1 DEF ServerCmdMtbusb
    <3>2. /\ Shaped(t) /\ Same(d, t, {"told"})
          /\ t.told = [d.told EXCEPT ![c] = MtbUsbJson(d)]
      BY <1>1, <3>1 DEF Shaped, Same, Fields
    <3>. QED  BY <3>1, <3>2 DEF Same, Fields
  <2>2. CASE ServerCmdTopoSubscribe(c)
    <3>1. t = [d EXCEPT !.topoSubscribes = @ \cup {c}]
      BY <1>2, <2>2 DEF ServerCmdTopoSubscribe
    <3>2. /\ Shaped(t) /\ Same(d, t, {"topoSubscribes"})
          /\ t.topoSubscribes = d.topoSubscribes \cup {c}
      BY <1>1, <3>1 DEF Shaped, Same, Fields
    <3>. QED  BY <3>2 DEF Same, Fields
  <2>3. CASE ServerCmdTopoUnsubscribe(c)
    <3>1. t = [d EXCEPT !.topoSubscribes = @ \ {c}, !.told[c] = Null]
      BY <1>2, <2>3 DEF ServerCmdTopoUnsubscribe
    <3>. QED  BY <1>1, <3>1 DEF Shaped, Same, Fields
  <2>. QED  BY <2>1, <2>2, <2>3
<1>4. /\ MtbUsbJson(d) \in Reports /\ Null \in Reports
      /\ d.told \in [Clients -> Reports] /\ d.topoSubscribes \in SUBSET Clients
  BY <1>1 DEF MtbUsbJson, Reports, Typed
<1>5. t.told \in [Clients -> Reports] /\ t.topoSubscribes \in SUBSET Clients
  BY <1>3, <1>4
<1>6. Typed(t)
  BY <1>1, <1>3, <1>5 DEF Typed, Same, Fields
<1>7. /\ t.known = d.known /\ t.open = d.open /\ t.asked = d.asked
      /\ t.tReconnect = d.tReconnect /\ t.activeModules = d.activeModules
      /\ t.modules = d.modules /\ t.retries = d.retries /\ t.bus = d.bus
      /\ t.gaveUp = d.gaveUp /\ t.replies = d.replies
      /\ t.newTimerPending = d.newTimerPending
      /\ t.failTimerPending = d.failTimerPending
  BY <1>3 DEF Same, Fields
<1>8. Closed(t) /\ Connecting(t) /\ Answering(t)
  BY <1>1, <1>7 DEF Sound, Closed, Connecting, Answering
<1>9. Telling(t)
  <2>1. MtbUsbJson(t) = MtbUsbJson(d)
    BY <1>7, JsonKept
  <2>. QED  BY <1>1, <1>3, <1>4, <1>7, <2>1 DEF Sound, Telling
<1>10. Pointing(t) /\ Activating(t) /\ Listing(t)
  BY <1>1, <1>7, ObjectsKept DEF Sound
<1>11. Sound(t)
  BY <1>8, <1>9, <1>10 DEF Sound
<1>12. Keeps(t) /\ Steady(t)
  <2>1. t.speed = d.speed /\ t.speedFailed = d.speedFailed
    BY <1>3 DEF Same, Fields
  <2>. QED  BY <1>7, <2>1, KeepsSame, SteadySame
<1>. QED  BY <1>1, <1>2, <1>3, <1>6, <1>11, <1>12, StepKeeps

\* A request to change the speed: a response at once, or three broadcasts.
SpeedAsked(r, t) ==
    /\ Shaped(t) /\ Typed(t) /\ OrderedBy(t.bus, Unique)
    /\ Same(d, t, {"asked", "replies", "bus"})
    /\ t.asked = d.asked \cup {r}
    /\ \/ /\ t.bus = d.bus
          /\ Len(t.replies[r]) = Len(d.replies[r]) + 1
          /\ \A x \in Requests \ {r} : t.replies[x] = d.replies[x]
       \/ /\ t.replies = d.replies
          /\ "info" \in d.known /\ d.open
          /\ LET n == Cmd("BusSpeed", 0, NewSpeed[r], "nobody")
                 c == Cmd("BusSpeed", 0, NewSpeed[r], r)
             IN  /\ ToSet(t.bus) = ToSet(d.bus) \cup {n, c}
                 /\ t.bus = Append(Append(Append(d.bus, n), n), c)

LEMMA ServerCmdMtbusbSpeedEffect ==
    ASSUME IInv, NEW r \in Requests, ServerCmdMtbusbSpeed(r)
    PROVE  SpeedAsked(r, d')
<1> DEFINE s == [d EXCEPT !.asked = @ \cup {r}]
           v == NewSpeed[r]
           n == Cmd("BusSpeed", 0, v, "nobody")
           c == Cmd("BusSpeed", 0, v, r)
<1>1. /\ d.alive /\ Shaped(d) /\ Typed(d) /\ Sound(d)
      /\ r \notin d.asked
      /\ OrderedBy(d.bus, Unique)
  BY DEF ServerCmdMtbusbSpeed, IInv, TypeOK, Sound, Connecting
<1>2. d' = CASE "info" \notin d.known -> Reply(s, r, "error")
             [] "info" \in d.known /\ d.speed = v -> Reply(s, r, "ok")
             [] OTHER -> ChangeSpeed(s, v, r)
  BY Zenon DEF ServerCmdMtbusbSpeed
<1>3. Shaped(s) /\ Same(d, s, {"asked"}) /\ s.asked = d.asked \cup {r}
  BY <1>1 DEF Shaped, Same, Fields
<1>4. Typed(s)
  BY <1>1, <1>3 DEF Typed, Same, Fields
<1> HIDE DEF s
<1>5. /\ s.bus = d.bus /\ s.replies = d.replies /\ s.open = d.open
      /\ s.known = d.known
  BY <1>3 DEF Same, Fields
<1>6. v \in Speeds
  BY MtbDaemonAssumption
<1> HIDE DEF v
<1>7. ASSUME NEW status \in {"ok", "error"}
      PROVE  SpeedAsked(r, Reply(s, r, status))
  <2> DEFINE t == Reply(s, r, status)
  <2>1. /\ Shaped(t) /\ Typed(t) /\ Same(s, t, {"replies"})
        /\ Len(t.replies[r]) = Len(s.replies[r]) + 1
        /\ \A x \in Requests \ {r} : t.replies[x] = s.replies[x]
    BY <1>3, <1>4, ReplyEffect
  <2> HIDE DEF t
  <2>2. Same(d, t, {"asked", "replies", "bus"})
    BY <1>3, <2>1 DEF Same
  <2>3. t.bus = d.bus /\ t.asked = d.asked \cup {r}
    BY <1>3, <1>5, <2>1 DEF Same, Fields
  <2>4. SpeedAsked(r, t)
    BY <1>1, <1>5, <2>1, <2>2, <2>3 DEF SpeedAsked
  <2>. QED  BY <2>4 DEF t
<1>8. CASE "info" \notin d.known
  BY <1>2, <1>7, <1>8
<1>9. CASE "info" \in d.known /\ d.speed = v
  <2>1. d' = Reply(s, r, "ok")
    BY <1>2, <1>9
  <2>. QED  BY <1>7, <2>1
<1>10. CASE "info" \in d.known /\ d.speed # v
  <2> DEFINE t == ChangeSpeed(s, v, r)
  <2>1. d' = t /\ t = ChangeSpeed(s, v, r)
    BY <1>2, <1>10
  <2>2. s.open /\ "info" \in s.known
    BY <1>1, <1>5, <1>10 DEF Sound, Closed
  <2>3. \A x \in ToSet(s.bus) : x.who # r
    BY <1>1, <1>5 DEF Sound, Answering
  <2>4. OrderedBy(s.bus, Unique) /\ r \in Requests \cup {"connect"}
    BY <1>1, <1>5
  <2> HIDE DEF t
  <2>5. /\ Shaped(t) /\ Typed(t) /\ Same(s, t, {"bus"})
        /\ OrderedBy(t.bus, Unique)
        /\ ToSet(t.bus) = ToSet(s.bus) \cup {n, c}
        /\ t.bus = Append(Append(Append(s.bus, n), n), c)
    <3>1. Shaped(s) /\ Typed(s)
      BY <1>3, <1>4
    <3>2. t = ChangeSpeed(s, v, r)
      BY <2>1
    <3>. QED  BY <1>6, <2>2, <2>3, <2>4, <3>1, <3>2, ChangeSpeedEffect, ZenonT(60)
  <2> HIDE DEF n, c
  <2>6. Same(d, t, {"asked", "replies", "bus"})
    BY <1>3, <2>5 DEF Same
  <2>7. /\ t.asked = d.asked \cup {r} /\ t.replies = d.replies
        /\ ToSet(t.bus) = ToSet(d.bus) \cup {n, c}
        /\ t.bus = Append(Append(Append(d.bus, n), n), c)
    BY <1>3, <1>5, <2>5 DEF Same, Fields
  <2>8. "info" \in d.known /\ d.open
    BY <1>5, <2>2
  <2>. QED  BY <2>1, <2>5, <2>6, <2>7, <2>8 DEF SpeedAsked, n, c, v
<1>. QED  BY <1>8, <1>9, <1>10

LEMMA ServerCmdMtbusbSpeedStep ==
    ASSUME IInv, NEW r \in Requests, ServerCmdMtbusbSpeed(r)
    PROVE  IInv' /\ Keeps(d')
<1> DEFINE n == Cmd("BusSpeed", 0, NewSpeed[r], "nobody")
           c == Cmd("BusSpeed", 0, NewSpeed[r], r)
<1>1. /\ d.alive /\ Shaped(d) /\ Typed(d) /\ UsbTyped(usb) /\ Sound(d)
      /\ r \notin d.asked /\ usb' = usb
  BY DEF ServerCmdMtbusbSpeed, IInv, TypeOK
<1>2. PICK t : t = d'
  OBVIOUS
<1>3. SpeedAsked(r, t)
  BY <1>2, ServerCmdMtbusbSpeedEffect
<1>4. /\ n.kind = "BusSpeed" /\ n.who = "nobody"
      /\ c.kind = "BusSpeed" /\ c.who = r
  BY DEF Cmd
<1>5. r # "connect" /\ r # "object" /\ "nobody" \notin Requests
  BY MtbDaemonAssumption DEF Callers
<1>6. \/ /\ t.bus = d.bus
         /\ Len(t.replies[r]) = Len(d.replies[r]) + 1
         /\ \A x \in Requests \ {r} : t.replies[x] = d.replies[x]
      \/ /\ t.replies = d.replies
         /\ "info" \in d.known /\ d.open
         /\ ToSet(t.bus) = ToSet(d.bus) \cup {n, c}
  BY <1>3 DEF SpeedAsked
<1> HIDE DEF n, c
<1>7. /\ t.known = d.known /\ t.open = d.open /\ t.asked = d.asked \cup {r}
      /\ t.tReconnect = d.tReconnect /\ t.activeModules = d.activeModules
      /\ t.modules = d.modules /\ t.retries = d.retries
      /\ t.gaveUp = d.gaveUp /\ t.told = d.told
      /\ t.topoSubscribes = d.topoSubscribes
      /\ t.newTimerPending = d.newTimerPending
      /\ t.failTimerPending = d.failTimerPending
      /\ OrderedBy(t.bus, Unique) /\ Shaped(t) /\ Typed(t)
  BY <1>3 DEF SpeedAsked, Same, Fields
<1>8. /\ \A x \in ToSet(t.bus) : x \in ToSet(d.bus) \/ x \in {n, c}
      /\ \A x \in ToSet(d.bus) : x \in ToSet(t.bus)
  BY <1>6
<1>9. Closed(t)
  BY <1>1, <1>6, <1>7 DEF Sound, Closed
<1>10. Connecting(t)
  BY <1>1, <1>4, <1>5, <1>6, <1>7 DEF Sound, Connecting, SpeedCmds
<1>11. Answering(t)
  <2>1. \A x \in ToSet(t.bus) : x.who \in Requests => x.who \in t.asked
    BY <1>1, <1>4, <1>5, <1>7, <1>8 DEF Sound, Answering
  <2>2. ASSUME NEW q \in Requests
        PROVE  Len(t.replies[q]) =
                 IF q \in t.asked /\ (\A x \in ToSet(t.bus) : x.who # q) THEN 1 ELSE 0
    <3>1. /\ Len(d.replies[q]) =
               IF q \in d.asked /\ (\A x \in ToSet(d.bus) : x.who # q) THEN 1 ELSE 0
          /\ \A x \in ToSet(d.bus) : x.who # r
      BY <1>1 DEF Sound, Answering
    <3>2. CASE q = r
      <4>1. Len(d.replies[r]) = 0
        BY <1>1, <3>1, <3>2, Zenon
      <4>2. CASE t.bus = d.bus /\ Len(t.replies[r]) = Len(d.replies[r]) + 1
        <5>1. Len(t.replies[q]) = 1
          BY <3>2, <4>1, <4>2
        <5>2. q \in t.asked /\ \A x \in ToSet(t.bus) : x.who # q
          BY <1>7, <3>1, <3>2, <4>2
        <5>. QED  BY <5>1, <5>2, Zenon
      <4>3. CASE t.replies = d.replies /\ ToSet(t.bus) = ToSet(d.bus) \cup {n, c}
        <5>1. c \in ToSet(t.bus) /\ c.who = q
          BY <1>4, <3>2, <4>3
        <5>2. Len(t.replies[q]) = 0
          BY <3>2, <4>1, <4>3
        <5>. QED  BY <5>1, <5>2, Zenon
      <4>. QED  BY <1>6, <4>2, <4>3
    <3>3. CASE q # r
      <4>1. t.replies[q] = d.replies[q]
        BY <1>6, <3>3
      <4>2. (\A x \in ToSet(t.bus) : x.who # q) <=> (\A x \in ToSet(d.bus) : x.who # q)
        BY <1>4, <1>5, <1>8, <3>3
      <4>3. q \in t.asked <=> q \in d.asked
        BY <1>7, <3>3
      <4>. QED  BY <3>1, <4>1, <4>2, <4>3
    <3>. QED  BY <3>2, <3>3
  <2>. QED  BY <2>1, <2>2 DEF Answering
<1>12. Telling(t)
  <2>1. MtbUsbJson(t) = MtbUsbJson(d)
    BY <1>7, JsonKept
  <2>. QED  BY <1>1, <1>7, <2>1, TellingKept DEF Sound
<1>13. Pointing(t) /\ Activating(t) /\ Listing(t)
  <2>1. \A x \in ToSet(t.bus) : x.who = "object" => x \in ToSet(d.bus)
    BY <1>4, <1>5, <1>8
  <2>. QED  BY <1>1, <1>7, <1>8, <2>1, ObjectsKept DEF Sound
<1>14. Sound(t)
  BY <1>9, <1>10, <1>11, <1>12, <1>13 DEF Sound
<1>15. Keeps(t)
  <2>1. \A x \in ToSet(t.bus) : x.kind = "Inputs" => x \in ToSet(d.bus)
    BY <1>4, <1>8
  <2>. QED  BY <1>7, <2>1, KeepsSame
<1>. QED  BY <1>1, <1>2, <1>7, <1>14, <1>15, StepKeeps

\* An object gets another type, or there is a new one.
LEMMA ServerCmdModuleSetConfigStep ==
    ASSUME IInv, NEW a \in Addr, NEW type \in Types, ServerCmdModuleSetConfig(a, type)
    PROVE  IInv' /\ Steady(d') /\ (d.modules[a] = Null => Keeps(d'))
<1> DEFINE o == d.modules[a]
           n == IF o = Null THEN NewObject(type) ELSE [o EXCEPT !.type = type]
           t == [d EXCEPT !.modules[a] = n]
<1>1. /\ d.alive /\ Shaped(d) /\ Typed(d) /\ UsbTyped(usb) /\ Sound(d)
      /\ usb' = usb /\ d' = t
      /\ d.modules \in [Addr -> Objects \cup {Null}]
  BY DEF ServerCmdModuleSetConfig, IInv, TypeOK, Typed
<1>2. /\ n \in Objects
      /\ o = Null => /\ ~n.own.activating /\ ~n.own.active
                     /\ n.own.activationsRemaining = 0
      /\ o # Null => n.class = o.class /\ n.own = o.own
  BY <1>1, NewObjectFacts DEF Objects
<1>3. n # Null
  BY <1>2, MtbDaemonAssumption
<1> HIDE DEF n
<1>4. /\ Shaped(t) /\ Same(d, t, {"modules"})
      /\ t.modules = [d.modules EXCEPT ![a] = n]
  BY <1>1 DEF Shaped, Same, Fields
<1>5. /\ t.modules \in [Addr -> Objects \cup {Null}] /\ t.modules[a] = n
      /\ \A b \in Addr \ {a} : t.modules[b] = d.modules[b]
  BY <1>1, <1>2, <1>4
<1> HIDE DEF t
<1>6. Typed(t)
  BY <1>1, <1>4, <1>5 DEF Typed, Same, Fields
<1>7. /\ Same(d, t, {"modules", "bus", "retries", "gaveUp"})
      /\ t.bus = d.bus /\ t.activeModules = d.activeModules
      /\ t.retries = d.retries /\ t.gaveUp = d.gaveUp
      /\ OrderedBy(t.bus, Unique)
  BY <1>1, <1>4 DEF Same, Fields, Sound, Connecting
<1>8. Closed(t) /\ Connecting(t) /\ Answering(t) /\ Telling(t)
  BY <1>1, <1>6, <1>7, OthersKept
<1>9. Pointing(t)
  <2> SUFFICES ASSUME NEW x \in ToSet(t.bus), x.who = "object"
               PROVE  t.modules[x.to] # Null
    BY DEF Pointing
  <2>1. x.to \in Addr
    BY <1>6, CommandKinds DEF Typed, ToSet
  <2>. QED  BY <1>1, <1>3, <1>5, <1>7, <2>1 DEF Sound, Pointing
<1>10. \A b \in Addr : \/ t.modules[b] = d.modules[b]
                       \/ d.modules[b] = Null /\ ~t.modules[b].own.activating
                       \/ /\ d.modules[b] # Null /\ t.modules[b] # Null
                          /\ t.modules[b].class = d.modules[b].class
                          /\ t.modules[b].own = d.modules[b].own
  BY <1>2, <1>3, <1>5
<1>11. Activating(t)
  BY <1>1, <1>7, <1>10 DEF Sound, Activating, IsActivating, Own
<1>12. Listing(t)
  <2> SUFFICES ASSUME NEW b \in t.activeModules \ t.gaveUp
               PROVE  LookedAfter(t, b)
    BY DEF Listing
  <2>1. b \in Addr /\ LookedAfter(d, b)
    BY <1>1, <1>7 DEF Sound, Listing, Typed
  <2>. QED  BY <1>7, <1>10, <2>1 DEF LookedAfter, IsActive, Own
<1>13. Sound(t)
  BY <1>8, <1>9, <1>11, <1>12 DEF Sound
<1>14. Steady(t)
  <2>1. t.speed = d.speed /\ t.known = d.known /\ t.speedFailed = d.speedFailed
    BY <1>4 DEF Same, Fields
  <2>. QED  BY <1>7, <2>1, SteadySame
<1>15. ASSUME d.modules[a] = Null  PROVE Keeps(t)
  <2>1. Kept(t, a)
    BY <1>2, <1>5, <1>15 DEF Kept, InUse
  <2>2. \A b \in Addr \ {a} : Kept(t, b)
    BY <1>5 DEF Kept
  <2>. QED  BY <1>7, <2>1, <2>2 DEF Keeps
<1>. QED  BY <1>1, <1>4, <1>6, <1>13, <1>14, <1>15, StepKeeps

\* A file makes the objects that it names and the daemon has not.
LEMMA ServerCmdLoadConfigStep ==
    ASSUME IInv, NEW file \in Files, ServerCmdLoadConfig(file)
    PROVE  IInv' /\ Keeps(d') /\ Steady(d')
<1> DEFINE m == [a \in Addr |-> IF d.modules[a] = Null /\ file.modules[a] # None
                                THEN NewObject(file.modules[a]) ELSE d.modules[a]]
           t == [d EXCEPT !.fileSpeed = file.speed, !.modules = m]
<1>1. /\ d.alive /\ Shaped(d) /\ Typed(d) /\ UsbTyped(usb) /\ Sound(d)
      /\ usb' = usb /\ d' = t
      /\ d.modules \in [Addr -> Objects \cup {Null}]
  BY DEF ServerCmdLoadConfig, LoadConfig, IInv, TypeOK, Typed
<1>2. file.modules \in [Addr -> Types \cup {None}] /\ file.speed \in Speeds \cup {Unset}
  BY MtbDaemonAssumption
<1>3. ASSUME NEW a \in Addr
      PROVE  /\ m[a] \in Objects \cup {Null}
             /\ \/ m[a] = d.modules[a]
                \/ /\ d.modules[a] = Null /\ m[a] # Null /\ ~m[a].own.activating
                   /\ ~InUse(m[a])
  <2>1. CASE d.modules[a] = Null /\ file.modules[a] # None
    <3>1. file.modules[a] \in Types
      BY <1>2, <2>1
    <3>2. NewObject(file.modules[a]) \in Objects
          /\ ~NewObject(file.modules[a]).own.activating
          /\ ~InUse(NewObject(file.modules[a]))
      BY <3>1, NewObjectFacts DEF InUse
    <3>. QED  BY <2>1, <3>2, MtbDaemonAssumption
  <2>2. CASE ~(d.modules[a] = Null /\ file.modules[a] # None)
    BY <1>1, <2>2
  <2>. QED  BY <2>1, <2>2
<1>4. m \in [Addr -> Objects \cup {Null}]
  BY <1>3
<1> HIDE DEF m
<1>5. /\ Shaped(t) /\ Same(d, t, {"fileSpeed", "modules"})
      /\ t.fileSpeed = file.speed /\ t.modules = m
  BY <1>1 DEF Shaped, Same, Fields
<1>6. Typed(t)
  BY <1>1, <1>2, <1>4, <1>5 DEF Typed, Same, Fields
<1> HIDE DEF t
<1>7. /\ t.known = d.known /\ t.open = d.open /\ t.asked = d.asked
      /\ t.tReconnect = d.tReconnect /\ t.activeModules = d.activeModules
      /\ t.retries = d.retries /\ t.bus = d.bus
      /\ t.gaveUp = d.gaveUp /\ t.replies = d.replies
      /\ t.told = d.told /\ t.topoSubscribes = d.topoSubscribes
      /\ t.newTimerPending = d.newTimerPending
      /\ t.failTimerPending = d.failTimerPending
  BY <1>5 DEF Same, Fields
<1>8. Closed(t) /\ Connecting(t) /\ Answering(t)
  BY <1>1, <1>7 DEF Sound, Closed, Connecting, Answering
<1>9. Telling(t)
  <2>1. MtbUsbJson(t) = MtbUsbJson(d)
    BY <1>7, JsonKept
  <2>. QED  BY <1>1, <1>7, <2>1, TellingKept DEF Sound
<1>10. Pointing(t)
  <2> SUFFICES ASSUME NEW x \in ToSet(t.bus), x.who = "object"
               PROVE  t.modules[x.to] # Null
    BY DEF Pointing
  <2>1. x.to \in Addr
    BY <1>6, CommandKinds DEF Typed, ToSet
  <2>. QED  BY <1>1, <1>3, <1>5, <1>7, <2>1 DEF Sound, Pointing
<1>11. Activating(t)
  BY <1>1, <1>3, <1>5, <1>7 DEF Sound, Activating, IsActivating, Own
<1>12. Listing(t)
  <2> SUFFICES ASSUME NEW b \in t.activeModules \ t.gaveUp
               PROVE  LookedAfter(t, b)
    BY DEF Listing
  <2>1. b \in Addr /\ LookedAfter(d, b)
    BY <1>1, <1>7 DEF Sound, Listing, Typed
  <2>. QED  BY <1>3, <1>5, <1>7, <2>1 DEF LookedAfter, IsActive, Own
<1>13. Sound(t)
  BY <1>8, <1>9, <1>10, <1>11, <1>12 DEF Sound
<1>14. Keeps(t) /\ Steady(t)
  <2>1. t.speed = d.speed /\ t.speedFailed = d.speedFailed
    BY <1>5 DEF Same, Fields
  <2>2. \A a \in Addr : Kept(t, a)
    BY <1>3, <1>5 DEF Kept
  <2>. QED  BY <1>7, <2>1, <2>2, SteadySame DEF Keeps
<1>. QED  BY <1>1, <1>5, <1>6, <1>13, <1>14, StepKeeps

\* A client deletes a module.
LEMMA ServerCmdModuleDeleteStep ==
    ASSUME IInv, NEW a \in Addr, ServerCmdModuleDelete(a)
    PROVE  IInv' /\ Steady(d')
<1> DEFINE q == Orphaned(d.bus, a)
           m == [d.modules EXCEPT ![a] = Null]
           g == d.gaveUp \cup {a}
           t == [d EXCEPT !.modules[a] = Null, !.bus = Orphaned(@, a),
                          !.gaveUp = @ \cup {a}]
<1>1. /\ d.alive /\ Shaped(d) /\ Typed(d) /\ UsbTyped(usb) /\ Sound(d)
      /\ usb' = usb /\ d' = t
      /\ d.modules \in [Addr -> Objects \cup {Null}]
      /\ d.bus \in Seq(Commands) /\ OrderedBy(d.bus, Unique)
  BY DEF ServerCmdModuleDelete, IInv, TypeOK, Typed, Sound, Connecting
<1>2. t = [d EXCEPT !.modules = m, !.bus = q, !.gaveUp = g]
  OBVIOUS
<1>3. /\ q \in Seq(Commands)
      /\ OrderedBy(q, Unique)
      /\ \A x \in ToSet(q) :
            \/ x \in ToSet(d.bus) /\ ~(x.kind = "Inputs" /\ x.to = a)
            \/ x.kind = "Inputs" /\ x.to = a /\ x.who = "deleted"
      /\ \A y \in ToSet(d.bus) :
            y \in ToSet(q) \/ (y.kind = "Inputs" /\ y.to = a)
  BY <1>1, OrphanedFacts, UniqueForUsb
<1>14. OrderedBy(d.bus, Follows) => OrderedBy(q, Follows)
  <2>1. ASSUME OrderedBy(d.bus, Follows)  PROVE OrderedBy(q, Follows)
    BY <1>1, <2>1, OrphanedFacts, FollowsForUsb
  <2>. QED  BY <2>1
<1>4. /\ m \in [Addr -> Objects \cup {Null}] /\ m[a] = Null
      /\ \A b \in Addr \ {a} : m[b] = d.modules[b]
      /\ g \in SUBSET Addr
  BY <1>1 DEF Typed
<1> HIDE DEF t, m, g, q
<1>5. /\ Shaped(t) /\ Same(d, t, {"modules", "bus", "gaveUp"})
      /\ t.modules = m /\ t.bus = q /\ t.gaveUp = g
  BY <1>1, <1>2 DEF Shaped, Same, Fields
<1>6. Typed(t)
  BY <1>1, <1>3, <1>4, <1>5 DEF Typed, Same, Fields
<1>7. /\ Same(d, t, {"modules", "bus", "retries", "gaveUp"})
      /\ t.activeModules = d.activeModules /\ t.retries = d.retries
  BY <1>5 DEF Same, Fields
<1>8. d.open \/ t.bus = d.bus
  <2>1. CASE ~d.open
    <3>1. d.bus = <<>>
      BY <1>1, <2>1 DEF Sound, Closed
    <3>2. Orphaned(d.bus, a) = <<>>
      <4>1. DOMAIN Orphaned(d.bus, a) = {}
        BY <3>1 DEF Orphaned
      <4>2. q = <<>> <=> DOMAIN q = {}
        BY <1>3
      <4>. QED  BY <4>1, <4>2 DEF q
    <3>. QED  BY <1>5, <3>1, <3>2 DEF q
  <2>. QED  BY <2>1
<1>9. Closed(t) /\ Connecting(t) /\ Answering(t) /\ Telling(t)
  <2>1. /\ \A x \in ToSet(t.bus) : x \in ToSet(d.bus) \/ x.kind \in {"Info", "Inputs"}
        /\ \A x \in ToSet(d.bus) : x \in ToSet(t.bus) \/ x.kind \in {"Info", "Inputs"}
        /\ OrderedBy(t.bus, Unique)
    BY <1>3, <1>5
  <2>. QED  BY <1>1, <1>6, <1>7, <1>8, <2>1, OthersKept
<1>10. Pointing(t)
  <2> SUFFICES ASSUME NEW x \in ToSet(t.bus), x.who = "object"
               PROVE  t.modules[x.to] # Null
    BY DEF Pointing
  <2>1. x.to \in Addr /\ x.kind = "Inputs"
    BY <1>6, CommandKinds DEF Typed, ToSet
  <2>2. x \in ToSet(d.bus) /\ x.to # a
    BY <1>3, <1>5, <2>1
  <2>. QED  BY <1>1, <1>4, <1>5, <2>1, <2>2 DEF Sound, Pointing
<1>11. Activating(t)
  <2> SUFFICES ASSUME NEW b \in Addr, IsActivating(t, b)
               PROVE  /\ t.modules[b].class = "MtbRc"
                      /\ Own(t, b).activationsRemaining > 0
                      /\ \E x \in ToSet(t.bus) : x.kind = "Inputs" /\ x.to = b
    BY DEF Activating
  <2>1. b # a
    BY <1>4, <1>5 DEF IsActivating
  <2>. QED  BY <1>1, <1>3, <1>4, <1>5, <2>1 DEF Sound, Activating, IsActivating, Own
<1>12. Listing(t)
  <2> SUFFICES ASSUME NEW b \in t.activeModules \ t.gaveUp
               PROVE  LookedAfter(t, b)
    BY DEF Listing
  <2>1. b \in Addr \ {a} /\ LookedAfter(d, b)
    BY <1>1, <1>5, <1>7 DEF Sound, Listing, Typed, g
  <2>. QED  BY <1>3, <1>4, <1>5, <1>7, <2>1 DEF LookedAfter, IsActive, Own
<1>13. Sound(t)
  BY <1>9, <1>10, <1>11, <1>12 DEF Sound
<1>15. Steady(t)
  <2>1. t.speed = d.speed /\ t.known = d.known /\ t.speedFailed = d.speedFailed
    BY <1>5 DEF Same, Fields
  <2>. QED  BY <1>3, <1>5, <1>14, <2>1 DEF Steady, SpeedCmds
<1>. QED  BY <1>1, <1>5, <1>6, <1>13, <1>15, StepKeeps

-----------------------------------------------------------------------------
(* The invariant *)

LEMMA InitIInv == Init => IInv
<1> SUFFICES ASSUME Init  PROVE IInv
  OBVIOUS
<1>1. PICK s \in Speeds, p \in [Addr -> Types \cup {None}] :
         usb = [present |-> p, list |-> {}, speed |-> s, busSpeed |-> s]
  BY DEF Init
<1>2. UsbTyped(usb)
  BY <1>1 DEF UsbTyped
<1>3. /\ d.alive = TRUE /\ d.open = FALSE /\ d.tReconnect = TRUE /\ d.known = {}
      /\ d.speed = Unset /\ d.activeModules = {} /\ d.fileSpeed = Unset
      /\ d.modules = [a \in Addr |-> Null] /\ d.bus = <<>>
      /\ d.retries = [a \in Addr |-> [n \in 1 .. ATTEMPTS |-> 0]]
      /\ d.newTimerPending = FALSE /\ d.failTimerPending = FALSE
      /\ d.topoSubscribes = {} /\ d.asked = {}
      /\ d.replies = [r \in Requests |-> <<>>]
      /\ d.told = [c \in Clients |-> Null] /\ d.gaveUp = {}
      /\ d.speedFailed = FALSE
  BY DEF Init
<1>4. Shaped(d)
  BY DEF Init, Shaped, Fields
<1>5. Typed(d)
  <2>1. d.retries \in [Addr -> [1 .. ATTEMPTS -> Nat]]
    BY <1>3
  <2>2. d.replies \in [Requests -> Seq({"ok", "error"})]
    BY <1>3
  <2>3. d.told \in [Clients -> Reports]
    BY <1>3 DEF Reports
  <2>4. d.modules \in [Addr -> Objects \cup {Null}] /\ d.bus \in Seq(Commands)
    BY <1>3
  <2>. QED  BY <1>3, <2>1, <2>2, <2>3, <2>4 DEF Typed
<1>6. ToSet(d.bus) = {} /\ OrderedBy(d.bus, Unique)
  BY <1>3 DEF ToSet, OrderedBy
<1>7. Closed(d) /\ Connecting(d) /\ Telling(d) /\ Pointing(d) /\ Listing(d)
  BY <1>3, <1>6 DEF Closed, Connecting, Telling, Pointing, Listing
<1>8. Answering(d)
  <2>1. \A r \in Requests : d.replies[r] = <<>>
    BY <1>3
  <2>. QED  BY <1>3, <1>6, <2>1 DEF Answering
<1>9. Activating(d)
  BY <1>3 DEF Activating, IsActivating
<1>. QED  BY <1>2, <1>4, <1>5, <1>7, <1>8, <1>9 DEF IInv, TypeOK, Sound

LEMMA NextIInv == IInv /\ [Next]_vars => IInv'
<1> SUFFICES ASSUME IInv, [Next]_vars  PROVE IInv'
  OBVIOUS
<1>1. ASSUME NEW i \in DOMAIN d.bus,
             UsbAnswers(i) \/ ModuleInfo(i) \/ InputsRead(i) \/ CmdFails(i)
      PROVE  IInv'
  BY <1>1, UsbAnswersStep, ModuleInfoStep, InputsReadStep, CmdFailsStep
<1>2. ASSUME TReconnectTick \/ TReactivateTick \/ NewTimer \/ FailTimer
      PROVE  IInv'
  BY <1>2, TReconnectTickStep, TReactivateTickStep, TimerStep
<1>3. ASSUME NEW a \in Addr, NEW n \in 1 .. ATTEMPTS, Retry(a, n)
      PROVE  IInv'
  BY <1>3, RetryStep
<1>4. ASSUME NEW a \in Addr, NewModule(a) \/ ModuleFailed(a) \/ ServerCmdModuleDelete(a)
      PROVE  IInv'
  BY <1>4, NewModuleStep, ModuleFailedStep, ServerCmdModuleDeleteStep
<1>5. ASSUME NEW a \in Addr, NEW t \in Types, ServerCmdModuleSetConfig(a, t)
      PROVE  IInv'
  BY <1>5, ServerCmdModuleSetConfigStep
<1>6. ASSUME NEW a \in Addr, NEW t \in Types \cup {None}, Exchange(a, t)
      PROVE  IInv'
  BY <1>6, ExchangeStep
<1>7. ASSUME SpHandleError  PROVE IInv'
  BY <1>7, SpHandleErrorStep
<1>8. ASSUME NEW c \in Clients,
             \/ ServerCmdMtbusb(c) \/ ServerCmdTopoSubscribe(c)
             \/ ServerCmdTopoUnsubscribe(c)
      PROVE  IInv'
  BY <1>8, TopologyStep
<1>9. ASSUME NEW r \in Requests, ServerCmdMtbusbSpeed(r)
      PROVE  IInv'
  BY <1>9, ServerCmdMtbusbSpeedStep
<1>10. ASSUME NEW f \in Files, ServerCmdLoadConfig(f)
       PROVE  IInv'
  BY <1>10, ServerCmdLoadConfigStep
<1>11. CASE UNCHANGED vars
  <2>1. d' = d /\ usb' = usb
    BY <1>11 DEF vars
  <2>. QED  BY <2>1, StepKeeps DEF IInv, TypeOK
<1>. QED  BY <1>1, <1>2, <1>3, <1>4, <1>5, <1>6, <1>7, <1>8, <1>9, <1>10, <1>11 DEF Next

LEMMA Invariant == Spec => []IInv
BY InitIInv, NextIInv, PTL DEF Spec

-----------------------------------------------------------------------------
(* The properties *)

\* The commands under way, by their places and as a set.
LEMMA BusPlaces ==
    /\ \A i \in DOMAIN d.bus : d.bus[i] \in ToSet(d.bus)
    /\ \A c \in ToSet(d.bus) : \E i \in DOMAIN d.bus : d.bus[i] = c
BY DEF ToSet

\* The daemon, MTB-USB and the commands under way have the types above: every
\* command carries the callbacks of its kind, whatever modules, clients and
\* files there are (main.cpp, DaemonCoreApplication).
THEOREM TypeCorrect == Spec => []TypeOK
<1>1. IInv => TypeOK
  BY DEF IInv
<1>. QED  BY <1>1, Invariant, PTL

\* The daemon looks for the port exactly while it is closed (tReconnectTick,
\* mtbUsbOnDisconnect), however often the port opens, fails and closes itself.
THEOREM NeverStopsLooking == Spec => []ReconnectsWhileClosed
<1>1. IInv => ReconnectsWhileClosed
  BY DEF IInv, Sound, Closed, ReconnectsWhileClosed
<1>. QED  BY <1>1, Invariant, PTL

\* What a subscriber heard of MTB-USB is what the daemon would say now, or one
\* of the timers that tell it runs (mtbUsbOnNewModule, mtbUsbOnModuleFail).
THEOREM SubscribersAreTold == Spec => []SubscribersKnow
<1>1. IInv => SubscribersKnow
  BY DEF IInv, Sound, Telling, SubscribersKnow
<1>. QED  BY <1>1, Invariant, PTL

\* A request to change the speed of MTBbus has its one response exactly when
\* its last command has ended, also when the port closes under it
\* (serverCmdMtbusb, MtbUsb::changeSpeed).
THEOREM EverySpeedRequestAnswered == Spec => []SpeedAnswered
<1>1. IInv => SpeedAnswered
  <2> SUFFICES ASSUME IInv, d.alive, NEW r \in Requests
               PROVE  Len(d.replies[r]) =
                         IF r \in d.asked /\ (\A i \in DOMAIN d.bus : d.bus[i].who # r)
                         THEN 1 ELSE 0
    BY DEF SpeedAnswered
  <2>1. (\A i \in DOMAIN d.bus : d.bus[i].who # r)
           <=> (\A c \in ToSet(d.bus) : c.who # r)
    BY BusPlaces
  <2>2. Len(d.replies[r]) =
           IF r \in d.asked /\ (\A c \in ToSet(d.bus) : c.who # r) THEN 1 ELSE 0
    BY DEF IInv, Sound, Answering
  <2>. QED  BY <2>1, <2>2, Zenon
<1>. QED  BY <1>1, Invariant, PTL

\* A module that MTB-USB lists is active, cannot be activated, or its
\* activation goes on, until its attempts are used up: no order of answers,
\* errors, lost modules and closed ports makes the daemon forget it
\* (activateModule, moduleGotInfo, reactivateCheck).
THEOREM NoModuleForgotten == Spec => []ListedIsLookedAfter
<1>1. IInv => ListedIsLookedAfter
  <2> SUFFICES ASSUME IInv, d.alive, NEW a \in d.activeModules \ d.gaveUp,
                      ~IsActive(d, a),
                      ~\E i \in DOMAIN d.bus : d.bus[i].to = a,
                      ~\E n \in 1 .. ATTEMPTS : d.retries[a][n] > 0
               PROVE  /\ d.modules[a] # Null
                      /\ d.modules[a].class = "MtbRc" => Reactivates(d, a)
    BY DEF ListedIsLookedAfter
  <2>1. a \in Addr /\ LookedAfter(d, a) /\ Activating(d)
    BY DEF IInv, TypeOK, Typed, Sound, Listing
  <2>2. \A c \in ToSet(d.bus) : c.to # a
    BY BusPlaces
  <2>3. ~IsActivating(d, a)
    BY <2>1, <2>2 DEF Activating
  <2>4. /\ d.modules[a] # Null
        /\ d.modules[a].class = "MtbRc" => Own(d, a).activationsRemaining > 0
    BY <2>1, <2>2 DEF LookedAfter
  <2>. QED  BY <2>3, <2>4 DEF Reactivates, IsActive, IsActivating
<1>. QED  BY <1>1, Invariant, PTL


-----------------------------------------------------------------------------
(* No callback outlives its object *)

\* What commands to objects and what can still be activated rest on: the object
\* is of the type of the module at its address, so that an answer never
\* replaces an object that waits for one.
Matching(s, u) ==
    /\ \A c \in ToSet(s.bus) : c.kind = "Inputs" =>
          /\ c.who = "object" /\ s.modules[c.to] # Null
          /\ s.modules[c.to].type = u.present[c.to]
    /\ \A a \in Addr : InUse(s.modules[a]) => s.modules[a].type = u.present[a]

Undeleted(s) == \A c \in ToSet(s.bus) : c.who # "deleted"

MInv == IInv /\ Undeleted(d) /\ (d.alive => Matching(d, usb))

\* Steps that leave the objects and the modules alone.
LEMMA MatchingKept ==
    ASSUME MInv, d.alive, IInv', Keeps(d'), usb'.present = usb.present
    PROVE  MInv'
<1> PICK t : t = d'
  OBVIOUS
<1>1. /\ Typed(t) /\ Keeps(t) /\ Matching(d, usb)
  BY DEF MInv, IInv, TypeOK
<1>2. \A c \in ToSet(t.bus) : c \in Commands
  BY <1>1 DEF Typed, ToSet
<1>3. Undeleted(t)
  <2> SUFFICES ASSUME NEW c \in ToSet(t.bus), c.who = "deleted"  PROVE FALSE
    BY DEF Undeleted
  <2>1. c.kind = "Inputs"
    BY <1>2, CommandKinds
  <2>. QED  BY <1>1, <2>1 DEF Keeps, Matching
<1>4. t.alive => Matching(t, usb')
  <2> SUFFICES ASSUME t.alive  PROVE Matching(t, usb')
    OBVIOUS
  <2>1. ASSUME NEW c \in ToSet(t.bus), c.kind = "Inputs"
        PROVE  /\ c.who = "object" /\ t.modules[c.to] # Null
               /\ t.modules[c.to].type = usb'.present[c.to]
    <3>1. c.to \in Addr
      BY <1>2, <2>1, CommandKinds
    <3>. QED  BY <1>1, <2>1, <3>1 DEF Keeps, Kept, Matching
  <2>2. ASSUME NEW a \in Addr, InUse(t.modules[a])
        PROVE  t.modules[a].type = usb'.present[a]
    BY <1>1, <2>2 DEF Keeps, Kept, Matching, InUse
  <2>. QED  BY <2>1, <2>2 DEF Matching
<1>. QED  BY <1>3, <1>4 DEF MInv

\* Commands of the speed do not exchange modules.
LEMMA CarriedOutPresent ==
    ASSUME UsbTyped(usb), NEW c
    PROVE  CarriedOut(c).present = usb.present
BY DEF UsbTyped, CarriedOut

\* Another type: the object is new, and the old one waited for nothing.
LEMMA ModuleInfoMatching ==
    ASSUME MInv, NEW i \in DOMAIN d.bus, ModuleInfo(i)
    PROVE  MInv'
<1> DEFINE w == Without(i)
           a == d.bus[i].to
           type == usb.present[a]
<1>1. IInv /\ d.alive /\ usb' = usb /\ Matching(d, usb)
  BY DEF MInv, ModuleInfo
<1>2. IInv'
  BY <1>1, ModuleInfoStep
<1>3. PICK t : t = d'
  OBVIOUS
<1>4. Ended(d.bus[i], w)
  BY <1>1, Taken
<1>5. OrderedBy(w.bus, Unique)
  BY <1>4 DEF Ended
<1>6. a \in Addr /\ type \in Types /\ GotInfo(w, t, a, type, Unique)
  BY <1>1, <1>3, <1>5, ModuleInfoEffect, UniqueForUsb
<1>7. type = usb.present[a]
  OBVIOUS
<1> HIDE DEF w, a, type
<1>8. /\ \A x \in ToSet(w.bus) : x \in ToSet(d.bus)
      /\ w.modules = d.modules
  BY <1>4 DEF Ended, Same, Fields
<1>9. \A x \in ToSet(t.bus) : x \in Commands
  BY <1>6 DEF GotInfo, Typed, ToSet
<1>10. Undeleted(t)
  <2> SUFFICES ASSUME NEW x \in ToSet(t.bus), x.who = "deleted"  PROVE FALSE
    BY DEF Undeleted
  <2>1. x.kind = "Inputs"
    BY <1>9, CommandKinds
  <2>2. CASE x \in ToSet(w.bus)
    BY <1>1, <1>8, <2>1, <2>2 DEF Matching
  <2>3. ASSUME w.modules[a].type # type,
               NEW y \in ToSet(w.bus), y.kind = "Inputs", y.to = a
        PROVE  FALSE
    BY <1>1, <1>7, <1>8, <2>3 DEF Matching
  <2>. QED  BY <1>6, <2>2, <2>3 DEF GotInfo
<1>11. Matching(t, usb)
  <2>1. ASSUME NEW x \in ToSet(t.bus), x.kind = "Inputs"
        PROVE  /\ x.who = "object" /\ t.modules[x.to] # Null
               /\ t.modules[x.to].type = usb.present[x.to]
    <3>1. x.to \in Addr /\ x.who = "object"
      BY <1>9, <1>10, <2>1, CommandKinds DEF Undeleted
    <3>2. CASE x.to = a
      BY <1>6, <1>7, <3>1, <3>2 DEF GotInfo
    <3>3. CASE x.to # a
      BY <1>1, <1>6, <1>8, <2>1, <3>1, <3>3 DEF GotInfo, Matching
    <3>. QED  BY <3>2, <3>3
  <2>2. ASSUME NEW b \in Addr, InUse(t.modules[b])
        PROVE  t.modules[b].type = usb.present[b]
    <3>1. CASE b = a
      BY <1>6, <1>7, <3>1 DEF GotInfo
    <3>2. CASE b # a
      BY <1>1, <1>6, <1>8, <2>2, <3>2 DEF GotInfo, Matching
    <3>. QED  BY <3>1, <3>2
  <2>. QED  BY <2>1, <2>2 DEF Matching
<1>. QED  BY <1>1, <1>2, <1>3, <1>10, <1>11 DEF MInv

LEMMA InputsReadMatching ==
    ASSUME MInv, NEW i \in DOMAIN d.bus, InputsRead(i)
    PROVE  MInv'
<1> DEFINE c0 == d.bus[i]
           a == c0.to
<1>1. /\ IInv /\ d.alive /\ usb' = usb /\ Matching(d, usb)
      /\ c0.kind = "Inputs"
  BY DEF MInv, InputsRead
<1>2. c0 \in ToSet(d.bus) /\ c0 \in Commands
  BY <1>1 DEF IInv, TypeOK, Typed, ToSet
<1>3. /\ a \in Addr /\ c0.who = "object"
      /\ d.modules[a].type = usb.present[a]
  BY <1>1, <1>2, CommandKinds DEF Matching
<1>4. PICK t : t = d'
  OBVIOUS
<1>5. IInv'
  BY <1>1, InputsReadStep
<1>6. /\ \A c \in ToSet(t.bus) : c \in ToSet(d.bus)
      /\ \A b \in Addr \ {a} : t.modules[b] = d.modules[b]
      /\ t.modules[a] # Null
      /\ t.modules[a].type = d.modules[a].type
  BY <1>1, <1>3, <1>4, InputsReadStep
<1> HIDE DEF a, c0
<1>7. \A x \in ToSet(t.bus) : x \in Commands
  BY <1>4, <1>5 DEF IInv, TypeOK, Typed, ToSet
<1>8. Undeleted(t)
  BY <1>6 DEF MInv, Undeleted
<1>9. Matching(t, usb)
  <2>1. ASSUME NEW x \in ToSet(t.bus), x.kind = "Inputs"
        PROVE  /\ x.who = "object" /\ t.modules[x.to] # Null
               /\ t.modules[x.to].type = usb.present[x.to]
    <3>1. x.to \in Addr
      BY <1>7, <2>1, CommandKinds
    <3>. QED  BY <1>1, <1>6, <2>1, <3>1 DEF Matching
  <2>2. ASSUME NEW b \in Addr, InUse(t.modules[b])
        PROVE  t.modules[b].type = usb.present[b]
    BY <1>1, <1>3, <1>6, <2>2 DEF Matching
  <2>. QED  BY <2>1, <2>2 DEF Matching
<1>. QED  BY <1>1, <1>4, <1>5, <1>8, <1>9 DEF MInv

LEMMA TReactivateTickMatching ==
    ASSUME MInv, TReactivateTick
    PROVE  MInv'
<1> DEFINE again == {a \in Addr : Reactivates(d, a)}
<1>1. /\ IInv /\ d.alive /\ usb' = usb /\ Matching(d, usb)
      /\ Shaped(d) /\ Typed(d) /\ OrderedBy(d.bus, Unique)
  BY DEF MInv, TReactivateTick, IInv, TypeOK, Sound, Connecting
<1>2. IInv'
  BY <1>1, TReactivateTickStep
<1>3. PICK t : t = d'
  OBVIOUS
<1>4. Reactivated(d, t, again, Unique)
  BY <1>1, <1>3, TReactivateTickEffect, UniqueForUsb
<1>5. \A a \in again : d.modules[a] # Null /\ InUse(d.modules[a])
  BY DEF Reactivates, InUse, Own
<1> HIDE DEF again
<1>6. \A x \in ToSet(t.bus) : x \in Commands
  BY <1>4 DEF Reactivated, Typed, ToSet
<1>7. Matching(t, usb)
  <2>1. ASSUME NEW x \in ToSet(t.bus), x.kind = "Inputs"
        PROVE  /\ x.who = "object" /\ t.modules[x.to] # Null
               /\ t.modules[x.to].type = usb.present[x.to]
    <3>1. x.to \in Addr
      BY <1>6, <2>1, CommandKinds
    <3>2. CASE x \in ToSet(d.bus)
      BY <1>1, <1>4, <2>1, <3>1, <3>2 DEF Reactivated, Matching
    <3>3. CASE x.who = "object" /\ x.to \in again
      BY <1>1, <1>4, <1>5, <3>1, <3>3 DEF Reactivated, Matching
    <3>. QED  BY <1>4, <3>2, <3>3 DEF Reactivated
  <2>2. ASSUME NEW b \in Addr, InUse(t.modules[b])
        PROVE  t.modules[b].type = usb.present[b]
    <3>1. d.modules[b] # Null /\ InUse(d.modules[b])
      BY <1>4, <2>2 DEF Reactivated, InUse, Own
    <3>. QED  BY <1>1, <1>4, <3>1 DEF Reactivated, Matching
  <2>. QED  BY <2>1, <2>2 DEF Matching
<1>8. Undeleted(t)
  BY <1>6, <1>7, CommandKinds DEF Undeleted, Matching
<1>. QED  BY <1>1, <1>2, <1>3, <1>7, <1>8 DEF MInv

\* Nobody exchanges a module while an answer of it, or another attempt, is due.
LEMMA ExchangeMatching ==
    ASSUME MInv, NEW a \in Addr, NEW type \in Types \cup {None}, Exchange(a, type)
    PROVE  MInv'
<1>1. /\ IInv /\ d.alive /\ Matching(d, usb) /\ Undeleted(d) /\ UsbTyped(usb)
      /\ d' = d /\ usb' = [usb EXCEPT !.present[a] = type]
      /\ ~Reactivates(d, a) /\ ~IsActive(d, a)
      /\ \A i \in DOMAIN d.bus : d.bus[i].to # a
      /\ Activating(d) /\ Typed(d)
  BY DEF MInv, Exchange, IInv, TypeOK, Sound
<1>2. \A c \in ToSet(d.bus) : c.to # a
  BY <1>1, BusPlaces
<1>3. IInv'
  BY <1>1, ExchangeStep
<1>4. \A b \in Addr \ {a} : usb'.present[b] = usb.present[b]
  BY <1>1 DEF UsbTyped
<1>5. ~InUse(d.modules[a])
  <2>1. ~IsActivating(d, a)
    BY <1>1, <1>2 DEF Activating
  <2>. QED  BY <1>1, <2>1 DEF InUse, Reactivates, IsActive, IsActivating, Own
<1>6. \A c \in ToSet(d.bus) : c \in Commands
  BY <1>1 DEF Typed, ToSet
<1>7. Matching(d, usb')
  <2>1. ASSUME NEW x \in ToSet(d.bus), x.kind = "Inputs"
        PROVE  /\ x.who = "object" /\ d.modules[x.to] # Null
               /\ d.modules[x.to].type = usb'.present[x.to]
    <3>1. x.to \in Addr \ {a}
      BY <1>2, <1>6, <2>1, CommandKinds
    <3>. QED  BY <1>1, <1>4, <2>1, <3>1 DEF Matching
  <2>2. ASSUME NEW b \in Addr, InUse(d.modules[b])
        PROVE  d.modules[b].type = usb'.present[b]
    <3>1. b # a
      BY <1>5, <2>2
    <3>. QED  BY <1>1, <1>4, <2>2, <3>1 DEF Matching
  <2>. QED  BY <2>1, <2>2 DEF Matching
<1>. QED  BY <1>1, <1>3, <1>7 DEF MInv

\* Nobody deletes a module whose object waits for an answer.
LEMMA ServerCmdModuleDeleteMatching ==
    ASSUME MInv, "pending" \notin Events, NEW a \in Addr, ServerCmdModuleDelete(a)
    PROVE  MInv'
<1> DEFINE m == [d.modules EXCEPT ![a] = Null]
           g == d.gaveUp \cup {a}
<1>1. /\ IInv /\ d.alive /\ Matching(d, usb) /\ Undeleted(d)
      /\ Shaped(d) /\ Typed(d)
      /\ Orphaned(d.bus, a) = d.bus
      /\ d' = [d EXCEPT !.modules[a] = Null, !.bus = Orphaned(@, a),
                        !.gaveUp = @ \cup {a}]
      /\ usb' = usb
  BY DEF MInv, ServerCmdModuleDelete, IInv, TypeOK
<1>2. IInv'
  BY <1>1, ServerCmdModuleDeleteStep
<1>3. d' = [d EXCEPT !.modules = m, !.bus = d.bus, !.gaveUp = g]
  BY <1>1
<1>4. \A b \in Addr \ {a} : m[b] = d.modules[b]
  BY <1>1 DEF Typed
<1>5. m[a] = Null
  BY <1>1 DEF Typed
<1> HIDE DEF m, g
<1>6. PICK t : t = d'
  OBVIOUS
<1>7. t.modules = m /\ t.bus = d.bus
  BY <1>1, <1>3, <1>6 DEF Shaped, Fields
<1>8. ASSUME NEW c \in ToSet(d.bus), c.kind = "Inputs"  PROVE c.to \in Addr \ {a}
  <2>1. PICK i \in DOMAIN d.bus : d.bus[i] = c
    BY BusPlaces
  <2>2. c \in Commands /\ c.who = "object"
    BY <1>1, <1>8, <2>1 DEF Typed, Matching
  <2>3. c.to = a => Orphaned(d.bus, a)[i].who = "deleted"
    BY <1>8, <2>1, <2>2 DEF Orphaned, Commands
  <2>. QED  BY <1>1, <1>8, <2>1, <2>2, <2>3, CommandKinds
<1>9. Matching(t, usb)
  <2>1. ASSUME NEW x \in ToSet(t.bus), x.kind = "Inputs"
        PROVE  /\ x.who = "object" /\ t.modules[x.to] # Null
               /\ t.modules[x.to].type = usb.present[x.to]
    <3>1. x.to \in Addr \ {a}
      BY <1>7, <1>8, <2>1
    <3>. QED  BY <1>1, <1>4, <1>7, <2>1, <3>1 DEF Matching
  <2>2. ASSUME NEW b \in Addr, InUse(t.modules[b])
        PROVE  t.modules[b].type = usb.present[b]
    BY <1>1, <1>4, <1>5, <1>7, <2>2 DEF Matching, InUse
  <2>. QED  BY <2>1, <2>2 DEF Matching
<1>10. Undeleted(t)
  BY <1>1, <1>7 DEF Undeleted
<1>. QED  BY <1>1, <1>2, <1>6, <1>9, <1>10 DEF MInv

LEMMA InitMInv == Init => MInv
<1> SUFFICES ASSUME Init  PROVE MInv
  OBVIOUS
<1>1. IInv /\ d.bus = <<>> /\ d.modules = [a \in Addr |-> Null]
  BY InitIInv DEF Init
<1>2. ToSet(d.bus) = {}
  BY <1>1 DEF ToSet
<1>. QED  BY <1>1, <1>2 DEF MInv, Undeleted, Matching, InUse

LEMMA NextMInv ==
    ASSUME Events \cap {"retype", "pending"} = {}
    PROVE  MInv /\ [Next]_vars => MInv'
<1> SUFFICES ASSUME MInv, [Next]_vars  PROVE MInv'
  OBVIOUS
<1>1. IInv /\ UsbTyped(usb) /\ IInv'
  BY NextIInv DEF MInv, IInv, TypeOK
<1>2. ASSUME NEW i \in DOMAIN d.bus, UsbAnswers(i)  PROVE MInv'
  <2>1. d.alive /\ usb'.present = usb.present
    BY <1>1, <1>2, CarriedOutPresent DEF UsbAnswers
  <2>. QED  BY <1>1, <1>2, <2>1, UsbAnswersStep, MatchingKept
<1>3. ASSUME NEW i \in DOMAIN d.bus, ModuleInfo(i) \/ InputsRead(i)  PROVE MInv'
  BY <1>3, ModuleInfoMatching, InputsReadMatching
<1>4. ASSUME NEW i \in DOMAIN d.bus, CmdFails(i)  PROVE MInv'
  <2>1. d.alive /\ usb'.present = usb.present
    BY <1>1, <1>4, CarriedOutPresent DEF CmdFails
  <2>. QED  BY <1>1, <1>4, <2>1, CmdFailsStep, MatchingKept
<1>5. ASSUME TReconnectTick \/ NewTimer \/ FailTimer \/ SpHandleError
      PROVE  MInv'
  <2>1. d.alive /\ usb'.present = usb.present
    BY <1>5 DEF TReconnectTick, NewTimer, FailTimer, SpHandleError
  <2>2. Keeps(d')
    BY <1>1, <1>5, TReconnectTickStep, TimerStep, SpHandleErrorStep
  <2>. QED  BY <1>1, <2>1, <2>2, MatchingKept
<1>6. ASSUME TReactivateTick  PROVE MInv'
  BY <1>6, TReactivateTickMatching
<1>7. ASSUME NEW a \in Addr, NEW n \in 1 .. ATTEMPTS, Retry(a, n)  PROVE MInv'
  <2>1. d.alive /\ usb'.present = usb.present
    BY <1>7 DEF Retry
  <2>. QED  BY <1>1, <1>7, <2>1, RetryStep, MatchingKept
<1>8. ASSUME NEW a \in Addr, NewModule(a) \/ ModuleFailed(a)  PROVE MInv'
  <2>1. d.alive /\ usb'.present = usb.present
    BY <1>1, <1>8 DEF NewModule, ModuleFailed, UsbTyped
  <2>2. Keeps(d')
    BY <1>1, <1>8, NewModuleStep, ModuleFailedStep
  <2>. QED  BY <1>1, <2>1, <2>2, MatchingKept
<1>9. ASSUME NEW a \in Addr, ServerCmdModuleDelete(a)  PROVE MInv'
  BY <1>9, ServerCmdModuleDeleteMatching
<1>10. ASSUME NEW a \in Addr, NEW type \in Types, ServerCmdModuleSetConfig(a, type)
       PROVE  MInv'
  <2>1. d.alive /\ usb'.present = usb.present /\ d.modules[a] = Null
    BY <1>10 DEF ServerCmdModuleSetConfig
  <2>. QED  BY <1>1, <1>10, <2>1, ServerCmdModuleSetConfigStep, MatchingKept
<1>11. ASSUME NEW a \in Addr, NEW type \in Types \cup {None}, Exchange(a, type)
       PROVE  MInv'
  BY <1>11, ExchangeMatching
<1>12. ASSUME NEW c \in Clients,
              \/ ServerCmdMtbusb(c) \/ ServerCmdTopoSubscribe(c)
              \/ ServerCmdTopoUnsubscribe(c)
       PROVE  MInv'
  <2>1. d.alive /\ usb'.present = usb.present
    BY <1>12 DEF ServerCmdMtbusb, ServerCmdTopoSubscribe, ServerCmdTopoUnsubscribe
  <2>. QED  BY <1>1, <1>12, <2>1, TopologyStep, MatchingKept
<1>13. ASSUME NEW r \in Requests, ServerCmdMtbusbSpeed(r)  PROVE MInv'
  <2>1. d.alive /\ usb'.present = usb.present
    BY <1>13 DEF ServerCmdMtbusbSpeed
  <2>. QED  BY <1>1, <1>13, <2>1, ServerCmdMtbusbSpeedStep, MatchingKept
<1>14. ASSUME NEW f \in Files, ServerCmdLoadConfig(f)  PROVE MInv'
  <2>1. d.alive /\ usb'.present = usb.present
    BY <1>14 DEF ServerCmdLoadConfig
  <2>. QED  BY <1>1, <1>14, <2>1, ServerCmdLoadConfigStep, MatchingKept
<1>15. CASE UNCHANGED vars
  <2>1. d' = d /\ usb' = usb
    BY <1>15 DEF vars
  <2>. QED  BY <1>1, <2>1 DEF MInv
<1>. QED  BY <1>2, <1>3, <1>4, <1>5, <1>6, <1>7, <1>8, <1>9, <1>10, <1>11,
             <1>12, <1>13, <1>14, <1>15 DEF Next

\* No command has its callbacks in a destroyed object, as long as clients
\* neither delete a module that has commands under way nor change the type of
\* an object: module_delete, load_config and mismatched types leave every
\* pointer valid (main.cpp, loadConfig and moduleGotInfo).
THEOREM NoCallbackDangles ==
    ASSUME Events \cap {"retype", "pending"} = {}
    PROVE  Spec => []NoDeletedModule
<1>1. MInv => NoDeletedModule
  BY BusPlaces DEF MInv, Undeleted, NoDeletedModule
<1>2. Init => MInv
  BY InitMInv
<1>3. MInv /\ [Next]_vars => MInv'
  BY NextMInv
<1>. QED  BY <1>1, <1>2, <1>3, PTL DEF Spec


-----------------------------------------------------------------------------
(* The speeds agree *)

\* Broadcasts that nobody waits for are followed by what somebody waits for.
Ending(s) ==
    (\E c \in ToSet(s.bus) : c.kind \in SpeedCmds) =>
        \E c \in ToSet(s.bus) : c.kind \in SpeedCmds /\ c.who # "nobody"

\* While the modules are told, they have the old or the new speed; then MTB-USB
\* follows them.
Agreeing(s, u) ==
    ~s.speedFailed =>
       /\ \A c \in ToSet(s.bus) :
             /\ c.kind = "BusSpeed" => u.busSpeed \in {u.speed, c.arg}
             /\ c.kind = "UsbSpeed" => u.busSpeed = c.arg
       /\ (\A c \in ToSet(s.bus) : c.kind \notin SpeedCmds) =>
             /\ u.busSpeed = u.speed
             /\ "info" \in s.known => s.speed = u.speed

InTurn(s, u) == OrderedBy(s.bus, Follows) /\ Ending(s) /\ Agreeing(s, u)

VInv == IInv /\ (d.alive => InTurn(d, usb))

\* Steps that leave the speed alone.
LEMMA InTurnKept ==
    ASSUME VInv, d.alive, IInv', Steady(d'),
           usb'.speed = usb.speed, usb'.busSpeed = usb.busSpeed
    PROVE  VInv'
<1> PICK t : t = d'
  OBVIOUS
<1>1. Steady(t) /\ OrderedBy(t.bus, Follows) /\ Ending(d) /\ Agreeing(d, usb)
  BY DEF VInv, InTurn, Steady
<1>2. Ending(t)
  BY <1>1 DEF Ending, Steady
<1>3. Agreeing(t, usb')
  BY <1>1 DEF Agreeing, Steady, SpeedCmds
<1>. QED  BY <1>1, <1>2, <1>3 DEF VInv, InTurn

\* Steps that close the port.
LEMMA InTurnBroken ==
    ASSUME VInv, d.alive, IInv', Broken(d'),
           \/ usb'.speed = usb.speed /\ usb'.busSpeed = usb.busSpeed
           \/ \E c \in ToSet(d.bus) : c.kind \in SpeedCmds /\ c.who # "nobody"
    PROVE  VInv'
<1> PICK t : t = d'
  OBVIOUS
<1> SUFFICES ASSUME t.alive  PROVE InTurn(t, usb')
  BY DEF VInv
<1>1. Broken(t) /\ Ending(d) /\ Agreeing(d, usb)
  BY DEF VInv, InTurn
<1>2. ToSet(t.bus) = {} /\ t.known = {}
  BY <1>1 DEF Broken
<1>3. OrderedBy(t.bus, Follows) /\ Ending(t)
  <2>1. ASSUME NEW i \in DOMAIN t.bus  PROVE FALSE
    <3>1. t.bus[i] \in ToSet(t.bus)
      BY DEF ToSet
    <3>. QED  BY <1>2, <3>1
  <2>2. OrderedBy(t.bus, Follows)
    BY <2>1 DEF OrderedBy
  <2>. QED  BY <1>2, <2>2 DEF Ending
<1>4. Agreeing(t, usb')
  <2> SUFFICES ASSUME ~t.speedFailed
               PROVE  usb'.busSpeed = usb'.speed
    BY <1>2 DEF Agreeing
  <2>1. /\ ~d.speedFailed
        /\ ~\E c \in ToSet(d.bus) : c.kind \in SpeedCmds /\ c.who # "nobody"
    BY <1>1 DEF Broken
  <2>2. usb.busSpeed = usb.speed
    BY <1>1, <2>1 DEF Ending, Agreeing
  <2>. QED  BY <2>1, <2>2
<1>. QED  BY <1>3, <1>4 DEF InTurn

\* What follows the next command of a change of the speed.
LEMMA SpeedIsNext ==
    ASSUME IInv, d.alive, OrderedBy(d.bus, Follows),
           NEW i, IsNext(i), d.bus[i].kind \in SpeedCmds
    PROVE  LET c0 == d.bus[i]
               w == Without(i)
           IN  /\ Ended(c0, w) /\ OrderedBy(w.bus, Follows)
               /\ c0.kind = "BusSpeed" \/ c0.who # "nobody"
               /\ \A x \in ToSet(w.bus) : x.kind \in SpeedCmds =>
                     /\ c0.kind = "BusSpeed" /\ c0.who = "nobody"
                     /\ x.kind = "BusSpeed" /\ x.arg = c0.arg
<1> DEFINE c0 == d.bus[i]
           w == Without(i)
           P == {c \in Commands : c.kind \in SpeedCmds}
<1>1. i \in DOMAIN d.bus /\ d.bus \in Seq(Commands) /\ Shaped(d)
  BY DEF IsNext, IInv, TypeOK, Typed
<1>2. Ended(c0, w)
  BY <1>1, Taken
<1>3. /\ c0 \in Commands /\ c0.to = 0
      /\ c0.kind = "BusSpeed" \/ c0.who # "nobody"
  BY <1>2, CommandKinds, MtbDaemonAssumption DEF Ended, SpeedCmds, Callers
<1>4. \A j \in 1 .. (i - 1) : d.bus[j] \notin P
  BY <1>3, CommandKinds DEF IsNext, SpeedCmds
<1>5. w.bus = RemoveAt(d.bus, i)
  BY <1>1 DEF Without, Shaped, Fields
<1>6. \A x \in ToSet(RemoveAt(d.bus, i)) : x \in P => <<c0, x>> \in Follows
  BY <1>1, <1>4, RemoveAtFirst
<1>7. \A x \in ToSet(w.bus) : x \in Commands
  BY <1>2 DEF Ended
<1>8. ASSUME NEW x \in ToSet(w.bus), x.kind \in SpeedCmds
      PROVE  /\ c0.kind = "BusSpeed" /\ c0.who = "nobody"
             /\ x.kind = "BusSpeed" /\ x.arg = c0.arg
  <2>1. <<c0, x>> \in Follows
    BY <1>5, <1>6, <1>7, <1>8
  <2>. QED  BY <1>8, <2>1 DEF Follows
<1>9. OrderedBy(w.bus, Follows)
  BY <1>2 DEF Ended
<1>. QED  BY <1>2, <1>3, <1>8, <1>9

\* A broadcast that nobody waits for ends, ok or not.
LEMMA NobodyInTurn ==
    ASSUME VInv, d.alive, IInv', NEW i, IsNext(i),
           d.bus[i].kind = "BusSpeed", d.bus[i].who = "nobody",
           d' = Without(i), usb' \in {usb, CarriedOut(d.bus[i])}
    PROVE  VInv'
<1> DEFINE c0 == d.bus[i]
<1> PICK w : w = Without(i)
  OBVIOUS
<1>1. /\ IInv /\ OrderedBy(d.bus, Follows) /\ Ending(d) /\ Agreeing(d, usb)
      /\ UsbTyped(usb)
  BY DEF VInv, InTurn, IInv, TypeOK
<1>2. /\ Ended(c0, w) /\ OrderedBy(w.bus, Follows)
      /\ \A x \in ToSet(w.bus) : x.kind \in SpeedCmds =>
            x.kind = "BusSpeed" /\ x.arg = c0.arg
  BY <1>1, SpeedIsNext DEF SpeedCmds
<1>3. ~d.speedFailed => usb'.busSpeed \in {usb'.speed, c0.arg}
  <2>1. ~d.speedFailed => usb.busSpeed \in {usb.speed, c0.arg}
    BY <1>1, <1>2 DEF Agreeing, Ended
  <2>. QED  BY <1>1, <2>1 DEF CarriedOut, UsbTyped
<1>4. w.speedFailed = d.speedFailed
  BY <1>2 DEF Ended, Same, Fields
<1>5. \E e \in ToSet(w.bus) : e.kind \in SpeedCmds /\ e.who # "nobody"
  BY <1>1, <1>2 DEF Ending, Ended, SpeedCmds
<1>6. Ending(w)
  BY <1>5 DEF Ending
<1> HIDE DEF c0
<1>7. ~w.speedFailed => \A c \in ToSet(w.bus) :
         /\ c.kind = "BusSpeed" => usb'.busSpeed \in {usb'.speed, c.arg}
         /\ c.kind # "UsbSpeed"
  BY <1>2, <1>3, <1>4 DEF SpeedCmds
<1>8. Agreeing(w, usb')
  BY <1>5, <1>7 DEF Agreeing
<1>. QED  BY <1>2, <1>6, <1>8 DEF VInv, InTurn

\* The last broadcast of a change: MTB-USB is told.
LEMMA BusSpeedInTurn ==
    ASSUME VInv, NEW i \in DOMAIN d.bus, UsbAnswers(i),
           d.bus[i].kind = "BusSpeed", d.bus[i].who # "nobody"
    PROVE  VInv'
<1> DEFINE c0 == d.bus[i]
           c == Cmd("UsbSpeed", 0, c0.arg, c0.who)
<1> PICK w : w = Without(i)
  OBVIOUS
<1> PICK t : t = d'
  OBVIOUS
<1>1. /\ IInv /\ d.alive /\ IsNext(i) /\ usb' = CarriedOut(c0)
      /\ UsbTyped(usb) /\ t = Send(w, c) /\ IInv'
  BY UsbAnswersEffect, UsbAnswersStep DEF VInv, UsbAnswers, IInv, TypeOK
<1>2. OrderedBy(d.bus, Follows) /\ Agreeing(d, usb)
  BY <1>1 DEF VInv, InTurn
<1>3. /\ Ended(c0, w) /\ OrderedBy(w.bus, Follows)
      /\ \A x \in ToSet(w.bus) : x.kind \notin SpeedCmds
  BY <1>1, <1>2, SpeedIsNext DEF SpeedCmds
<1>4. /\ c0.arg \in Speeds /\ c0.who \in Requests \cup {"connect"}
      /\ w.bus \in Seq(Commands) /\ Shaped(w)
  BY <1>3, CommandKinds DEF Ended, Typed
<1>5. /\ c \in Commands /\ c.kind = "UsbSpeed" /\ c.arg = c0.arg
      /\ c.who # "nobody"
  BY <1>4, CommandTypes, MtbDaemonAssumption DEF Cmd, Callers
<1>6. ~d.speedFailed => usb'.busSpeed = c0.arg
  BY <1>1, <1>2, <1>3 DEF Agreeing, CarriedOut, UsbTyped, Ended
<1> HIDE DEF c0, c
<1>7. t.bus = Append(w.bus, c) /\ t.speedFailed = d.speedFailed
  BY <1>1, <1>3, <1>4 DEF Send, Shaped, Ended, Same, Fields
<1>8. \A x \in ToSet(w.bus) : <<x, c>> \in Follows
  BY <1>3, <1>5 DEF Follows, Ended
<1>9. OrderedBy(Append(w.bus, c), Follows) /\ ToSet(Append(w.bus, c)) = ToSet(w.bus) \cup {c}
  BY <1>3, <1>4, <1>5, <1>8, AppendOrdered
<1>10. /\ OrderedBy(t.bus, Follows) /\ c \in ToSet(t.bus)
       /\ \A x \in ToSet(t.bus) : x.kind \in SpeedCmds => x = c
  BY <1>3, <1>7, <1>9
<1>11. Ending(t)
  BY <1>5, <1>10 DEF Ending, SpeedCmds
<1>12. Agreeing(t, usb')
  BY <1>5, <1>6, <1>7, <1>10 DEF Agreeing, SpeedCmds
<1>. QED  BY <1>1, <1>10, <1>11, <1>12 DEF VInv, InTurn

\* MTB-USB follows, and the daemon remembers the speed.
LEMMA UsbSpeedInTurn ==
    ASSUME VInv, NEW i \in DOMAIN d.bus, UsbAnswers(i), d.bus[i].kind = "UsbSpeed"
    PROVE  VInv'
<1> DEFINE c0 == d.bus[i]
           m == Cmd("UsbModules", 0, 0, "connect")
<1> PICK w : w = Without(i)
  OBVIOUS
<1> PICK t : t = d'
  OBVIOUS
<1>1. /\ IInv /\ d.alive /\ IsNext(i) /\ usb' = CarriedOut(c0)
      /\ UsbTyped(usb) /\ t = UsbSpeedSet(w, c0.arg, c0.who) /\ IInv'
  BY UsbAnswersEffect, UsbAnswersStep DEF VInv, UsbAnswers, IInv, TypeOK
<1>2. OrderedBy(d.bus, Follows) /\ Agreeing(d, usb)
  BY <1>1 DEF VInv, InTurn
<1>3. /\ Ended(c0, w) /\ OrderedBy(w.bus, Follows)
      /\ \A x \in ToSet(w.bus) : x.kind \notin SpeedCmds
  BY <1>1, <1>2, SpeedIsNext DEF SpeedCmds
<1>4. w.bus \in Seq(Commands) /\ Shaped(w)
  BY <1>3 DEF Ended, Typed
<1>5. m \in Commands /\ m.kind = "UsbModules"
  BY CommandTypes DEF Cmd
<1>6. usb'.speed = c0.arg /\ (~d.speedFailed => usb'.busSpeed = c0.arg)
  BY <1>1, <1>2, <1>3 DEF Agreeing, CarriedOut, UsbTyped, Ended
<1> HIDE DEF c0, m
<1>7. t = IF c0.who = "connect" THEN Send([w EXCEPT !.speed = c0.arg], m)
          ELSE Reply([w EXCEPT !.speed = c0.arg], c0.who, "ok")
  BY <1>1 DEF UsbSpeedSet, MtbUsbProperSpeedSet, m
<1>8. /\ t.bus \in {w.bus, Append(w.bus, m)}
      /\ t.speed = c0.arg /\ t.speedFailed = d.speedFailed
  BY <1>3, <1>4, <1>7 DEF Send, Reply, Shaped, Ended, Same, Fields
<1>9. \A x \in ToSet(w.bus) : <<x, m>> \in Follows
  BY <1>3, <1>5 DEF Follows, Ended, SpeedCmds
<1>10. OrderedBy(Append(w.bus, m), Follows) /\ ToSet(Append(w.bus, m)) = ToSet(w.bus) \cup {m}
  BY <1>3, <1>4, <1>5, <1>9, AppendOrdered
<1>11. /\ OrderedBy(t.bus, Follows)
       /\ \A x \in ToSet(t.bus) : x.kind \notin SpeedCmds
  BY <1>3, <1>5, <1>8, <1>10 DEF SpeedCmds
<1>12. Ending(t)
  BY <1>11 DEF Ending
<1>13. Agreeing(t, usb')
  BY <1>6, <1>8, <1>11 DEF Agreeing, SpeedCmds
<1>. QED  BY <1>1, <1>11, <1>12, <1>13 DEF VInv, InTurn

\* Three broadcasts of speed v, the last of them for w.
LEMMA ThreeInTurn ==
    ASSUME NEW q \in Seq(Commands), OrderedBy(q, Follows),
           \A x \in ToSet(q) : x.kind \notin SpeedCmds,
           NEW n \in Commands, n.kind = "BusSpeed", n.who = "nobody",
           NEW c \in Commands, c.kind = "BusSpeed", c.arg = n.arg
    PROVE  OrderedBy(Append(Append(Append(q, n), n), c), Follows)
<1>1. /\ \A x \in ToSet(q) : x \in Commands /\ <<x, n>> \in Follows /\ <<x, c>> \in Follows
      /\ <<n, n>> \in Follows /\ <<n, c>> \in Follows
  BY DEF Follows, ToSet
<1> DEFINE q1 == Append(q, n)
           q2 == Append(q1, n)
<1>2. q1 \in Seq(Commands) /\ OrderedBy(q1, Follows) /\ ToSet(q1) = ToSet(q) \cup {n}
  <2>1. \A x \in ToSet(q) : <<x, n>> \in Follows
    BY <1>1
  <2>. QED  BY <2>1, AppendOrdered
<1>3. /\ \A x \in ToSet(q1) : <<x, n>> \in Follows
      /\ \A x \in ToSet(q1) : <<x, c>> \in Follows
  BY <1>1, <1>2
<1> HIDE DEF q1
<1>4. q2 \in Seq(Commands) /\ OrderedBy(q2, Follows) /\ ToSet(q2) = ToSet(q1) \cup {n}
  BY <1>2, <1>3, AppendOrdered
<1>5. \A x \in ToSet(q2) : <<x, c>> \in Follows
  BY <1>1, <1>3, <1>4
<1> HIDE DEF q2
<1>6. OrderedBy(Append(q2, c), Follows)
  BY <1>4, <1>5, AppendOrdered
<1>. QED  BY <1>6 DEF q1, q2

\* A change of the speed begins.
LEMMA BeginsInTurn ==
    ASSUME IInv', d.bus \in Seq(Commands), OrderedBy(d.bus, Follows),
           ~d'.speedFailed => usb.busSpeed = usb.speed, usb' = usb,
           NEW q \in Seq(Commands), OrderedBy(q, Follows),
           \A x \in ToSet(q) : x.kind \notin SpeedCmds,
           NEW v \in Speeds, NEW r \in Requests \cup {"connect"},
           LET n == Cmd("BusSpeed", 0, v, "nobody")
               c == Cmd("BusSpeed", 0, v, r)
           IN  /\ d'.bus = Append(Append(Append(q, n), n), c)
               /\ ToSet(d'.bus) = ToSet(q) \cup {n, c}
    PROVE  VInv'
<1> DEFINE n == Cmd("BusSpeed", 0, v, "nobody")
           c == Cmd("BusSpeed", 0, v, r)
<1> PICK t : t = d'
  OBVIOUS
<1>1. /\ t.bus = Append(Append(Append(q, n), n), c)
      /\ ToSet(t.bus) = ToSet(q) \cup {n, c}
  OBVIOUS
<1>2. /\ n \in Commands /\ n.kind = "BusSpeed" /\ n.who = "nobody" /\ n.arg = v
      /\ c \in Commands /\ c.kind = "BusSpeed" /\ c.who = r /\ c.arg = v
      /\ c.who # "nobody"
  BY CommandTypes, MtbDaemonAssumption DEF Cmd, Callers
<1> HIDE DEF n, c
<1>3. OrderedBy(t.bus, Follows)
  BY <1>1, <1>2, ThreeInTurn
<1>4. /\ \A x \in ToSet(t.bus) : x.kind \in SpeedCmds => x \in {n, c}
      /\ c \in ToSet(t.bus)
  BY <1>1
<1>5. Ending(t)
  BY <1>2, <1>4 DEF Ending, SpeedCmds
<1>6. Agreeing(t, usb')
  BY <1>2, <1>4 DEF Agreeing, SpeedCmds
<1>. QED  BY <1>3, <1>5, <1>6 DEF VInv, InTurn

\* The speed becomes known; a file that asks for another one changes it.
LEMMA UsbInfoInTurn ==
    ASSUME VInv, NEW i \in DOMAIN d.bus, UsbAnswers(i), d.bus[i].kind = "UsbInfo"
    PROVE  VInv'
<1> DEFINE c0 == d.bus[i]
           m == Cmd("UsbModules", 0, 0, "connect")
           k == d.known \cup {"info"}
<1> PICK w : w = Without(i)
  OBVIOUS
<1> DEFINE u == [w EXCEPT !.known = @ \cup {"info"}, !.speed = usb.speed]
<1>1. /\ IInv /\ d.alive /\ usb' = CarriedOut(c0) /\ d' = MtbUsbGotInfo(u) /\ IInv'
      /\ UsbTyped(usb) /\ Typed(d) /\ Connecting(d)
  BY UsbAnswersEffect, UsbAnswersStep DEF VInv, UsbAnswers, IInv, TypeOK, Sound
<1>2. OrderedBy(d.bus, Follows) /\ Agreeing(d, usb) /\ usb' = usb
  BY <1>1 DEF VInv, InTurn, CarriedOut
<1>3. Ended(c0, w)
  BY <1>1, Taken
<1>4. /\ "info" \notin d.known /\ c0.who = "connect"
      /\ \A x \in ToSet(d.bus) : x.kind \notin SpeedCmds
  BY <1>1, <1>3, CommandKinds DEF Ended, Connecting
<1>5. /\ OrderedBy(w.bus, Follows) /\ w.bus \in Seq(Commands) /\ Shaped(w)
      /\ OrderedBy(w.bus, Unique)
      /\ \A x \in ToSet(w.bus) : x \in Commands /\ x.kind \notin SpeedCmds
                                 /\ x.who # "connect"
  BY <1>2, <1>3, <1>4 DEF Ended, Typed
<1>6. w.known = d.known
  BY <1>3 DEF Ended, Same, Fields
<1>7. u = [w EXCEPT !.known = k, !.speed = usb.speed]
  BY <1>6
<1>8. "info" \in k /\ k \subseteq {"info", "modules"}
  BY <1>1 DEF Typed
<1> HIDE DEF c0, k, u
<1>9. /\ Shaped(u) /\ Same(w, u, {"known", "speed"})
      /\ u.known = k /\ u.speed = usb.speed /\ u.bus = w.bus
  BY <1>5, <1>7 DEF Shaped, Same, Fields
<1>10. Typed(u) /\ u.open
  BY <1>1, <1>3, <1>8, <1>9 DEF Typed, UsbTyped, Same, Fields, Ended
<1>11. \A x \in ToSet(u.bus) : x.who # "connect"
  BY <1>5, <1>9
<1> PICK t : t = d'
  OBVIOUS
<1>12. /\ Same(u, t, {"bus"})
       /\ \/ /\ ToSet(t.bus) = ToSet(u.bus) \cup {m}
             /\ t.bus = Append(u.bus, m)
          \/ /\ u.fileSpeed \in Speeds
             /\ LET n == Cmd("BusSpeed", 0, u.fileSpeed, "nobody")
                    c == Cmd("BusSpeed", 0, u.fileSpeed, "connect")
                IN  /\ t.bus = Append(Append(Append(u.bus, n), n), c)
                    /\ ToSet(t.bus) = ToSet(u.bus) \cup {n, c}
  BY <1>1, <1>5, <1>8, <1>9, <1>10, <1>11, MtbUsbGotInfoEffect
<1>13. /\ t.speed = usb.speed /\ t.speedFailed = d.speedFailed
  BY <1>3, <1>9, <1>12 DEF Ended, Same, Fields
<1>14. ~t.speedFailed => usb.busSpeed = usb.speed
  BY <1>2, <1>4, <1>13 DEF Agreeing
<1>15. CASE t.bus = Append(u.bus, m) /\ ToSet(t.bus) = ToSet(u.bus) \cup {m}
  <2>1. m \in Commands /\ m.kind = "UsbModules"
    BY CommandTypes DEF Cmd
  <2> HIDE DEF m
  <2>2. \A x \in ToSet(w.bus) : <<x, m>> \in Follows
    BY <1>5, <2>1 DEF Follows
  <2>3. OrderedBy(Append(w.bus, m), Follows)
    BY <1>5, <2>1, <2>2, AppendOrdered
  <2>4. /\ OrderedBy(t.bus, Follows)
        /\ \A x \in ToSet(t.bus) : x.kind \notin SpeedCmds
    BY <1>5, <1>9, <1>15, <2>1, <2>3 DEF SpeedCmds
  <2>5. Ending(t) /\ Agreeing(t, usb')
    BY <1>2, <1>13, <1>14, <2>4 DEF Ending, Agreeing, SpeedCmds
  <2>. QED  BY <1>1, <2>4, <2>5 DEF VInv, InTurn
<1>16. CASE /\ u.fileSpeed \in Speeds
            /\ LET n == Cmd("BusSpeed", 0, u.fileSpeed, "nobody")
                   c == Cmd("BusSpeed", 0, u.fileSpeed, "connect")
               IN  /\ t.bus = Append(Append(Append(u.bus, n), n), c)
                   /\ ToSet(t.bus) = ToSet(u.bus) \cup {n, c}
  <2>1. /\ u.bus \in Seq(Commands) /\ OrderedBy(u.bus, Follows)
        /\ \A x \in ToSet(u.bus) : x.kind \notin SpeedCmds
        /\ d.bus \in Seq(Commands)
    BY <1>1, <1>5, <1>9 DEF Typed
  <2>. QED  BY <1>1, <1>2, <1>14, <1>16, <2>1, BeginsInTurn
<1>. QED  BY <1>12, <1>15, <1>16

\* A request that somebody waits for failed: the change ends here.
LEMMA CallErrorInTurn ==
    ASSUME VInv, NEW i \in DOMAIN d.bus, CmdFails(i), ~Fatal(d.bus[i])
    PROVE  VInv'
<1> DEFINE c0 == d.bus[i]
<1> PICK w : w = Without(i)
  OBVIOUS
<1> PICK t : t = d'
  OBVIOUS
<1>1. /\ IInv /\ d.alive /\ IsNext(i) /\ usb' \in {usb, CarriedOut(c0)}
      /\ t = CallError(w, c0) /\ IInv'
  BY CallErrorStep DEF VInv, CmdFails
<1>2. CASE c0.kind \notin SpeedCmds
  <2>1. usb' = usb
    BY <1>1, <1>2 DEF CarriedOut, SpeedCmds
  <2>2. Steady(d')
    BY <1>1, <1>2, CallErrorStep
  <2>. QED  BY <1>1, <2>1, <2>2, InTurnKept
<1>3. CASE c0.kind \in SpeedCmds
  <2>1. OrderedBy(d.bus, Follows)
    BY <1>1 DEF VInv, InTurn
  <2>2. /\ Ended(c0, w) /\ OrderedBy(w.bus, Follows)
        /\ c0.kind = "BusSpeed" \/ c0.who # "nobody"
        /\ c0.who # "nobody" => \A x \in ToSet(w.bus) : x.kind \notin SpeedCmds
    BY <1>1, <1>3, <2>1, SpeedIsNext
  <2>3. c0.who \in Requests \cup {"connect", "nobody"} /\ c0.who # "deleted"
    BY <1>3, <2>2, CommandKinds, MtbDaemonAssumption DEF Ended, SpeedCmds, Callers
  <2>4. c0.who # "connect"
    BY DEF Fatal
  <2>5. "nobody" \notin Requests
    BY MtbDaemonAssumption DEF Callers
  <2>6. CASE c0.who = "nobody"
    <3>1. t = w
      BY <1>1, <1>3, <2>3, <2>5, <2>6 DEF CallError, SpeedCmds
    <3>. QED  BY <1>1, <2>2, <2>6, <3>1, NobodyInTurn, <1>3 DEF SpeedCmds
  <2>7. CASE c0.who # "nobody"
    <3>1. c0.who \in Requests
      BY <2>3, <2>4, <2>7
    <3>2. t = [Reply(w, c0.who, "error") EXCEPT !.speedFailed = TRUE]
      BY <1>1, <1>3, <2>3, <3>1 DEF CallError, SpeedCmds
    <3>3. Shaped(w)
      BY <2>2 DEF Ended
    <3>4. t.bus = w.bus /\ t.speedFailed
      BY <3>2, <3>3 DEF Reply, Shaped, Fields
    <3>5. OrderedBy(t.bus, Follows) /\ Ending(t) /\ Agreeing(t, usb')
      BY <2>2, <2>7, <3>4 DEF Ending, Agreeing
    <3>. QED  BY <1>1, <3>5 DEF VInv, InTurn
  <2>. QED  BY <2>6, <2>7
<1>. QED  BY <1>2, <1>3

LEMMA FatalInTurn ==
    ASSUME VInv, NEW i \in DOMAIN d.bus, CmdFails(i), Fatal(d.bus[i])
    PROVE  VInv'
<1> DEFINE c0 == d.bus[i]
<1>1. /\ IInv /\ d.alive /\ usb' \in {usb, CarriedOut(c0)}
      /\ IInv' /\ Broken(d') /\ c0 \in ToSet(d.bus)
  BY FatalStep, BusPlaces DEF VInv, CmdFails
<1>2. c0.who = "connect"
  BY DEF Fatal
<1>3. c0.kind \notin SpeedCmds => usb' = usb
  BY <1>1 DEF CarriedOut, SpeedCmds
<1>. QED  BY <1>1, <1>2, <1>3, InTurnBroken

\* A request begins a change only when no other one is under way.
LEMMA ServerCmdMtbusbSpeedInTurn ==
    ASSUME VInv, "overlap" \notin Events, NEW r \in Requests, ServerCmdMtbusbSpeed(r)
    PROVE  VInv'
<1>1. /\ IInv /\ d.alive /\ usb' = usb /\ IInv' /\ ~SpeedChanges(d) /\ Typed(d)
      /\ NewSpeed[r] \in Speeds
  BY ServerCmdMtbusbSpeedStep, MtbDaemonAssumption
     DEF VInv, ServerCmdMtbusbSpeed, IInv, TypeOK
<1>2. OrderedBy(d.bus, Follows) /\ Agreeing(d, usb) /\ d.bus \in Seq(Commands)
  BY <1>1 DEF VInv, InTurn, Typed
<1>3. \A x \in ToSet(d.bus) : x.kind \notin SpeedCmds
  BY <1>1, BusPlaces DEF SpeedChanges
<1> PICK t : t = d'
  OBVIOUS
<1>4. SpeedAsked(r, t)
  BY <1>1, ServerCmdMtbusbSpeedEffect
<1>5. t.speed = d.speed /\ t.known = d.known /\ t.speedFailed = d.speedFailed
  BY <1>4 DEF SpeedAsked, Same, Fields
<1>6. CASE t.bus = d.bus
  <2>1. Steady(d')
    BY <1>5, <1>6, SteadySame
  <2>. QED  BY <1>1, <2>1, InTurnKept
<1>7. CASE LET n == Cmd("BusSpeed", 0, NewSpeed[r], "nobody")
               c == Cmd("BusSpeed", 0, NewSpeed[r], r)
           IN  /\ ToSet(t.bus) = ToSet(d.bus) \cup {n, c}
               /\ t.bus = Append(Append(Append(d.bus, n), n), c)
  <2>1. ~t.speedFailed => usb.busSpeed = usb.speed
    BY <1>2, <1>3, <1>5 DEF Agreeing
  <2>. QED  BY <1>1, <1>2, <1>3, <1>7, <2>1, BeginsInTurn
<1>. QED  BY <1>4, <1>6, <1>7 DEF SpeedAsked

LEMMA InitVInv == Init => VInv
<1> SUFFICES ASSUME Init  PROVE VInv
  OBVIOUS
<1>1. IInv
  BY InitIInv
<1>2. d.bus = <<>> /\ d.known = {}
  BY DEF Init
<1>3. usb.busSpeed = usb.speed
  BY DEF Init
<1>4. ToSet(d.bus) = {} /\ OrderedBy(d.bus, Follows)
  BY <1>2 DEF ToSet, OrderedBy
<1>. QED  BY <1>1, <1>2, <1>3, <1>4 DEF VInv, InTurn, Ending, Agreeing

LEMMA NextVInv ==
    ASSUME "overlap" \notin Events
    PROVE  VInv /\ [Next]_vars => VInv'
<1> SUFFICES ASSUME VInv, [Next]_vars  PROVE VInv'
  OBVIOUS
<1>1. IInv /\ UsbTyped(usb) /\ IInv'
  BY NextIInv DEF VInv, IInv, TypeOK
<1>2. ASSUME NEW i \in DOMAIN d.bus, UsbAnswers(i)  PROVE VInv'
  <2>1. d.alive /\ IsNext(i) /\ usb' = CarriedOut(d.bus[i])
    BY <1>2 DEF UsbAnswers
  <2>2. CASE d.bus[i].kind = "UsbModules"
    <3>1. usb' = usb
      BY <2>1, <2>2 DEF CarriedOut
    <3>. QED  BY <1>1, <1>2, <2>1, <2>2, <3>1, UsbModulesStep, InTurnKept
  <2>3. CASE d.bus[i].kind = "BusSpeed" /\ d.bus[i].who = "nobody"
    <3>1. d' = Without(i)
      BY <1>1, <1>2, <2>3, UsbAnswersEffect
    <3>. QED  BY <1>1, <2>1, <2>3, <3>1, NobodyInTurn
  <2>4. d.bus[i].kind \in {"UsbInfo", "UsbModules", "BusSpeed", "UsbSpeed"}
    BY <1>1, <1>2, UsbAnswersEffect
  <2>. QED  BY <1>2, <2>2, <2>3, <2>4, UsbInfoInTurn, BusSpeedInTurn, UsbSpeedInTurn
<1>3. ASSUME NEW i \in DOMAIN d.bus, ModuleInfo(i) \/ InputsRead(i)  PROVE VInv'
  <2>1. d.alive /\ usb' = usb
    BY <1>3 DEF ModuleInfo, InputsRead
  <2>. QED  BY <1>1, <1>3, <2>1, ModuleInfoStep, InputsReadStep, InTurnKept
<1>4. ASSUME NEW i \in DOMAIN d.bus, CmdFails(i)  PROVE VInv'
  BY <1>4, FatalInTurn, CallErrorInTurn
<1>5. ASSUME TReconnectTick \/ TReactivateTick \/ NewTimer \/ FailTimer
      PROVE  VInv'
  <2>1. d.alive /\ usb' = usb
    BY <1>5 DEF TReconnectTick, TReactivateTick, NewTimer, FailTimer
  <2>2. Steady(d')
    BY <1>1, <1>5, TReconnectTickStep, TReactivateTickStep, TimerStep
  <2>. QED  BY <1>1, <2>1, <2>2, InTurnKept
<1>6. ASSUME NEW a \in Addr, NEW n \in 1 .. ATTEMPTS, Retry(a, n)  PROVE VInv'
  <2>1. d.alive /\ usb' = usb
    BY <1>6 DEF Retry
  <2>. QED  BY <1>1, <1>6, <2>1, RetryStep, InTurnKept
<1>7. ASSUME NEW a \in Addr,
             NewModule(a) \/ ModuleFailed(a) \/ ServerCmdModuleDelete(a)
      PROVE  VInv'
  <2>1. d.alive /\ usb'.speed = usb.speed /\ usb'.busSpeed = usb.busSpeed
    BY <1>1, <1>7 DEF NewModule, ModuleFailed, ServerCmdModuleDelete, UsbTyped
  <2>2. Steady(d')
    BY <1>1, <1>7, NewModuleStep, ModuleFailedStep, ServerCmdModuleDeleteStep
  <2>. QED  BY <1>1, <2>1, <2>2, InTurnKept
<1>8. ASSUME NEW a \in Addr, NEW type \in Types, ServerCmdModuleSetConfig(a, type)
      PROVE  VInv'
  <2>1. d.alive /\ usb' = usb
    BY <1>8 DEF ServerCmdModuleSetConfig
  <2>. QED  BY <1>1, <1>8, <2>1, ServerCmdModuleSetConfigStep, InTurnKept
<1>9. ASSUME NEW a \in Addr, NEW type \in Types \cup {None}, Exchange(a, type)
      PROVE  VInv'
  <2>1. /\ d.alive /\ d' = d
        /\ usb'.speed = usb.speed /\ usb'.busSpeed = usb.busSpeed
    BY <1>1, <1>9 DEF Exchange, UsbTyped
  <2>. QED  BY <1>1, <2>1, SteadySame, InTurnKept
<1>10. ASSUME SpHandleError  PROVE VInv'
  <2>1. d.alive /\ usb' = usb
    BY <1>10 DEF SpHandleError
  <2>. QED  BY <1>1, <1>10, <2>1, SpHandleErrorStep, InTurnBroken
<1>11. ASSUME NEW c \in Clients,
              \/ ServerCmdMtbusb(c) \/ ServerCmdTopoSubscribe(c)
              \/ ServerCmdTopoUnsubscribe(c)
       PROVE  VInv'
  <2>1. d.alive /\ usb' = usb
    BY <1>11 DEF ServerCmdMtbusb, ServerCmdTopoSubscribe, ServerCmdTopoUnsubscribe
  <2>. QED  BY <1>1, <1>11, <2>1, TopologyStep, InTurnKept
<1>12. ASSUME NEW r \in Requests, ServerCmdMtbusbSpeed(r)  PROVE VInv'
  BY <1>12, ServerCmdMtbusbSpeedInTurn
<1>13. ASSUME NEW f \in Files, ServerCmdLoadConfig(f)  PROVE VInv'
  <2>1. d.alive /\ usb' = usb
    BY <1>13 DEF ServerCmdLoadConfig
  <2>. QED  BY <1>1, <1>13, <2>1, ServerCmdLoadConfigStep, InTurnKept
<1>14. CASE UNCHANGED vars
  <2>1. d' = d /\ usb' = usb
    BY <1>14 DEF vars
  <2>. QED  BY <1>1, <2>1 DEF VInv
<1>. QED  BY <1>2, <1>3, <1>4, <1>5, <1>6, <1>7, <1>8, <1>9, <1>10, <1>11,
             <1>12, <1>13, <1>14 DEF Next

\* Unless clients change the speed again before a change ended: when no change
\* is under way and none failed, the modules, MTB-USB and the daemon have one
\* speed, also after the port closed and a file asked for another speed
\* (MtbUsb::changeSpeed, mtbUsbGotInfo).
THEOREM SpeedsStayTogether ==
    ASSUME "overlap" \notin Events
    PROVE  Spec => []SpeedsAgree
<1>1. VInv => SpeedsAgree
  <2> SUFFICES ASSUME VInv, d.alive, ~d.speedFailed, ~SpeedChanges(d)
               PROVE  /\ usb.busSpeed = usb.speed
                      /\ "info" \in d.known => d.speed = usb.speed
    BY DEF SpeedsAgree
  <2>1. \A c \in ToSet(d.bus) : c.kind \notin SpeedCmds
    BY BusPlaces DEF SpeedChanges
  <2>. QED  BY <2>1 DEF VInv, InTurn, Agreeing
<1>2. Init => VInv
  BY InitVInv
<1>3. VInv /\ [Next]_vars => VInv'
  BY NextVInv
<1>. QED  BY <1>1, <1>2, <1>3, PTL DEF Spec
=============================================================================
