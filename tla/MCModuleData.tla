--------------------------- MODULE MCModuleData ---------------------------
(* Instances of ModuleData: a few configurations, outputs and firmwares, *)
(* each with values in the first, an inner and the last place.           *)
EXTENDS ModuleData, TLC

Plain(v) == [type |-> "plain", value |-> v]
SCom(v)  == [type |-> "s-com", value |-> v]
Flick(v) == [type |-> "flicker", value |-> v]

\* n outputs: special ones at some places, the others plain and off.
Places(n, special) == [i \in 1 .. n |-> IF i \in DOMAIN special THEN special[i] ELSE Plain(0)]
Delays(a, b, c) == [i \in 1 .. 16 |-> IF i = 1 THEN a ELSE IF i = 8 THEN b ELSE IF i = 16 THEN c ELSE 0]

SafeA(n) == Places(n, 1 :> SCom(127) @@ 9 :> Flick(66) @@ n :> Plain(1))
SafeB(n) == Places(n, 2 :> Plain(1) @@ 8 :> SCom(0) @@ n :> Flick(60))

UniJson(safe, delay, irs) == [outputsSafe |-> safe, inputsDelay |-> delay, irs |-> irs]
UnisJson(safe, delay, mask, base, map) ==
  [outputsSafe |-> safe, inputsDelay |-> delay, servoEnabledMask |-> mask,
   servoPosition |-> [i \in 1 .. 12 |-> base + i], servoSpeed |-> [i \in 1 .. 6 |-> base - i],
   servoInputMap |-> map]

MCConfigRequests ==
  ("UNI" :> {UniJson(SafeA(16), Delays(150, 75, 0), <<>>), UniJson(SafeB(16), Delays(0, -5, 10), <<>>),
             UniJson(SafeB(16), Delays(160, 0, 0), <<>>)})
  @@ ("UNI-IR" :> {UniJson(SafeA(16), Delays(10, 150, 70), [i \in 1 .. 16 |-> i \in {1, 9, 16}])})
  @@ ("UNIS" :> {UnisJson(SafeA(28), Delays(150, 0, 80), 37, 250, <<>>),
                 UnisJson(SafeB(28), Delays(0, 30, 0), 200, 20, <<0, 0, 5, 300, 9, 1>>),
                 UnisJson([SafeB(28) EXCEPT ![20] = Flick(320)], Delays(0, 0, 0), 0, 6, <<>>)})
  @@ ("LED" :> {[outputsSafe |-> [i \in 1 .. 32 |-> i \in {1, 8, 17, 32}],
                 brightness |-> [i \in 1 .. 32 |-> 8 * i]],
                [outputsSafe |-> [i \in 1 .. 32 |-> i % 2 = 0], brightness |-> [i \in 1 .. 32 |-> 40 - i]]})

MCOutputRequests ==
  [k \in {"UNI", "UNI-IR", "UNIS", "LED"} |->
     CASE k = "LED"  -> {(1 :> TRUE @@ 9 :> FALSE), (16 :> TRUE @@ 32 :> FALSE)}
       [] k = "UNIS" -> {(1 :> Plain(1) @@ 16 :> Flick(600)), (28 :> SCom(5) @@ 17 :> Plain(1)),
                         (1 :> Plain(2))}
       [] OTHER      -> {(1 :> Plain(1) @@ 9 :> Flick(33)), (16 :> SCom(5) @@ 8 :> Plain(1)),
                         (3 :> SCom(128))}]

\* A byte in the middle of a block, a line across two blocks, pages apart.
Region(a, bytes) == [start |-> a, data |-> bytes]
MCFirmwares == {{Region(0, <<1, 2, 3, 4, 5>>), Region(5, <<6>>)}, {Region(3, <<7, 8>>), Region(25, <<9>>)}}

MCBlocksPerPage == "UNI" :> 4 @@ "UNI-IR" :> 2 @@ "UNIS" :> 4 @@ "LED" :> 2
=============================================================================
