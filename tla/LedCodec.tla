------------------------------ MODULE LedCodec ------------------------------
(***************************************************************************)
(* The data of MTB-LED (struct MtbLedConfig and the conversions of class   *)
(* MtbLed): 32 outputs that are on or off, each with its brightness.       *)
(***************************************************************************)
EXTENDS OutputBytes

LED_IO_CNT == 32

\* The initialiser {100, } of brightness sets its first element only.
DefaultConfig == [outputsSafe |-> [i \in 1 .. LED_IO_CNT |-> FALSE],
                  brightness  |-> [i \in 1 .. LED_IO_CNT |-> IF i = 1 THEN 100 ELSE 0]]

ioToMtb(state) == LittleEndian({i \in 0 .. LED_IO_CNT - 1 : state[i + 1]}, 4)

mtbDataToIo(data) ==
  [i \in 1 .. LED_IO_CNT |-> Len(data) >= 4 /\ (i - 1) \in OnBits(SubSeq(data, 1, 4))]

\* Field "full" of the JSON; "packed" holds the same bits.
ioStateToJson(state) == [i \in 1 .. LED_IO_CNT |-> state[i]]

serializeForMtbUsb(c) == ioToMtb(c.outputsSafe) \o c.brightness

fromMtbUsb(data) ==
  IF Len(data) < LED_IO_CNT + 4 THEN DefaultConfig
  ELSE [outputsSafe |-> mtbDataToIo(data),
        brightness  |-> SubSeq(data, 5, LED_IO_CNT + 4)]

configJson(c) == c

\* The configurations clients can ask for: of any length, with any brightness.
ConfigRequest == [outputsSafe : Seq(BOOLEAN), brightness : Seq(Int)]

fromJson(json) ==
  IF Len(json.outputsSafe) # LED_IO_CNT \/ Len(json.brightness) # LED_IO_CNT THEN {}
  ELSE {[outputsSafe |-> json.outputsSafe,
         brightness  |-> [i \in 1 .. LED_IO_CNT |-> json.brightness[i] % 256]]}
=============================================================================
