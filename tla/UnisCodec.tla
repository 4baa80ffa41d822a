------------------------------ MODULE UnisCodec ------------------------------
(***************************************************************************)
(* The data of MTB-UNIS (struct MtbUnisConfig and the conversions of class *)
(* MtbUnis): 16 outputs and 6 servos of two outputs each.                  *)
(***************************************************************************)
EXTENDS OutputBytes

UNIS_OUT_CNT == 28
UNIS_IN_CNT  == 16
UNIS_SERVO_CNT == 6

\* The initialiser {100, } of servoSpeed sets its first element only.
DefaultConfig ==
  [outputsSafe      |-> [i \in 1 .. UNIS_OUT_CNT |-> 0],
   inputsDelay      |-> [i \in 1 .. UNIS_IN_CNT |-> 0],
   servoEnabledMask |-> 0,
   servoPosition    |-> [i \in 1 .. 2 * UNIS_SERVO_CNT |-> IF i % 2 = 1 THEN 50 ELSE 100],
   servoSpeed       |-> [i \in 1 .. UNIS_SERVO_CNT |-> IF i = 1 THEN 100 ELSE 0],
   servoInputMap    |-> [i \in 1 .. UNIS_SERVO_CNT |-> 2 * i - 1]]

\* The text of the two conversions is that of MTB-UNI.
unisOutputToByte(json) == jsonOutputToByte(json)
outputsToJson(outputs) == [i \in DOMAIN outputs |-> outputToJson(outputs[i])]

\* 4 bytes of mask, 4 bytes of plain states, both low byte first, then full bytes.
mtbBusOutputsData(outputs) ==
  LittleEndian(FullOutputs(outputs), 4) \o LittleEndian(PlainOn(outputs), 4)
    \o FullBytes(outputs)

\* memory is what the uninitialised result holds.
moduleOutputsData(data, memory) ==
  IF Len(data) < 8 THEN memory
  ELSE OutputsFrom(OnBits(SubSeq(data, 1, 4)), OnBits(SubSeq(data, 5, 8)),
                   SubSeq(data, 9, Len(data)), memory)

serializeForMtbUsb(c) ==
  c.outputsSafe \o DelayBytes(c.inputsDelay) \o <<c.servoEnabledMask % 64>>
    \o c.servoPosition \o c.servoSpeed \o c.servoInputMap

fromMtbUsb(data) ==
  IF Len(data) < 61 THEN DefaultConfig
  ELSE [outputsSafe      |-> SubSeq(data, 1, 28),
        inputsDelay      |-> [i \in 1 .. UNIS_IN_CNT |-> Nibble(data[29 + (i - 1) \div 2], i - 1)],
        servoEnabledMask |-> data[37],
        servoPosition    |-> SubSeq(data, 38, 49),
        servoSpeed       |-> SubSeq(data, 50, 55),
        servoInputMap    |-> SubSeq(data, 56, 61)]

configJson(c) ==
  [outputsSafe      |-> outputsToJson(c.outputsSafe),
   inputsDelay      |-> [i \in 1 .. UNIS_IN_CNT |-> 10 * c.inputsDelay[i]],
   servoEnabledMask |-> c.servoEnabledMask,
   servoPosition    |-> c.servoPosition,
   servoSpeed       |-> c.servoSpeed,
   servoInputMap    |-> c.servoInputMap]

\* The configurations clients can ask for: of any length, with any values.
ConfigRequest ==
  [outputsSafe : Seq(OutputJson), inputsDelay : Seq(Int), servoEnabledMask : Int,
   servoPosition : Seq(Int), servoSpeed : Seq(Int), servoInputMap : Seq(Int)]

\* The values of servos are cut to a byte; files of older versions lack servoInputMap.
fromJson(json) ==
  LET safe   == [i \in DOMAIN json.outputsSafe |-> unisOutputToByte(json.outputsSafe[i])]
      delay  == [i \in DOMAIN json.inputsDelay |-> DelayOf(json.inputsDelay[i])]
      Cut(s) == [i \in DOMAIN s |-> s[i] % 256]
  IN  IF \/ Len(safe) # UNIS_OUT_CNT \/ Len(delay) # UNIS_IN_CNT
         \/ Len(json.servoPosition) # 2 * UNIS_SERVO_CNT
         \/ Len(json.servoSpeed) # UNIS_SERVO_CNT
         \/ Len(json.servoInputMap) \notin {0, UNIS_SERVO_CNT}
         \/ \E i \in DOMAIN safe : safe[i] = JsonError
         \/ \E i \in DOMAIN delay : delay[i] = JsonError
        THEN {}
        ELSE {[outputsSafe |-> safe, inputsDelay |-> delay,
               servoEnabledMask |-> json.servoEnabledMask % 256,
               servoPosition |-> Cut(json.servoPosition),
               servoSpeed    |-> Cut(json.servoSpeed),
               servoInputMap |-> IF json.servoInputMap = <<>> THEN DefaultConfig.servoInputMap
                                 ELSE Cut(json.servoInputMap)]}
=============================================================================
