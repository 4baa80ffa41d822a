------------------------------ MODULE UniCodec ------------------------------
(***************************************************************************)
(* The data of MTB-UNI (struct MtbUniConfig and the conversions of class   *)
(* MtbUni): configuration and outputs between JSON, the memory of the      *)
(* daemon and the bytes on MTBbus.                                         *)
(***************************************************************************)
EXTENDS OutputBytes

UNI_IO_CNT == 16

DefaultConfig == [outputsSafe |-> [i \in 1 .. 16 |-> 0],
                  inputsDelay |-> [i \in 1 .. 16 |-> 0],
                  irs         |-> 0]

\* Mutant: the low bytes first.
mtbBusOutputsDataLowFirst(outputs) ==
  LittleEndian(FullOutputs(outputs), 2) \o LittleEndian(PlainOn(outputs), 2)
    \o FullBytes(outputs)

\* 2 bytes of mask, 2 bytes of plain states, both high byte first, then full bytes.
mtbBusOutputsData(outputs) ==
  Reverse(LittleEndian(FullOutputs(outputs), 2))
    \o Reverse(LittleEndian(PlainOn(outputs), 2))
    \o FullBytes(outputs)

\* memory is what the uninitialised result holds.
moduleOutputsData(data, memory) ==
  IF Len(data) < 4 THEN memory
  ELSE OutputsFrom(OnBits(<<data[2], data[1]>>), OnBits(<<data[4], data[3]>>),
                   SubSeq(data, 5, Len(data)), memory)

outputsToJson(outputs) == [i \in DOMAIN outputs |-> outputToJson(outputs[i])]

serializeForMtbUsb(c, withIrs) ==
  c.outputsSafe \o DelayBytes(c.inputsDelay)
    \o (IF withIrs THEN <<c.irs \div 256, c.irs % 256>> ELSE <<>>)

\* The delays are read where the safe outputs are: the index lacks the offset of 16.
inputsDelayFrom(data) ==
  [i \in 1 .. UNI_IO_CNT |-> Nibble(data[1 + (i - 1) \div 2], i - 1)]

fromMtbUsb(data) ==
  IF Len(data) < 24 THEN DefaultConfig
  ELSE [outputsSafe |-> SubSeq(data, 1, UNI_IO_CNT),
        inputsDelay |-> inputsDelayFrom(data),
        irs         |-> IF Len(data) >= 26 THEN 256 * data[25] + data[26] ELSE 0]

\* The form in the file of the daemon; irs only for modules with IR.
configJson(c, withIrs) ==
  [outputsSafe |-> outputsToJson(c.outputsSafe),
   inputsDelay |-> [i \in 1 .. UNI_IO_CNT |-> 10 * c.inputsDelay[i]],
   irs         |-> IF withIrs THEN [i \in 1 .. UNI_IO_CNT |-> Bit(c.irs, i - 1) = 1] ELSE <<>>]

\* The configurations clients can ask for: of any length, with any values.
ConfigRequest == [outputsSafe : Seq(OutputJson), inputsDelay : Seq(Int), irs : Seq(BOOLEAN)]

\* The configurations a JSON gives: one, or none when it is refused.
fromJson(json) ==
  LET safe  == [i \in DOMAIN json.outputsSafe |-> jsonOutputToByte(json.outputsSafe[i])]
      delay == [i \in DOMAIN json.inputsDelay |-> DelayOf(json.inputsDelay[i])]
      irs   == LittleEndian({i \in 0 .. Len(json.irs) - 1 : json.irs[i + 1]}, 2)
  IN  IF \/ Len(safe) # UNI_IO_CNT \/ Len(delay) # UNI_IO_CNT
         \/ Len(json.irs) \notin {0, UNI_IO_CNT}
         \/ \E i \in DOMAIN safe : JsonError \in {safe[i], delay[i]}
        THEN {}
        ELSE {[outputsSafe |-> safe, inputsDelay |-> delay, irs |-> irs[1] + 256 * irs[2]]}
=============================================================================
