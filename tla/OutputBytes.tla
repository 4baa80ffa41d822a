---------------------------- MODULE OutputBytes ----------------------------
(***************************************************************************)
(* What the codecs of the modules share: bits of bytes, the byte an output *)
(* is stored as and its form in JSON.  An output is plain (0 or 1), an     *)
(* S-COM aspect (bit 7 and a value of 7 bits) or flickering (bit 6 and a   *)
(* code).  Index i of an array of the program is position i + 1 here.      *)
(***************************************************************************)
EXTENDS Integers, FiniteSetsExt, SequencesExt

Byte == 0 .. 255

Bit(n, i) == (n \div 2^i) % 2

\* The n bytes in which exactly the bits of S are on, the lowest byte first.
LittleEndian(S, n) ==
  [k \in 1 .. n |-> MapThenSumSet(LAMBDA i : 2^(i % 8), {i \in S : i \div 8 = k - 1})]

OnBits(bytes) == {i \in 0 .. 8 * Len(bytes) - 1 : Bit(bytes[1 + i \div 8], i % 8) = 1}

Nibble(byte, i) == IF i % 2 = 0 THEN byte % 16 ELSE byte \div 16

\* What stands for a JsonParseError where a byte is expected.
JsonError == -1

FlickerPerMin == <<60, 120, 180, 240, 300, 600, 33, 66>>

flickPerMinToMtbUniValue(flickPerMin) ==
  IF \E c \in DOMAIN FlickerPerMin : FlickerPerMin[c] = flickPerMin
    THEN CHOOSE c \in DOMAIN FlickerPerMin : FlickerPerMin[c] = flickPerMin
    ELSE 0

flickMtbUniToPerMin(code) == IF code \in DOMAIN FlickerPerMin THEN FlickerPerMin[code] ELSE 0

\* The outputs clients can name; the value of one that flickers is its frequency.
OutputJson == [type : {"plain", "s-com", "flicker"}, value : Int]

\* The byte of an output given in JSON.
jsonOutputToByte(json) ==
  CASE json.type = "plain" /\ json.value \in {0, 1}        -> json.value
    [] json.type = "s-com" /\ json.value \in 0 .. 127      -> 128 + json.value
    [] json.type = "flicker"
         /\ flickPerMinToMtbUniValue(json.value) # 0       -> 64 + flickPerMinToMtbUniValue(json.value)
    [] OTHER                                               -> JsonError

\* Mutant: only 3 bits of the code of the frequency are kept.
outputToJsonNarrow(byte) ==
  CASE Bit(byte, 7) = 1 -> [type |-> "s-com", value |-> byte % 128]
    [] Bit(byte, 7) = 0 /\ Bit(byte, 6) = 1
                        -> [type |-> "flicker", value |-> flickMtbUniToPerMin(byte % 8)]
    [] OTHER            -> [type |-> "plain", value |-> byte % 2]

\* The JSON of an output; bit 7 wins over bit 6, other bits of a plain output are lost.
outputToJson(byte) ==
  CASE Bit(byte, 7) = 1 -> [type |-> "s-com", value |-> byte % 128]
    [] Bit(byte, 7) = 0 /\ Bit(byte, 6) = 1
                        -> [type |-> "flicker", value |-> flickMtbUniToPerMin(byte % 16)]
    [] OTHER            -> [type |-> "plain", value |-> byte % 2]

\* Outputs (counted from 0) that do not fit in one bit and are sent in a byte of their own.
IsFull(byte) == byte >= 64
FullOutputs(outputs) == {i \in 0 .. Len(outputs) - 1 : IsFull(outputs[i + 1])}
PlainOn(outputs) == {i \in 0 .. Len(outputs) - 1 : outputs[i + 1] \in 1 .. 63}

\* The full bytes, in the order of their outputs.
Below(S, i) == Cardinality({h \in S : h < i})
FullBytes(outputs) ==
  LET full == FullOutputs(outputs)
  IN  [j \in 1 .. Cardinality(full) |->
         outputs[1 + CHOOSE i \in full : Below(full, i) = j - 1]]

\* n outputs out of their mask, their plain states and the full bytes that follow.
\* A full byte that is missing leaves the output as the memory of the result was.
OutputsFrom(mask, plain, fullBytes, memory) ==
  [k \in DOMAIN memory |->
     LET j == Below(mask, k)
     IN  IF (k - 1) \notin mask THEN IF (k - 1) \in plain THEN 1 ELSE 0
         ELSE IF j <= Len(fullBytes) THEN fullBytes[j] ELSE memory[k]]

\* Mutant: the first of two delays in the high nibble.
DelayBytesSwapped(inputsDelay) ==
  [i \in 1 .. Len(inputsDelay) \div 2 |->
     16 * Min({inputsDelay[2 * i - 1], 15}) + Min({inputsDelay[2 * i], 15})]

\* The delays of inputs, two in a byte; the JSON gives seconds, here in hundredths.
DelayBytes(inputsDelay) ==
  [i \in 1 .. Len(inputsDelay) \div 2 |->
     Min({inputsDelay[2 * i - 1], 15}) + 16 * Min({inputsDelay[2 * i], 15})]

\* The delay of a JSON value truncated to tenths (towards 0), or JsonError.
DelayOf(hundredths) ==
  LET value == IF hundredths >= 0 THEN hundredths \div 10 ELSE -((-hundredths) \div 10)
  IN  IF value \in 0 .. 15 THEN value ELSE JsonError
=============================================================================
