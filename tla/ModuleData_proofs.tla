------------------------- MODULE ModuleData_proofs -------------------------
(***************************************************************************)
(* Proofs about ModuleData.  For any firmware, sizes of blocks and pages:  *)
(* what the flash of a module holds after an upgrade.  For any requests:   *)
(* the codecs of the three classes of modules lose nothing, so that        *)
(* configurations survive the module and the file, and outputs are shown   *)
(* as they were asked for.                                                 *)
(***************************************************************************)
EXTENDS ModuleData, SequenceFacts, OutputBytes, TLAPS

-----------------------------------------------------------------------------
(* Division *)

LEMMA DivMod ==
    ASSUME NEW a \in Nat, NEW b \in Nat \ {0}
    PROVE  /\ a \div b \in Nat /\ a % b \in 0 .. b - 1
           /\ a = ((a \div b) * b) + (a % b)
OBVIOUS

LEMMA DivUnique ==
    ASSUME NEW b \in Nat \ {0}, NEW q \in Nat, NEW r \in 0 .. b - 1
    PROVE  ((q * b) + r) \div b = q /\ ((q * b) + r) % b = r
OBVIOUS

\* What is divided by b and then by n is divided by their product.
LEMMA DivDiv ==
    ASSUME NEW a \in Nat, NEW b \in Nat \ {0}, NEW n \in Nat \ {0}
    PROVE  a \div (b * n) = (a \div b) \div n
<1> DEFINE q == a \div b
           p == q \div n
           r == a % b
           s == q % n
           t == (s * b) + r
<1>1. q \in Nat /\ r \in 0 .. b - 1 /\ a = (q * b) + r
  BY DivMod
<1>2. p \in Nat /\ s \in 0 .. n - 1 /\ q = (p * n) + s
  BY <1>1, DivMod
<1> HIDE DEF q, p, r, s
<1>3. a = (p * (b * n)) + t
  <2>1. ((p * n) + s) * b = (p * (b * n)) + (s * b)
    BY <1>2
  <2>2. q * b = (p * (b * n)) + (s * b)
    BY <1>2, <2>1
  <2>3. p * (b * n) \in Nat /\ s * b \in Nat
    BY <1>2
  <2>. QED  BY <1>1, <2>2, <2>3
<1>4. t \in 0 .. (b * n) - 1
  <2>1. s * b \in Nat /\ s * b <= (n - 1) * b
    BY <1>2
  <2>2. (n - 1) * b = (b * n) - b /\ b * n \in Nat
    OBVIOUS
  <2>. QED  BY <1>1, <2>1, <2>2
<1>5. b * n \in Nat \ {0}
  OBVIOUS
<1> HIDE DEF t
<1>. QED  BY <1>2, <1>3, <1>4, <1>5, DivUnique DEF p, q

\* Block b is in page p exactly if it lies between the first blocks of p and p + 1.
LEMMA InPage ==
    ASSUME NEW b \in Nat, NEW n \in Nat \ {0}, NEW p \in Nat
    PROVE  b \div n = p <=> b \in p * n .. (p * n) + (n - 1)
<1>1. ASSUME b \div n = p PROVE b \in p * n .. (p * n) + (n - 1)
  <2>1. b % n \in 0 .. n - 1 /\ b = (p * n) + (b % n)
    BY <1>1, DivMod
  <2>2. p * n \in Nat
    OBVIOUS
  <2>. QED  BY <2>1, <2>2
<1>2. ASSUME b \in p * n .. (p * n) + (n - 1) PROVE b \div n = p
  <2> DEFINE r == b - (p * n)
  <2>1. p * n \in Nat
    OBVIOUS
  <2>2. r \in 0 .. n - 1 /\ b = (p * n) + r
    BY <1>2, <2>1
  <2> HIDE DEF r
  <2>. QED  BY <2>2, DivUnique
<1>. QED  BY <1>1, <1>2

-----------------------------------------------------------------------------
(* The invariant *)

Addresses == 0 .. ADDRESSES - 1
N == BlocksPerPage[kind]

\* Firmware of whole pages of n blocks, all of them in the flash.
WholePages(fw, n) ==
    \A b \in DOMAIN fw :
        /\ b \in Nat /\ b * BLOCK_SIZE + BLOCK_SIZE <= ADDRESSES
        /\ \A c \in Nat : c \div n = b \div n => c \in DOMAIN fw

ImageOfData ==
    \A a \in Addresses : a \div BLOCK_SIZE \in DOMAIN data
        => image[a] = data[a \div BLOCK_SIZE][a % BLOCK_SIZE]

WritesInOrder ==
    /\ toWrite \subseteq DOMAIN data
    /\ \A b \in toWrite, c \in DOMAIN data : b < c => c \in toWrite

\* The module holds the blocks of a page that were sent before block b, the next one.
PageGathered ==
    \A b \in toWrite : (\A c \in toWrite : b <= c)
        => page = [i \in 1 .. (b % N) |-> data[(b - (b % N)) + (i - 1)]]

\* Pages with nothing left to write are as they should be, those no firmware is in too.
PagesWritten ==
    \A a \in Addresses :
        (\A b \in toWrite : b \div N # (a \div BLOCK_SIZE) \div N) => flash[a] = image[a]

Upgrading ==
    /\ ~active => toWrite = {}
    /\ WholePages(data, N) /\ ImageOfData
    /\ WritesInOrder /\ PageGathered /\ PagesWritten

\* flash and image are functions over all addresses.
Shape ==
    /\ kind \in Kinds
    /\ DOMAIN flash = Addresses /\ flash = [a \in Addresses |-> flash[a]]
    /\ DOMAIN image = Addresses /\ image = [a \in Addresses |-> image[a]]

FwInv == Shape /\ IF fwUpgrading THEN Upgrading ELSE flash = image

\* Nothing is left to write: the flash is what it should be.
LEMMA AllWritten ==
    ASSUME Shape, PagesWritten, toWrite = {}
    PROVE  flash = image
<1>1. \A a \in Addresses : flash[a] = image[a]
  BY DEF PagesWritten
<1>. QED  BY <1>1 DEF Shape

-----------------------------------------------------------------------------
(* The beginning of an upgrade *)

LEMMA Sizes ==
    ASSUME kind \in Kinds
    PROVE  /\ BLOCK_SIZE \in Nat \ {0} /\ N \in Nat \ {0} /\ ADDRESSES \in Nat \ {0}
           /\ BLOCK_SIZE * N \in Nat \ {0}
           /\ ADDRESSES % (BLOCK_SIZE * N) = 0
<1>1. BLOCK_SIZE \in Nat \ {0} /\ N \in Nat \ {0} /\ ADDRESSES \in Nat \ {0}
      /\ ADDRESSES % (BLOCK_SIZE * N) = 0
  BY SizesAssumption DEF N
<1>. QED  BY <1>1

\* An address is in the block it is divided into.
LEMMA BlockOf ==
    ASSUME kind \in Kinds, NEW a \in Addresses
    PROVE  /\ a \in Nat
           /\ a \div BLOCK_SIZE \in Nat
           /\ a % BLOCK_SIZE \in 0 .. BLOCK_SIZE - 1
           /\ (a \div BLOCK_SIZE) * BLOCK_SIZE + (a % BLOCK_SIZE) = a
           /\ PageOf(a) = (a \div BLOCK_SIZE) \div N
<1>1. a \in Nat
  BY DEF Addresses
<1>2. BLOCK_SIZE \in Nat \ {0} /\ N \in Nat \ {0}
  BY Sizes
<1>3. PageOf(a) = (a \div BLOCK_SIZE) \div N
  BY <1>1, <1>2, DivDiv DEF PageOf, N
<1>4. /\ a \div BLOCK_SIZE \in Nat
      /\ a % BLOCK_SIZE \in 0 .. BLOCK_SIZE - 1
      /\ a = ((a \div BLOCK_SIZE) * BLOCK_SIZE) + (a % BLOCK_SIZE)
  BY <1>1, <1>2, DivMod
<1>. QED  BY <1>1, <1>3, <1>4

\* Pages that begin in the flash end in it.
LEMMA PageInside ==
    ASSUME kind \in Kinds, NEW a \in Addresses, NEW c \in Nat,
           c \div N = (a \div BLOCK_SIZE) \div N
    PROVE  c * BLOCK_SIZE + BLOCK_SIZE <= ADDRESSES
<1> DEFINE S == BLOCK_SIZE * N
           p == c \div N
           k == ADDRESSES \div S
<1>1. /\ BLOCK_SIZE \in Nat \ {0} /\ N \in Nat \ {0} /\ ADDRESSES \in Nat
      /\ S \in Nat \ {0} /\ ADDRESSES % S = 0
  BY Sizes
<1>2. a \in Nat /\ a < ADDRESSES /\ p = a \div S
  BY <1>1, BlockOf DEF PageOf, Addresses, N
<1>3. p \in Nat /\ c \in p * N .. (p * N) + (N - 1)
  BY <1>1, DivMod, InPage
<1>4. k \in Nat /\ ADDRESSES = k * S
  <2>1. S \in Nat \ {0} /\ ADDRESSES \in Nat /\ ADDRESSES % S = 0
    BY <1>1
  <2> HIDE DEF S
  <2>2. k \in Nat /\ ADDRESSES = (k * S) + (ADDRESSES % S)
    BY <2>1, DivMod
  <2>3. k * S \in Nat
    BY <2>1, <2>2
  <2>. QED  BY <2>1, <2>2, <2>3
<1>5. p * S <= a
  <2>1. a \in Nat /\ S \in Nat \ {0} /\ p = a \div S
    BY <1>1, <1>2
  <2> HIDE DEF S, p
  <2>2. a % S \in 0 .. S - 1 /\ a = (p * S) + (a % S) /\ p \in Nat
    BY <2>1, DivMod
  <2>3. p * S \in Nat
    BY <2>1, <2>2
  <2>. QED  BY <2>2, <2>3
<1> HIDE DEF S, p, k
<1>6. p < k
  <2>1. p * S < k * S
    BY <1>1, <1>2, <1>3, <1>4, <1>5
  <2>. QED  BY <1>1, <1>3, <1>4, <2>1
<1>7. p * S + S <= ADDRESSES
  <2>1. (p + 1) * S <= k * S
    BY <1>1, <1>3, <1>4, <1>6
  <2>2. (p + 1) * S = p * S + S
    BY <1>1, <1>3
  <2>. QED  BY <1>4, <2>1, <2>2
<1>8. c + 1 <= (p + 1) * N
  <2>1. (p + 1) * N = (p * N) + N /\ p * N \in Nat
    BY <1>1, <1>3
  <2>. QED  BY <1>1, <1>3, <2>1
<1>9. c * BLOCK_SIZE + BLOCK_SIZE <= p * S + S
  <2>1. (c + 1) * BLOCK_SIZE <= ((p + 1) * N) * BLOCK_SIZE
    BY <1>1, <1>3, <1>8
  <2>2. ((p + 1) * N) * BLOCK_SIZE = p * S + S
    BY <1>1, <1>3 DEF S
  <2>3. (c + 1) * BLOCK_SIZE = c * BLOCK_SIZE + BLOCK_SIZE
    BY <1>1
  <2>. QED  BY <2>1, <2>2, <2>3
<1>10. c * BLOCK_SIZE \in Nat /\ p * S \in Nat
  BY <1>1, <1>3
<1>. QED  BY <1>1, <1>7, <1>9, <1>10

\* The blocks of firmware, aligned, are those of the pages it touches.
LEMMA AlignedDomain ==
    ASSUME kind \in Kinds, NEW json \in Firmwares
    PROVE  DOMAIN alignFirmware(parseFirmware(json), N)
             = {c \in Nat : \E g \in Given(json) : c \div N = (g \div BLOCK_SIZE) \div N}
<1> DEFINE fw == parseFirmware(json)
           pages == {block \div N : block \in DOMAIN fw}
           D == UNION {N * p .. N * p + N - 1 : p \in pages}
           E == {c \in Nat : \E g \in Given(json) : c \div N = (g \div BLOCK_SIZE) \div N}
<1>1. DOMAIN alignFirmware(fw, N) = D
  BY DEF alignFirmware
<1>2. DOMAIN fw = {a \div BLOCK_SIZE : a \in Given(json)}
  BY DEF parseFirmware
<1>3. pages = {(g \div BLOCK_SIZE) \div N : g \in Given(json)}
  BY <1>2
<1>4. N \in Nat \ {0}
  BY Sizes
<1>5. \A p \in pages : p \in Nat
  <2> SUFFICES ASSUME NEW g \in Given(json) PROVE (g \div BLOCK_SIZE) \div N \in Nat
    BY <1>3
  <2>1. g \in Addresses
    BY FirmwareAssumption DEF Addresses
  <2>. QED  BY <1>4, <2>1, BlockOf, DivMod
<1> HIDE DEF fw, pages
<1>6. \A p \in pages : N * p .. N * p + N - 1 = {c \in Nat : c \div N = p}
  <2> SUFFICES ASSUME NEW p \in pages
               PROVE  N * p .. N * p + N - 1 = {c \in Nat : c \div N = p}
    OBVIOUS
  <2>1. p \in Nat /\ N * p = p * N /\ p * N \in Nat
    BY <1>4, <1>5
  <2>2. N * p .. N * p + N - 1 = p * N .. (p * N) + (N - 1)
    BY <1>4, <2>1
  <2>3. \A c \in p * N .. (p * N) + (N - 1) : c \in Nat
    BY <1>4, <2>1
  <2>4. \A c \in Nat : c \div N = p <=> c \in p * N .. (p * N) + (N - 1)
    BY <1>4, <2>1, InPage
  <2>. QED  BY <2>2, <2>3, <2>4
<1>7. D = E
  <2>1. ASSUME NEW c \in D PROVE c \in E
    <3>1. PICK p \in pages : c \in N * p .. N * p + N - 1
      OBVIOUS
    <3>. QED  BY <1>3, <1>6, <3>1
  <2>2. ASSUME NEW c \in E PROVE c \in D
    <3>1. PICK g \in Given(json) : c \div N = (g \div BLOCK_SIZE) \div N
      OBVIOUS
    <3>2. c \div N \in pages
      BY <1>3, <3>1
    <3>. QED  BY <1>6, <3>2
  <2>. QED  BY <2>1, <2>2
<1>. QED  BY <1>1, <1>7 DEF fw

\* Aligned firmware is made of whole pages, ...
LEMMA AlignedWhole ==
    ASSUME kind \in Kinds, NEW json \in Firmwares
    PROVE  WholePages(alignFirmware(parseFirmware(json), N), N)
<1> DEFINE D == DOMAIN alignFirmware(parseFirmware(json), N)
<1>1. D = {c \in Nat : \E g \in Given(json) : c \div N = (g \div BLOCK_SIZE) \div N}
  BY AlignedDomain
<1> HIDE DEF D
<1>2. ASSUME NEW b \in D
      PROVE  /\ b \in Nat /\ b * BLOCK_SIZE + BLOCK_SIZE <= ADDRESSES
             /\ \A c \in Nat : c \div N = b \div N => c \in D
  <2>1. PICK g \in Given(json) : b \div N = (g \div BLOCK_SIZE) \div N
    BY <1>1
  <2>2. g \in Addresses
    BY FirmwareAssumption DEF Addresses
  <2>. QED  BY <1>1, <2>1, <2>2, PageInside
<1>. QED  BY <1>2 DEF WholePages, D

\* ... and holds every byte of the firmware at its address, 255 in between.
LEMMA AlignedBytes ==
    ASSUME kind \in Kinds, NEW json \in Firmwares, NEW a \in Addresses,
           a \div BLOCK_SIZE \in DOMAIN alignFirmware(parseFirmware(json), N)
    PROVE  Image(json)[a]
             = alignFirmware(parseFirmware(json), N)[a \div BLOCK_SIZE][a % BLOCK_SIZE]
<1> DEFINE fw == parseFirmware(json)
           q == a \div BLOCK_SIZE
           r == a % BLOCK_SIZE
           byte == ByteAt(CHOOSE region \in json : Holds(region, a), a)
<1>1. q * BLOCK_SIZE + r = a /\ r \in 0 .. BLOCK_SIZE - 1 /\ PageOf(a) = q \div N
  BY BlockOf
<1>2. PICK g \in Given(json) : q \div N = (g \div BLOCK_SIZE) \div N
  BY AlignedDomain
<1>3. g \in Given(json) /\ PageOf(g) = PageOf(a)
  <2>1. g \in Addresses
    BY FirmwareAssumption DEF Addresses
  <2>. QED  BY <1>1, <1>2, <2>1, BlockOf
<1>4. Image(json)[a] = IF a \in Given(json) THEN byte ELSE 255
  BY <1>3 DEF Image, Addresses
<1>5. alignFirmware(fw, N)[q]
        = IF q \in DOMAIN fw THEN fw[q] ELSE [offset \in 0 .. BLOCK_SIZE - 1 |-> 255]
  BY DEF alignFirmware
<1>6. CASE q \in DOMAIN fw
  <2>1. fw[q][r] = LET b == q * BLOCK_SIZE + r
                   IN  IF b \in Given(json)
                         THEN ByteAt(CHOOSE region \in json : Holds(region, b), b) ELSE 255
    BY <1>1, <1>6 DEF parseFirmware
  <2>2. fw[q][r] = IF a \in Given(json) THEN byte ELSE 255
    <3> HIDE DEF q, r
    <3>. QED  BY <1>1, <2>1
  <2>. QED  BY <1>4, <1>5, <1>6, <2>2
<1>7. CASE q \notin DOMAIN fw
  <2>1. a \notin Given(json)
    BY <1>7 DEF parseFirmware
  <2>. QED  BY <1>1, <1>4, <1>5, <1>7, <2>1
<1>. QED  BY <1>6, <1>7

-----------------------------------------------------------------------------
(* A block is sent *)

\* Address q * b + r lies in the blocks from f to l exactly if q is one of them.
LEMMA InBlocks ==
    ASSUME NEW b \in Nat \ {0}, NEW q \in Nat, NEW r \in 0 .. b - 1,
           NEW f \in Nat, NEW l \in Nat
    PROVE  ((q * b) + r) \in f * b .. (l * b) + (b - 1) <=> q \in f .. l
<1>0. q * b \in Nat /\ f * b \in Nat /\ l * b \in Nat
  OBVIOUS
<1>1. ASSUME f <= q PROVE f * b <= (q * b) + r
  <2>1. f * b <= q * b
    BY <1>1
  <2>. QED  BY <1>0, <2>1
<1>2. ASSUME q <= l PROVE (q * b) + r <= (l * b) + (b - 1)
  <2>1. q * b <= l * b
    BY <1>2
  <2>. QED  BY <1>0, <2>1
<1>3. ASSUME q < f PROVE (q * b) + r < f * b
  <2>1. (q + 1) * b <= f * b /\ (q + 1) * b = (q * b) + b
    BY <1>3
  <2>. QED  BY <1>0, <2>1
<1>4. ASSUME l < q PROVE (l * b) + (b - 1) < (q * b) + r
  <2>1. (l + 1) * b <= q * b /\ (l + 1) * b = (l * b) + b
    BY <1>4
  <2>. QED  BY <1>0, <2>1
<1>. QED  BY <1>0, <1>1, <1>2, <1>3, <1>4

\* The block that is sent, and its page so far.
LEMMA NextBlock ==
    ASSUME Shape, Upgrading, toWrite # {}, NEW b, b = Min(toWrite)
    PROVE  /\ b \in toWrite /\ b \in DOMAIN data /\ b \in Nat
           /\ \A c \in toWrite : c \in Nat /\ b <= c
           /\ b * BLOCK_SIZE + BLOCK_SIZE <= ADDRESSES
           /\ b % N \in 0 .. N - 1 /\ b - (b % N) \in Nat
           /\ \A c \in Nat : c \div N = b \div N <=> c \in (b - (b % N)) .. (b - (b % N)) + (N - 1)
           /\ \A c \in (b - (b % N)) .. (b - (b % N)) + (N - 1) : c \in DOMAIN data
           /\ page = [i \in 1 .. (b % N) |-> data[(b - (b % N)) + (i - 1)]]
<1>1. N \in Nat \ {0}
  BY Sizes DEF Shape
<1>2. /\ toWrite \subseteq DOMAIN data /\ toWrite \in SUBSET Nat
      /\ \A c \in DOMAIN data : /\ c \in Nat /\ c * BLOCK_SIZE + BLOCK_SIZE <= ADDRESSES
                                /\ \A d \in Nat : d \div N = c \div N => d \in DOMAIN data
  BY DEF Upgrading, WritesInOrder, WholePages
<1>3. b \in toWrite /\ \A c \in toWrite : b <= c
  <2>1. \E x \in toWrite : \A y \in toWrite : x <= y
    BY <1>2, Least
  <2>. QED  BY <2>1 DEF Min
<1>4. page = [i \in 1 .. (b % N) |-> data[(b - (b % N)) + (i - 1)]]
  BY <1>3 DEF Upgrading, PageGathered
<1>5. b \in Nat
  BY <1>2, <1>3
<1> DEFINE p == b \div N
<1>6. p \in Nat /\ b % N \in 0 .. N - 1 /\ b = (p * N) + (b % N)
  BY <1>1, <1>5, DivMod
<1>7. p * N \in Nat /\ b - (b % N) = p * N
  <2> HIDE DEF p
  <2>1. p * N \in Nat
    BY <1>1, <1>6
  <2>. QED  BY <1>5, <1>6, <2>1
<1>8. \A c \in Nat : c \div N = p <=> c \in p * N .. (p * N) + (N - 1)
  BY <1>1, <1>6, InPage
<1>9. \A c \in p * N .. (p * N) + (N - 1) : c \in Nat
  <2> HIDE DEF p
  <2>. QED  BY <1>1, <1>7
<1>10. \A c \in p * N .. (p * N) + (N - 1) : c \in DOMAIN data
  BY <1>2, <1>3, <1>8, <1>9
<1>. QED  BY <1>2, <1>3, <1>4, <1>5, <1>6, <1>7, <1>8, <1>10

\* What ReceiveBlock computes of the address and the blob.
LEMMA Received ==
    ASSUME Shape, Upgrading, toWrite # {}, NEW b, b = Min(toWrite),
           ReceiveBlock((b * BLOCK_SIZE) % ADDRESSES, data[b])
    PROVE  LET f == b - (b % N)
               bytes == [i \in 1 .. (b % N) + 1 |-> data[f + (i - 1)]]
           IN  IF b % N # N - 1 THEN page' = bytes /\ flash' = flash
               ELSE /\ page' = <<>>
                    /\ flash' = [a \in Addresses |->
                         IF a \in f * BLOCK_SIZE .. (b * BLOCK_SIZE) + (BLOCK_SIZE - 1)
                           THEN bytes[1 + (a - f * BLOCK_SIZE) \div BLOCK_SIZE]
                                     [(a - f * BLOCK_SIZE) % BLOCK_SIZE]
                           ELSE flash[a]]
<1> DEFINE f == b - (b % N)
           k == b % N
           bytes == [i \in 1 .. k + 1 |-> data[f + (i - 1)]]
           S == {data[c] : c \in DOMAIN data}
           fwAddr == b * BLOCK_SIZE
<1>1. /\ BLOCK_SIZE \in Nat \ {0} /\ N \in Nat \ {0} /\ ADDRESSES \in Nat \ {0}
  BY Sizes DEF Shape
<1>2. /\ b \in Nat /\ fwAddr + BLOCK_SIZE <= ADDRESSES /\ k \in 0 .. N - 1 /\ f \in Nat
      /\ f + k = b
      /\ \A c \in f .. f + (N - 1) : c \in DOMAIN data
      /\ page = [i \in 1 .. k |-> data[f + (i - 1)]]
  BY NextBlock
<1>3. fwAddr % ADDRESSES = fwAddr
  <2>1. fwAddr \in 0 .. ADDRESSES - 1
    <3>0. b \in Nat /\ BLOCK_SIZE \in Nat \ {0}
      BY <1>1, <1>2
    <3>1. fwAddr \in Nat
      BY <3>0
    <3> HIDE DEF fwAddr
    <3>. QED  BY <1>1, <1>2, <3>1
  <2> HIDE DEF fwAddr
  <2>2. ((0 * ADDRESSES) + fwAddr) % ADDRESSES = fwAddr
    BY <1>1, <2>1, DivUnique
  <2>. QED  BY <1>1, <2>1, <2>2
<1>4. fwAddr \div BLOCK_SIZE = b
  <2>1. ((b * BLOCK_SIZE) + 0) \div BLOCK_SIZE = b
    <3>1. 0 \in 0 .. BLOCK_SIZE - 1
      BY <1>1
    <3>. QED  BY <1>1, <1>2, <3>1, DivUnique
  <2>2. fwAddr + 0 = fwAddr
    BY <1>1, <1>2
  <2>. QED  BY <2>1, <2>2
<1> HIDE DEF f, k
<1>5. Append(page, data[b]) = bytes /\ Len(bytes) = k + 1
  <2>1. \A i \in 1 .. k + 1 : f + (i - 1) \in f .. f + (N - 1)
    BY <1>1, <1>2
  <2>2. page \in [1 .. k -> S] /\ k \in Nat
    BY <1>1, <1>2, <2>1
  <2>3. page \in Seq(S) /\ Len(page) = k
    BY <2>2
  <2>4. b \in f .. f + (N - 1)
    BY <1>1, <1>2
  <2>5. data[b] \in S
    BY <1>2, <2>4
  <2>6. /\ Append(page, data[b]) \in Seq(S) /\ Len(Append(page, data[b])) = k + 1
        /\ Append(page, data[b])[k + 1] = data[b]
        /\ \A i \in 1 .. k : Append(page, data[b])[i] = page[i]
    <3> HIDE DEF S
    <3>. QED  BY <2>3, <2>5
  <2>7. \A i \in 1 .. k + 1 : Append(page, data[b])[i] = bytes[i]
    <3>1. bytes[k + 1] = data[b]
      BY <1>2, <2>2
    <3>. QED  BY <1>2, <2>2, <2>6, <3>1
  <2>8. bytes \in Seq(S) /\ Len(bytes) = k + 1
    <3>1. \A i \in 1 .. k + 1 : data[f + (i - 1)] \in S
      BY <1>2, <2>1
    <3>2. bytes \in [1 .. k + 1 -> S] /\ k + 1 \in Nat
      BY <2>2, <3>1
    <3>3. bytes \in Seq(S) /\ DOMAIN bytes = 1 .. k + 1
      BY <3>2
    <3>. QED  BY <2>2, <3>3
  <2> HIDE DEF bytes
  <2>. QED  BY <2>6, <2>7, <2>8
<1>6. fwAddr - (Len(bytes) - 1) * BLOCK_SIZE = f * BLOCK_SIZE
  <2>1. Len(bytes) - 1 = k
    <3> HIDE DEF bytes
    <3>. QED  BY <1>1, <1>2, <1>5
  <2>2. (f + k) * BLOCK_SIZE = (f * BLOCK_SIZE) + (k * BLOCK_SIZE)
    BY <1>1, <1>2
  <2>3. f * BLOCK_SIZE \in Nat /\ k * BLOCK_SIZE \in Nat
    BY <1>1, <1>2
  <2> HIDE DEF bytes
  <2>4. fwAddr = (f * BLOCK_SIZE) + (k * BLOCK_SIZE)
    BY <1>2, <2>2
  <2> HIDE DEF fwAddr
  <2>. QED  BY <2>1, <2>3, <2>4
<1>7. fwAddr + BLOCK_SIZE - 1 = fwAddr + (BLOCK_SIZE - 1)
  BY <1>1, <1>2
<1>8. DOMAIN flash = Addresses
  BY DEF Shape
<1> HIDE DEF bytes, fwAddr
<1>9. IF k # N - 1 THEN page' = bytes /\ flash' = flash
      ELSE /\ page' = <<>>
           /\ flash' = [a \in Addresses |->
                IF a \in f * BLOCK_SIZE .. fwAddr + (BLOCK_SIZE - 1)
                  THEN bytes[1 + (a - f * BLOCK_SIZE) \div BLOCK_SIZE]
                            [(a - f * BLOCK_SIZE) % BLOCK_SIZE]
                  ELSE flash[a]]
  <2>1. ReceiveBlock(fwAddr, data[b])
    BY <1>3 DEF fwAddr
  <2>. QED  BY <1>4, <1>5, <1>6, <1>7, <1>8, <2>1 DEF ReceiveBlock, k, N
<1>. QED  BY <1>9 DEF f, k, bytes, fwAddr

\* A block in the middle of a page is kept by the module, the next one follows it.
LEMMA SentInside ==
    ASSUME Shape, Upgrading, fwUpgrading, FwUpgdGotStatus, Min(toWrite) % N # N - 1
    PROVE  PageGathered' /\ PagesWritten'
<1> DEFINE b == Min(toWrite)
           k == b % N
           f == b - k
<1>0. /\ toWrite # {} /\ toWrite' = toWrite \ {b} /\ UNCHANGED <<kind, data, image>>
      /\ ReceiveBlock((b * BLOCK_SIZE) % ADDRESSES, data[b]) /\ N' = N
  BY DEF FwUpgdGotStatus, N
<1>1. N \in Nat \ {0}
  BY Sizes DEF Shape
<1>2. /\ b \in toWrite /\ b \in Nat /\ k \in 0 .. N - 1 /\ f \in Nat /\ f + k = b
      /\ \A c \in toWrite : c \in Nat /\ b <= c
      /\ \A c \in Nat : c \div N = b \div N <=> c \in f .. f + (N - 1)
      /\ \A c \in f .. f + (N - 1) : c \in DOMAIN data
  BY <1>0, NextBlock
<1>3. page' = [i \in 1 .. k + 1 |-> data[f + (i - 1)]] /\ flash' = flash
  BY <1>0, Received
<1>4. k # N - 1
  OBVIOUS
<1> HIDE DEF b, k, f
<1>5. /\ b + 1 \in f .. f + (N - 1) /\ b + 1 \in Nat /\ (b + 1) \div N = b \div N
  <2>1. b + 1 \in f .. f + (N - 1) /\ b + 1 \in Nat
    <3>1. b \in Nat /\ k \in 0 .. N - 1 /\ f \in Nat /\ f + k = b
      BY <1>2
    <3>. QED  BY <1>1, <1>4, <3>1
  <2>. QED  BY <1>2, <2>1
<1>6. b + 1 \in toWrite'
  BY <1>0, <1>2, <1>5 DEF Upgrading, WritesInOrder
<1>7. (b + 1) % N = k + 1 /\ (b + 1) - (k + 1) = f
  <2> DEFINE p == b \div N
  <2>1. p \in Nat /\ b = (p * N) + k
    BY <1>1, <1>2, DivMod DEF k
  <2>2. k + 1 \in 0 .. N - 1 /\ k \in Nat
    BY <1>1, <1>2, <1>4
  <2> HIDE DEF p
  <2>3. p * N \in Nat
    BY <1>1, <2>1
  <2>4. b + 1 = (p * N) + (k + 1)
    BY <2>1, <2>2, <2>3
  <2>5. ((p * N) + (k + 1)) % N = k + 1
    BY <1>1, <2>1, <2>2, DivUnique
  <2>. QED  BY <1>2, <2>2, <2>4, <2>5
<1>8. PageGathered'
  <2> SUFFICES ASSUME NEW c \in toWrite', \A d \in toWrite' : c <= d
               PROVE  page' = [i \in 1 .. (c % N) |-> data[(c - (c % N)) + (i - 1)]]
    BY <1>0 DEF PageGathered
  <2>1. c = b + 1
    BY <1>0, <1>2, <1>5, <1>6
  <2>. QED  BY <1>3, <1>7, <2>1
<1>9. PagesWritten'
  <2> SUFFICES ASSUME NEW a \in Addresses,
                      \A c \in toWrite' : c \div N # (a \div BLOCK_SIZE) \div N
               PROVE  flash'[a] = image[a]
    BY <1>0 DEF PagesWritten
  <2>1. \A c \in toWrite : c \div N # (a \div BLOCK_SIZE) \div N
    BY <1>0, <1>5, <1>6
  <2>. QED  BY <1>3, <2>1 DEF Upgrading, PagesWritten
<1>. QED  BY <1>8, <1>9

\* With the last block of a page the module writes it, the next block begins another.
LEMMA SentLast ==
    ASSUME Shape, Upgrading, fwUpgrading, FwUpgdGotStatus, Min(toWrite) % N = N - 1
    PROVE  /\ PageGathered' /\ PagesWritten'
           /\ DOMAIN flash' = Addresses /\ flash' = [a \in Addresses |-> flash'[a]]
<1> DEFINE b == Min(toWrite)
           k == b % N
           f == b - k
           bytes == [i \in 1 .. k + 1 |-> data[f + (i - 1)]]
<1>0. /\ toWrite # {} /\ toWrite' = toWrite \ {b} /\ UNCHANGED <<kind, data, image>>
      /\ ReceiveBlock((b * BLOCK_SIZE) % ADDRESSES, data[b]) /\ N' = N
  BY DEF FwUpgdGotStatus, N
<1>1. N \in Nat \ {0} /\ BLOCK_SIZE \in Nat \ {0}
  BY Sizes DEF Shape
<1>2. /\ b \in toWrite /\ b \in Nat /\ k \in 0 .. N - 1 /\ f \in Nat /\ f + k = b
      /\ \A c \in toWrite : c \in Nat /\ b <= c
      /\ \A c \in Nat : c \div N = b \div N <=> c \in f .. f + (N - 1)
      /\ \A c \in f .. f + (N - 1) : c \in DOMAIN data
  <2>1. /\ b \in toWrite /\ b \in Nat /\ k \in 0 .. N - 1 /\ f \in Nat
        /\ \A c \in toWrite : c \in Nat /\ b <= c
        /\ \A c \in Nat : c \div N = b \div N <=> c \in f .. f + (N - 1)
        /\ \A c \in f .. f + (N - 1) : c \in DOMAIN data
    BY <1>0, NextBlock
  <2> HIDE DEF b, k
  <2>2. f + k = b
    BY <1>1, <2>1
  <2>. QED  BY <2>1, <2>2
<1>3. /\ page' = <<>>
      /\ flash' = [a \in Addresses |->
           IF a \in f * BLOCK_SIZE .. (b * BLOCK_SIZE) + (BLOCK_SIZE - 1)
             THEN bytes[1 + (a - f * BLOCK_SIZE) \div BLOCK_SIZE][(a - f * BLOCK_SIZE) % BLOCK_SIZE]
             ELSE flash[a]]
  BY <1>0, Received
<1>4. k = N - 1 /\ b = f + (N - 1)
  BY <1>1, <1>2
<1>5. DOMAIN flash' = Addresses /\ flash' = [a \in Addresses |-> flash'[a]]
  BY <1>3
<1> HIDE DEF b, k, f
<1>6. PageGathered'
  <2> SUFFICES ASSUME NEW c \in toWrite', \A d \in toWrite' : c <= d
               PROVE  page' = [i \in 1 .. (c % N) |-> data[(c - (c % N)) + (i - 1)]]
    BY <1>0 DEF PageGathered
  <2>1. c \in toWrite /\ c \in Nat /\ b < c /\ c \in DOMAIN data
    BY <1>0, <1>2 DEF Upgrading, WritesInOrder
  <2> DEFINE p == c \div N
  <2>2. p \in Nat /\ c % N \in 0 .. N - 1 /\ c = (p * N) + (c % N)
    BY <1>1, <2>1, DivMod
  <2>3. c % N = 0
    <3> SUFFICES ASSUME c % N # 0 PROVE FALSE
      OBVIOUS
    <3> HIDE DEF p
    <3>0. p * N \in Nat
      BY <1>1, <2>2
    <3>1. c - 1 \in Nat /\ c - 1 \in p * N .. (p * N) + (N - 1)
      BY <1>1, <2>1, <2>2, <3>0
    <3>2. (c - 1) \div N = c \div N
      BY <1>1, <2>2, <3>1, InPage DEF p
    <3>3. c - 1 \in DOMAIN data
      BY <2>1, <3>1, <3>2 DEF Upgrading, WholePages
    <3>4. CASE c - 1 = b
      <4>1. c \in f .. f + (N - 1)
        BY <1>2, <2>1, <3>2, <3>4
      <4>. QED  BY <1>1, <1>2, <1>4, <2>1, <4>1
    <3>5. CASE c - 1 # b
      <4>1. b < c - 1
        BY <1>2, <2>1, <3>5
      <4>2. c - 1 \in toWrite
        BY <1>2, <3>3, <4>1 DEF Upgrading, WritesInOrder
      <4>3. c - 1 \in toWrite'
        BY <1>0, <3>5, <4>2
      <4>. QED  BY <2>1, <4>3
    <3>. QED  BY <3>4, <3>5
  <2>4. [i \in 1 .. 0 |-> data[(c - (c % N)) + (i - 1)]] = <<>>
    OBVIOUS
  <2>. QED  BY <1>3, <2>3, <2>4
<1>7. PagesWritten'
  <2> SUFFICES ASSUME NEW a \in Addresses,
                      \A c \in toWrite' : c \div N # (a \div BLOCK_SIZE) \div N
               PROVE  flash'[a] = image[a]
    BY <1>0 DEF PagesWritten
  <2> DEFINE q == a \div BLOCK_SIZE
             r == a % BLOCK_SIZE
             first == f * BLOCK_SIZE
  <2>1. a \in Nat /\ q \in Nat /\ r \in 0 .. BLOCK_SIZE - 1 /\ (q * BLOCK_SIZE) + r = a
    BY BlockOf DEF Shape
  <2>2. flash'[a] = IF a \in first .. (b * BLOCK_SIZE) + (BLOCK_SIZE - 1)
                      THEN bytes[1 + (a - first) \div BLOCK_SIZE][(a - first) % BLOCK_SIZE]
                      ELSE flash[a]
    BY <1>3
  <2>3. image[a] = data[q][r] \/ q \notin DOMAIN data
    BY DEF Upgrading, ImageOfData
  <2>4. (\A c \in toWrite' : c \div N # q \div N)
    OBVIOUS
  <2> HIDE DEF q, r, first, bytes
  <2>5. a \in first .. (b * BLOCK_SIZE) + (BLOCK_SIZE - 1) <=> q \in f .. b
    BY <1>1, <1>2, <2>1, InBlocks DEF first
  <2>6. CASE q \in f .. b
    <3> DEFINE d == q - f
    <3>1. d \in 0 .. k /\ q = f + d /\ q \in DOMAIN data
      BY <1>1, <1>2, <1>4, <2>1, <2>6
    <3>2. a - first = (d * BLOCK_SIZE) + r
      <4> HIDE DEF d
      <4>1. d \in Nat /\ f \in Nat /\ BLOCK_SIZE \in Nat \ {0} /\ k \in Nat
        BY <1>1, <1>2, <3>1
      <4>2. (f + d) * BLOCK_SIZE = (f * BLOCK_SIZE) + (d * BLOCK_SIZE)
        BY <4>1
      <4>3. f * BLOCK_SIZE \in Nat /\ d * BLOCK_SIZE \in Nat
        BY <4>1
      <4>4. a = (first + (d * BLOCK_SIZE)) + r
        BY <2>1, <3>1, <4>2 DEF first
      <4>. QED  BY <2>1, <4>3, <4>4 DEF first
    <3>3. (a - first) \div BLOCK_SIZE = d /\ (a - first) % BLOCK_SIZE = r
      <4>1. d \in Nat
        BY <1>2, <3>1
      <4> HIDE DEF d
      <4>2. ((d * BLOCK_SIZE) + r) \div BLOCK_SIZE = d /\ ((d * BLOCK_SIZE) + r) % BLOCK_SIZE = r
        BY <1>1, <2>1, <4>1, DivUnique
      <4>. QED  BY <3>2, <4>2
    <3>4. flash'[a] = bytes[1 + d][r]
      BY <2>2, <2>5, <2>6, <3>3
    <3>5. bytes[1 + d] = data[q]
      <4>1. 1 + d \in 1 .. k + 1 /\ f + ((1 + d) - 1) = q
        BY <1>1, <1>2, <3>1
      <4>. QED  BY <4>1 DEF bytes
    <3>. QED  BY <2>3, <3>1, <3>4, <3>5
  <2>7. CASE q \notin f .. b
    <3>1. q \div N # b \div N
      BY <1>2, <1>4, <2>1, <2>7
    <3>2. \A c \in toWrite : c \div N # q \div N
      BY <1>0, <2>4, <3>1
    <3>3. flash[a] = image[a]
      BY <3>2 DEF Upgrading, PagesWritten, q
    <3>. QED  BY <2>2, <2>5, <2>7, <3>3
  <2>. QED  BY <2>6, <2>7
<1>. QED  BY <1>5, <1>6, <1>7

-----------------------------------------------------------------------------
(* Every step *)

LEMMA UpgradeBegins ==
    ASSUME FwInv, NEW json \in Firmwares, JsonUpgradeFw(json)
    PROVE  FwInv'
<1> DEFINE fw == alignFirmware(parseFirmware(json), N)
<1>1. /\ Shape /\ active /\ fwUpgrading' /\ data' = fw /\ toWrite' = DOMAIN fw
      /\ page' = <<>> /\ image' = Image(json) /\ N' = N
      /\ UNCHANGED <<kind, active, flash>>
  BY DEF FwInv, JsonUpgradeFw, N, outVars, dataVars
<1>2. Shape'
  <2>1. DOMAIN image' = Addresses /\ image' = [a \in Addresses |-> image'[a]]
    BY <1>1 DEF Image, Addresses
  <2>. QED  BY <1>1, <2>1 DEF Shape, Addresses
<1>3. WholePages(fw, N)
  BY <1>1, AlignedWhole DEF Shape
<1>4. ImageOfData'
  BY <1>1, AlignedBytes DEF ImageOfData, Shape, Addresses
<1>5. WritesInOrder'
  BY <1>1 DEF WritesInOrder
<1>6. PageGathered'
  <2> SUFFICES ASSUME NEW b \in DOMAIN fw, \A c \in DOMAIN fw : b <= c
               PROVE  page' = [i \in 1 .. (b % N) |-> data'[(b - (b % N)) + (i - 1)]]
    BY <1>1 DEF PageGathered
  <2>0. N \in Nat \ {0}
    BY <1>1, Sizes DEF Shape
  <2>1. b \in Nat /\ \A c \in Nat : c \div N = b \div N => c \in DOMAIN fw
    BY <1>3 DEF WholePages
  <2> DEFINE p == b \div N
  <2>2. p \in Nat /\ b % N \in 0 .. N - 1 /\ b = (p * N) + (b % N)
    BY <2>0, <2>1, DivMod
  <2>3. b % N = 0
    <3>1. p * N \in Nat /\ p * N \in p * N .. (p * N) + (N - 1)
      <4> HIDE DEF p
      <4>1. p * N \in Nat
        BY <2>0, <2>2
      <4>. QED  BY <2>0, <4>1
    <3>2. (p * N) \div N = p
      <4> HIDE DEF p
      <4>. QED  BY <2>0, <2>2, <3>1, InPage
    <3>3. p * N \in DOMAIN fw
      BY <2>1, <3>1, <3>2
    <3> HIDE DEF p, fw
    <3>. QED  BY <2>1, <2>2, <3>1, <3>3
  <2>4. [i \in 1 .. 0 |-> data'[(b - (b % N)) + (i - 1)]] = <<>>
    OBVIOUS
  <2>. QED  BY <1>1, <2>3, <2>4
<1>7. PagesWritten'
  <2> SUFFICES ASSUME NEW a \in Addresses,
                      \A b \in DOMAIN fw : b \div N # (a \div BLOCK_SIZE) \div N
               PROVE  flash[a] = Image(json)[a]
    BY <1>1 DEF PagesWritten
  <2>1. a \div BLOCK_SIZE \in Nat /\ PageOf(a) = (a \div BLOCK_SIZE) \div N
    BY <1>1, BlockOf DEF Shape
  <2>2. \A g \in Given(json) : PageOf(g) # PageOf(a)
    <3> SUFFICES ASSUME NEW g \in Given(json), PageOf(g) = PageOf(a) PROVE FALSE
      OBVIOUS
    <3>1. g \in Addresses
      BY FirmwareAssumption DEF Addresses
    <3>2. PageOf(g) = (g \div BLOCK_SIZE) \div N
      BY <1>1, <3>1, BlockOf DEF Shape
    <3>3. a \div BLOCK_SIZE \in DOMAIN fw
      BY <1>1, <2>1, <3>2, AlignedDomain DEF Shape
    <3>. QED  BY <3>3
  <2>3. a \notin Given(json)
    BY <2>2
  <2>. QED  BY <2>2, <2>3 DEF Image, Addresses
<1>. QED  BY <1>1, <1>2, <1>3, <1>4, <1>5, <1>6, <1>7 DEF FwInv, Upgrading

LEMMA BlockSent ==
    ASSUME FwInv, FwUpgdGotStatus
    PROVE  FwInv'
<1>1. /\ Shape /\ Upgrading /\ fwUpgrading /\ fwUpgrading' /\ toWrite # {} /\ active
      /\ UNCHANGED <<kind, active, data, image>> /\ N' = N
      /\ toWrite' = toWrite \ {Min(toWrite)}
  BY DEF FwInv, Upgrading, FwUpgdGotStatus, N
<1>2. PageGathered' /\ PagesWritten' /\ DOMAIN flash' = Addresses
      /\ flash' = [a \in Addresses |-> flash'[a]]
  <2>1. CASE Min(toWrite) % N = N - 1
    BY <1>1, <2>1, SentLast
  <2>2. CASE Min(toWrite) % N # N - 1
    <3>1. flash' = flash
      BY <1>1, <2>2, Received DEF FwUpgdGotStatus
    <3>. QED  BY <1>1, <2>2, <3>1, SentInside DEF Shape
  <2>. QED  BY <2>1, <2>2
<1>3. Shape'
  BY <1>1, <1>2 DEF Shape, Addresses
<1>4. WritesInOrder'
  <2>1. \A c \in toWrite : c \in Nat /\ Min(toWrite) <= c
    BY <1>1, NextBlock
  <2>2. \A c \in DOMAIN data : c \in Nat
    BY <1>1 DEF Upgrading, WholePages
  <2>3. Min(toWrite) \in toWrite
    BY <1>1, NextBlock
  <2>. QED  BY <1>1, <2>1, <2>2, <2>3 DEF Upgrading, WritesInOrder
<1>5. WholePages(data, N)' /\ ImageOfData'
  BY <1>1 DEF Upgrading, WholePages, ImageOfData, Addresses
<1>. QED  BY <1>1, <1>2, <1>3, <1>4, <1>5 DEF FwInv, Upgrading

\* The end of an upgrade: the activation after its reboot.
LEMMA UpgradeEnds ==
    ASSUME FwInv, Activate
    PROVE  FwInv'
<1>1. Shape /\ ~active /\ ~fwUpgrading' /\ UNCHANGED <<kind, flash, image>>
  BY DEF FwInv, Activate
<1>2. flash = image
  BY <1>1, AllWritten DEF FwInv, Upgrading
<1>. QED  BY <1>1, <1>2 DEF FwInv, Shape, Addresses

\* What FwInv is about is left alone.
LEMMA FwUntouched ==
    ASSUME FwInv, UNCHANGED <<kind, flashVars>>, active' = active \/ ~fwUpgrading \/ toWrite = {}
    PROVE  FwInv'
<1>1. UNCHANGED <<kind, fwUpgrading, data, toWrite, page, flash, image>> /\ N' = N
  BY DEF flashVars, N
<1>2. Shape'
  BY <1>1 DEF FwInv, Shape, Addresses
<1>3. CASE ~fwUpgrading
  BY <1>1, <1>2, <1>3 DEF FwInv
<1>4. CASE fwUpgrading
  <2>1. ~active' => toWrite' = {}
    BY <1>1, <1>4 DEF FwInv, Upgrading
  <2>2. /\ WholePages(data, N)' /\ ImageOfData' /\ WritesInOrder'
        /\ PageGathered' /\ PagesWritten'
    BY <1>1, <1>4 DEF FwInv, Upgrading, WholePages, ImageOfData, WritesInOrder, PageGathered,
                      PagesWritten, Addresses
  <2>. QED  BY <1>1, <1>2, <1>4, <2>1, <2>2 DEF FwInv, Upgrading
<1>. QED  BY <1>3, <1>4

LEMMA FwNext == FwInv /\ [Next]_vars => FwInv'
<1> SUFFICES ASSUME FwInv, [Next]_vars PROVE FwInv'
  OBVIOUS
<1>1. CASE Activate
  BY <1>1, UpgradeEnds
<1>2. CASE Leave
  BY <1>2, FwUntouched DEF Leave
<1>3. CASE SaveConfig
  BY <1>3, FwUntouched DEF SaveConfig
<1>4. CASE Restart
  BY <1>4, FwUntouched DEF Restart
<1>5. CASE LoadConfig
  BY <1>5, FwUntouched DEF LoadConfig
<1>6. CASE \E json \in ConfigRequests[kind] : JsonSetConfig(json)
  BY <1>6, FwUntouched DEF JsonSetConfig
<1>7. CASE \E request \in OutputRequests[kind] : JsonSetOutput(request)
  BY <1>7, FwUntouched DEF JsonSetOutput
<1>8. CASE \E json \in Firmwares : JsonUpgradeFw(json)
  BY <1>8, UpgradeBegins
<1>9. CASE FwUpgdGotStatus
  BY <1>9, BlockSent
<1>10. CASE FwUpgdAllWritten
  BY <1>10, FwUntouched DEF FwUpgdAllWritten
<1>11. CASE UNCHANGED vars
  BY <1>11, FwUntouched DEF vars
<1>. QED  BY <1>1, <1>2, <1>3, <1>4, <1>5, <1>6, <1>7, <1>8, <1>9, <1>10, <1>11 DEF Next

\* The firmware in the flash is the firmware that was asked for: whatever its regions, in
\* blocks and pages of any size, every byte is at its address, the rest of the pages it
\* touches is erased, and the other pages are as they were (module.cpp:335-480, 663-675).
THEOREM FirmwareArrives == Spec => []FlashedIsAsked
<1>1. Init => FwInv
  <2> SUFFICES ASSUME Init PROVE FwInv
    OBVIOUS
  <2>1. kind \in Kinds /\ flash = [a \in Addresses |-> 0] /\ image = flash /\ ~fwUpgrading
    BY DEF Init, Addresses
  <2>. QED  BY <2>1 DEF FwInv, Shape
<1>2. FwInv => FlashedIsAsked
  BY DEF FwInv, FlashedIsAsked
<1>. QED  BY <1>1, <1>2, FwNext, PTL DEF Spec

-----------------------------------------------------------------------------
(* What the codecs carry: bytes, delays of 4 bits, and the bytes outputs are stored as:    *)
(* plain, with a code of a frequency, or with an S-COM aspect.                             *)
Bytes      == {n \in Nat : n < 256}
Tenths     == {n \in Nat : n < 16}
OutputByte == {n \in Nat : n < 2 \/ (64 < n /\ n < 73) \/ (127 < n /\ n < 256)}

\* Codes of frequencies name different frequencies: a code is found again, ...
LEMMA FlickerCode ==
    ASSUME NEW c \in 1 .. 8
    PROVE  /\ flickMtbUniToPerMin(c) \in Nat
           /\ flickPerMinToMtbUniValue(flickMtbUniToPerMin(c)) = c
<1>1. /\ DOMAIN FlickerPerMin = 1 .. 8 
      /\ \A i \in 1 .. 8 : FlickerPerMin[i] \in Nat
      /\ \A i, j \in 1 .. 8 : FlickerPerMin[i] = FlickerPerMin[j] => i = j
  BY DEF FlickerPerMin
<1>. QED  BY <1>1 DEF flickMtbUniToPerMin, flickPerMinToMtbUniValue

\* ... and so is a frequency that has a code.
LEMMA FlickerValue ==
    ASSUME NEW v, flickPerMinToMtbUniValue(v) # 0
    PROVE  /\ flickPerMinToMtbUniValue(v) \in 1 .. 8
           /\ flickMtbUniToPerMin(flickPerMinToMtbUniValue(v)) = v
<1>1. DOMAIN FlickerPerMin = 1 .. 8
  BY DEF FlickerPerMin
<1>. QED  BY <1>1 DEF flickMtbUniToPerMin, flickPerMinToMtbUniValue

\* Bits 7 and 6 tell S-COM aspects and flickering from plain outputs.
LEMMA TopBits ==
    ASSUME NEW b \in OutputByte
    PROVE  /\ Bit(b, 7) = 1 <=> b >= 128
           /\ Bit(b, 7) = 0 <=> b < 128
           /\ b < 128 => (Bit(b, 6) = 1 <=> b >= 64)
<1>1. 2^7 = 128 /\ 2^6 = 64
  OBVIOUS
<1>. QED  BY <1>1 DEF Bit, OutputByte

\* The JSON of a byte, without bits.
LEMMA JsonOfByte ==
    ASSUME NEW b \in OutputByte
    PROVE  outputToJson(b) = IF b >= 128 THEN [type |-> "s-com", value |-> b - 128]
                        ELSE IF b >= 64
                          THEN [type |-> "flicker", value |-> flickMtbUniToPerMin(b - 64)]
                        ELSE [type |-> "plain", value |-> b]
<1>1. CASE 127 < b
  <2>1. b % 128 = b - 128
    BY <1>1 DEF OutputByte
  <2>. QED  BY <1>1, <2>1, TopBits DEF outputToJson, OutputByte
<1>2. CASE 64 < b /\ b < 73
  <2>1. b % 16 = b - 64
    BY <1>2 DEF OutputByte
  <2>. QED  BY <1>2, <2>1, TopBits DEF outputToJson, OutputByte
<1>3. CASE b < 2
  <2>1. b % 2 = b
    BY <1>3 DEF OutputByte
  <2>. QED  BY <1>3, <2>1, TopBits DEF outputToJson, OutputByte
<1>. QED  BY <1>1, <1>2, <1>3 DEF OutputByte

\* A byte that was made from JSON gives a JSON from which it is made again.
LEMMA ByteBack ==
    ASSUME NEW b \in OutputByte
    PROVE  jsonOutputToByte(outputToJson(b)) = b
<1>1. CASE 127 < b
  <2>1. outputToJson(b) = [type |-> "s-com", value |-> b - 128]
    BY <1>1, JsonOfByte DEF OutputByte
  <2>. QED  BY <1>1, <2>1 DEF jsonOutputToByte, OutputByte
<1>2. CASE 64 < b /\ b < 73
  <2>1. outputToJson(b) = [type |-> "flicker", value |-> flickMtbUniToPerMin(b - 64)]
    BY <1>2, JsonOfByte DEF OutputByte
  <2>2. flickPerMinToMtbUniValue(flickMtbUniToPerMin(b - 64)) = b - 64
    BY <1>2, FlickerCode DEF OutputByte
  <2>. QED  BY <1>2, <2>1, <2>2 DEF jsonOutputToByte, OutputByte
<1>3. CASE b < 2
  <2>1. outputToJson(b) = [type |-> "plain", value |-> b]
    BY <1>3, JsonOfByte DEF OutputByte
  <2>. QED  BY <1>3, <2>1 DEF jsonOutputToByte, OutputByte
<1>. QED  BY <1>1, <1>2, <1>3 DEF OutputByte

\* JSON that is accepted is what its byte is shown as.
LEMMA JsonBack ==
    ASSUME NEW json \in OutputJson, jsonOutputToByte(json) # JsonError
    PROVE  jsonOutputToByte(json) \in OutputByte /\ outputToJson(jsonOutputToByte(json)) = json
<1>0. json = [type |-> json.type, value |-> json.value] /\ json.value \in Int
      /\ json.type \in {"plain", "s-com", "flicker"}
  BY DEF OutputJson
<1>1. CASE json.type = "plain"
  <2>1. json.value \in {0, 1} /\ jsonOutputToByte(json) = json.value
    BY <1>1 DEF jsonOutputToByte
  <2>. QED  BY <1>0, <1>1, <2>1, JsonOfByte DEF OutputByte
<1>2. CASE json.type = "s-com"
  <2>1. json.value \in 0 .. 127 /\ jsonOutputToByte(json) = 128 + json.value
    BY <1>2 DEF jsonOutputToByte
  <2> DEFINE b == 128 + json.value
  <2>2. b \in Nat /\ 127 < b /\ b < 256 /\ b - 128 = json.value
    BY <2>1
  <2> HIDE DEF b
  <2>3. outputToJson(b) = [type |-> "s-com", value |-> b - 128]
    BY <2>2, JsonOfByte DEF OutputByte
  <2>. QED  BY <1>0, <1>2, <2>1, <2>2, <2>3 DEF OutputByte, b
<1>3. CASE json.type = "flicker"
  <2> DEFINE c == flickPerMinToMtbUniValue(json.value)
             b == 64 + c
  <2>1. c # 0 /\ jsonOutputToByte(json) = b
    BY <1>3 DEF jsonOutputToByte
  <2>2. c \in 1 .. 8 /\ flickMtbUniToPerMin(c) = json.value
    BY <2>1, FlickerValue
  <2> HIDE DEF c
  <2>3. b \in Nat /\ 64 < b /\ b < 73 /\ b - 64 = c
    BY <2>2
  <2> HIDE DEF b
  <2>4. outputToJson(b) = [type |-> "flicker", value |-> flickMtbUniToPerMin(b - 64)]
    BY <2>3, JsonOfByte DEF OutputByte
  <2>. QED  BY <1>0, <1>3, <2>1, <2>2, <2>3, <2>4 DEF OutputByte
<1>. QED  BY <1>0, <1>1, <1>2, <1>3

\* A delay is read from JSON as it was written, ...
LEMMA DelayBack ==
    ASSUME NEW d \in Tenths
    PROVE  DelayOf(10 * d) = d
BY DEF DelayOf, Tenths

\* ... and one that is not refused has 4 bits.
LEMMA DelayRange ==
    ASSUME NEW v \in Int, DelayOf(v) # JsonError
    PROVE  DelayOf(v) \in Tenths
BY DEF DelayOf, Tenths

\* The bits of M from place o on, as a byte.
Weight(x, w, M) == IF x \in M THEN w ELSE 0
ByteOf(M, o) ==
    Weight(o, 1, M) + Weight(o + 1, 2, M) + Weight(o + 2, 4, M) + Weight(o + 3, 8, M)
      + Weight(o + 4, 16, M) + Weight(o + 5, 32, M) + Weight(o + 6, 64, M) + Weight(o + 7, 128, M)

IsPower(p, j) ==
    \/ j = 0 /\ p = 1
    \/ j = 1 /\ p = 2
    \/ j = 2 /\ p = 4
    \/ j = 3 /\ p = 8
    \/ j = 4 /\ p = 16
    \/ j = 5 /\ p = 32
    \/ j = 6 /\ p = 64
    \/ j = 7 /\ p = 128

\* The weights of the bits of a byte.
LEMMA Powers ==
    ASSUME NEW j \in 0 .. 7
    PROVE  IsPower(2^j, j)
<1>0. ASSUME j = 0 PROVE 2^j = 1
  BY <1>0
<1>1. ASSUME j = 1 PROVE 2^j = 2
  BY <1>1
<1>2. ASSUME j = 2 PROVE 2^j = 4
  BY <1>2
<1>3. ASSUME j = 3 PROVE 2^j = 8
  BY <1>3
<1>4. ASSUME j = 4 PROVE 2^j = 16
  BY <1>4
<1>5. ASSUME j = 5 PROVE 2^j = 32
  BY <1>5
<1>6. ASSUME j = 6 PROVE 2^j = 64
  BY <1>6
<1>7. ASSUME j = 7 PROVE 2^j = 128
  BY <1>7
<1>. QED  BY <1>0, <1>1, <1>2, <1>3, <1>4, <1>5, <1>6, <1>7 DEF IsPower

\* V is the sum of the weights w over the subsets of S, ...
Additive(V, w, S) ==
    /\ V \in [SUBSET S -> Nat] /\ w \in [S -> Nat \ {0}]
    /\ V[{}] = 0
    /\ \A s \in SUBSET S : \A x \in s : V[s] = w[x] + V[s \ {x}]

\* ... and so is whatever adds them one by one.
Iterated(it, w, S) ==
    /\ it[{}] = 0
    /\ \A s \in SUBSET S : s # {} => \E x \in s : it[s] = w[x] + it[s \ {x}]

\* A sum over a set does not depend on the order of its elements: what it is in any order
\* (it) is the function that adds (V).
LEMMA SumUnique ==
    ASSUME NEW S, NEW V, NEW w, NEW it, Additive(V, w, S), Iterated(it, w, S)
    PROVE  it[S] = V[S]
<1> USE DEF Additive, Iterated
<1> DEFINE Bad == {s \in SUBSET S : it[s] # V[s]}
           T == {V[s] : s \in Bad}
<1>1. SUFFICES ASSUME Bad # {} PROVE FALSE
  OBVIOUS
<1>2. T \in SUBSET Nat /\ T # {}
  BY <1>1
<1>3. PICK t \in T : \A u \in T : t <= u
  <2> HIDE DEF T
  <2>. QED  BY <1>2, Least
<1>4. PICK s \in Bad : t = V[s]
  OBVIOUS
<1>5. s # {}
  BY <1>4
<1>6. PICK x \in s : it[s] = w[x] + it[s \ {x}]
  BY <1>4, <1>5
<1>7. s \ {x} \in SUBSET S /\ V[s] = w[x] + V[s \ {x}] /\ w[x] \in Nat \ {0} /\ V[s \ {x}] \in Nat
  <2>1. s \in SUBSET S /\ x \in S /\ s \ {x} \in SUBSET S
    BY <1>4, <1>6
  <2> HIDE DEF Bad, T
  <2>2. V[s] = w[x] + V[s \ {x}]
    BY <1>6, <2>1
  <2>3. w[x] \in Nat \ {0} /\ V[s \ {x}] \in Nat
    BY <2>1
  <2>. QED  BY <2>1, <2>2, <2>3
<1>8. V[s \ {x}] < V[s]
  BY <1>7
<1>9. s \ {x} \notin Bad
  <2>1. s \ {x} \in Bad => V[s \ {x}] \in T
    OBVIOUS
  <2> HIDE DEF Bad, T
  <2>2. t = V[s] /\ t \in Nat /\ V[s \ {x}] \in Nat /\ \A u \in T : t <= u
    BY <1>2, <1>3, <1>4, <1>7
  <2>. QED  BY <1>8, <2>1, <2>2
<1>10. it[s \ {x}] = V[s \ {x}]
  BY <1>7, <1>9
<1>. QED  BY <1>4, <1>6, <1>7, <1>10

\* Byte k of the bits of S.
LEMMA LittleEndianByte ==
    ASSUME NEW S \in SUBSET Int, NEW k \in Nat \ {0}
    PROVE  MapThenSumSet(LAMBDA i : 2^(i % 8), {i \in S : i \div 8 = k - 1})
             = ByteOf(S, 8 * (k - 1))
<1> DEFINE o == 8 * (k - 1)
           U == {i \in S : i \div 8 = k - 1}
           V == [s \in SUBSET U |-> ByteOf(s, o)]
           w == [x \in U |-> 2^(x % 8)]
           Step(it) == [s \in SUBSET U |->
               IF s = {} THEN 0
               ELSE LET x == CHOOSE y \in s : TRUE IN 2^(x % 8) + it[s \ {x}]]
           it == CHOOSE it : it = Step(it)
<1>1. MapThenSumSet(LAMBDA i : 2^(i % 8), U) = it[U]
  BY Zenon DEF MapThenSumSet, MapThenFoldSet
<1>2. ByteOf(S, o) = ByteOf(U, o)
  <2>1. \A j \in 0 .. 7 : o + j \in Nat /\ (o + j) \div 8 = k - 1
    OBVIOUS
  <2>2. \A j \in 0 .. 7 : o + j \in S <=> o + j \in U
    BY <2>1
  <2>3. o \in S <=> o \in U
    <3>1. o + 0 = o
      OBVIOUS
    <3>. QED  BY <2>2, <3>1
  <2> HIDE DEF o, U
  <2>. QED  BY <2>2, <2>3 DEF ByteOf, Weight
<1>3. V \in [SUBSET U -> Nat] /\ V[{}] = 0
  <2>1. \A s : ByteOf(s, o) \in Nat /\ (s = {} => ByteOf(s, o) = 0)
    BY DEF ByteOf, Weight
  <2>. QED  BY <2>1
<1>4. \A x \in U : x - o \in 0 .. 7 /\ x % 8 = x - o
  <2> SUFFICES ASSUME NEW x \in U PROVE x - o \in 0 .. 7 /\ x % 8 = x - o
    OBVIOUS
  <2>1. x \in Int /\ x \div 8 = k - 1
    OBVIOUS
  <2>. QED  BY <2>1
<1>5. \A x \in U : w[x] \in Nat \ {0} /\ \E j \in 0 .. 7 : x = o + j /\ w[x] = 2^j
  <2> SUFFICES ASSUME NEW x \in U
               PROVE  w[x] \in Nat \ {0} /\ \E j \in 0 .. 7 : x = o + j /\ w[x] = 2^j
    OBVIOUS
  <2>1. PICK j \in 0 .. 7 : j = x - o
    BY <1>4
  <2>2. w[x] = 2^j /\ x \in Int /\ x = o + j
    BY <1>4, <2>1
  <2>3. 2^j \in Nat \ {0}
    <3> DEFINE p == 2^j
    <3>1. IsPower(p, j)
      BY Powers
    <3> HIDE DEF p
    <3>2. p \in Nat \ {0}
      BY <3>1 DEF IsPower
    <3>. QED  BY <3>2 DEF p
  <2>. QED  BY <2>2, <2>3
<1>6. \A s \in SUBSET U : \A x \in s : V[s] = w[x] + V[s \ {x}]
  <2> SUFFICES ASSUME NEW s \in SUBSET U, NEW x \in s
               PROVE  V[s] = w[x] + V[s \ {x}]
    OBVIOUS
  <2>0. V[s] = ByteOf(s, o) /\ V[s \ {x}] = ByteOf(s \ {x}, o)
    <3>1. s \ {x} \in SUBSET U
      OBVIOUS
    <3>. QED  BY <3>1
  <2>1. PICK j \in 0 .. 7 : x = o + j /\ w[x] = 2^j
    BY <1>5
  <2>2. o \in Nat
    OBVIOUS
  <2> HIDE DEF o, U, V, w
  <2>3. ASSUME NEW i \in 0 .. 7 
        PROVE  o + i \in s \ {x} <=> o + i \in s /\ i # j
    BY <2>1, <2>2
  <2> DEFINE p == 2^j
  <2>4. IsPower(p, j)
    BY Powers
  <2> HIDE DEF p
  <2>6. /\ o \in s \ {x} <=> o \in s /\ 0 # j
        /\ o + 1 \in s \ {x} <=> o + 1 \in s /\ 1 # j
        /\ o + 2 \in s \ {x} <=> o + 2 \in s /\ 2 # j
        /\ o + 3 \in s \ {x} <=> o + 3 \in s /\ 3 # j
        /\ o + 4 \in s \ {x} <=> o + 4 \in s /\ 4 # j
        /\ o + 5 \in s \ {x} <=> o + 5 \in s /\ 5 # j
        /\ o + 6 \in s \ {x} <=> o + 6 \in s /\ 6 # j
        /\ o + 7 \in s \ {x} <=> o + 7 \in s /\ 7 # j
    BY <2>1, <2>2
  <2>7. o + j \in s
    BY <2>1
  <2> DEFINE r == s \ {x}
  <2> HIDE DEF r
  <2>5. ByteOf(s, o) = p + ByteOf(r, o)
    BY <2>2, <2>4, <2>6, <2>7 DEF ByteOf, Weight, r, IsPower
  <2>. QED  BY <2>0, <2>1, <2>5 DEF p, r
<1>7. \E f : f = Step(f)
  <2>1. V = Step(V)
    <3>1. ASSUME NEW s \in SUBSET U, s # {}
          PROVE  V[s] = LET x == CHOOSE y \in s : TRUE IN 2^(x % 8) + V[s \ {x}]
      <4> DEFINE x == CHOOSE y \in s : TRUE
      <4>1. x \in s
        BY <3>1
      <4>2. w[x] = 2^(x % 8)
        BY <4>1
      <4> HIDE DEF x, V, U, w
      <4>3. V[s] = 2^(x % 8) + V[s \ {x}]
        BY <1>6, <4>1, <4>2
      <4>. QED  BY <4>3 DEF x
    <3>. QED  BY <1>3, <3>1
  <2> HIDE DEF V, Step
  <2>. QED  BY <2>1
<1>8. it = Step(it)
  <2> HIDE DEF Step
  <2>. QED  BY <1>7
<1>9. it[{}] = 0
  <2> HIDE DEF it, U
  <2>1. {} \in SUBSET U
    OBVIOUS
  <2>. QED  BY <1>8, <2>1
<1>10. \A s \in SUBSET U : s # {} => \E x \in s : it[s] = w[x] + it[s \ {x}]
  <2> HIDE DEF it
  <2> SUFFICES ASSUME NEW s \in SUBSET U, s # {}
               PROVE  \E x \in s : it[s] = w[x] + it[s \ {x}]
    OBVIOUS
  <2> DEFINE x == CHOOSE y \in s : TRUE
  <2>1. x \in s
    OBVIOUS
  <2>2. w[x] = 2^(x % 8)
    BY <2>1
  <2>3. it[s] = 2^(x % 8) + it[s \ {x}]
    <3> HIDE DEF U
    <3>. QED  BY <1>8
  <2> HIDE DEF x, w, U, Step
  <2>. QED  BY <2>1, <2>2, <2>3
<1>11. w \in [U -> Nat \ {0}]
  BY <1>5
<1>12. it[U] = V[U]
  <2> HIDE DEF it, V, w, U, o, Step
  <2>1. Additive(V, w, U)
    BY <1>3, <1>6, <1>11 DEF Additive
  <2>2. Iterated(it, w, U)
    BY <1>9, <1>10 DEF Iterated
  <2>. QED  BY <2>1, <2>2, SumUnique
<1>13. V[U] = ByteOf(U, o)
  OBVIOUS
<1>. QED  BY <1>1, <1>2, <1>12, <1>13

\* The bits of such a byte.
LEMMA BitsOfByte ==
    ASSUME NEW M, NEW o \in Nat, NEW j \in 0 .. 7
    PROVE  ByteOf(M, o) \in Bytes /\ (Bit(ByteOf(M, o), j) = 1 <=> o + j \in M)
<1> DEFINE b(i) == IF o + i \in M THEN 1 ELSE 0
<1>0. o + 0 = o
  OBVIOUS
<1>1. ByteOf(M, o) = b(0) + 2 * b(1) + 4 * b(2) + 8 * b(3) + 16 * b(4) + 32 * b(5)
                       + 64 * b(6) + 128 * b(7)
  BY <1>0 DEF ByteOf, Weight
<1>2. \A i \in 0 .. 7 : b(i) \in {0, 1} /\ (b(i) = 1 <=> o + i \in M)
  OBVIOUS
<1> HIDE DEF b
<1>3. PICK b0, b1, b2, b3, b4, b5, b6, b7 \in {0, 1} :
        b0 = b(0) /\ b1 = b(1) /\ b2 = b(2) /\ b3 = b(3) /\ b4 = b(4) /\ b5 = b(5)
          /\ b6 = b(6) /\ b7 = b(7)
  BY <1>2
<1> DEFINE n == b0 + 2 * b1 + 4 * b2 + 8 * b3 + 16 * b4 + 32 * b5 + 64 * b6 + 128 * b7
<1>4. n \in Bytes /\ ByteOf(M, o) = n
  <2>1. n \in Bytes
    BY DEF Bytes
  <2>. QED  BY <1>1, <1>3, <2>1
<1>5. /\ (n \div 1) % 2 = b0 /\ (n \div 2) % 2 = b1 /\ (n \div 4) % 2 = b2
      /\ (n \div 8) % 2 = b3 /\ (n \div 16) % 2 = b4 /\ (n \div 32) % 2 = b5
      /\ (n \div 64) % 2 = b6 /\ (n \div 128) % 2 = b7
  OBVIOUS
<1> HIDE DEF n
<1>6. Bit(n, j) = b(j)
  <2> DEFINE p == 2^j
  <2>1. IsPower(p, j)
    BY Powers
  <2>2. Bit(n, j) = (n \div p) % 2
    BY DEF Bit
  <2> HIDE DEF p
  <2>3. (n \div p) % 2 = b(j)
    BY <1>3, <1>5, <2>1 DEF IsPower
  <2>. QED  BY <2>2, <2>3
<1>. QED  BY <1>2, <1>4, <1>6

\* The bytes LittleEndian computes, one by one.
LEMMA LittleEndianIs ==
    ASSUME NEW S \in SUBSET Int, NEW n \in Nat
    PROVE  LittleEndian(S, n) = [k \in 1 .. n |-> ByteOf(S, 8 * (k - 1))]
<1>1. \A k \in 1 .. n : k \in Nat \ {0}
  OBVIOUS
<1>2. \A k \in 1 .. n : MapThenSumSet(LAMBDA i : 2^(i % 8), {i \in S : i \div 8 = k - 1})
                          = ByteOf(S, 8 * (k - 1))
  BY <1>1, LittleEndianByte, Zenon
<1>. QED  BY <1>2, Zenon DEF LittleEndian

\* A function over the first n numbers is a sequence.
LEMMA IsSequence ==
    ASSUME NEW n \in Nat, NEW T, NEW f \in [1 .. n -> T]
    PROVE  f \in Seq(T) /\ Len(f) = n /\ DOMAIN f = 1 .. n
OBVIOUS

\* The bits of the bytes of S are S.
LEMMA BitsBack ==
    ASSUME NEW n \in Nat, NEW S \in SUBSET (0 .. 8 * n - 1), NEW bytes, Len(bytes) = n,
           \A k \in 1 .. n : bytes[k] = ByteOf(S, 8 * (k - 1))
    PROVE  OnBits(bytes) = S
<1>1. ASSUME NEW i \in 0 .. 8 * n - 1 PROVE Bit(bytes[1 + i \div 8], i % 8) = 1 <=> i \in S
  <2> DEFINE k == 1 + i \div 8
             j == i % 8
             o == 8 * (k - 1)
  <2>1. k \in 1 .. n /\ j \in 0 .. 7 /\ o \in Nat /\ o + j = i
    OBVIOUS
  <2> HIDE DEF k, j, o
  <2>2. Bit(ByteOf(S, o), j) = 1 <=> o + j \in S
    BY <2>1, BitsOfByte
  <2>3. bytes[k] = ByteOf(S, o)
    BY <2>1 DEF o
  <2>. QED  BY <2>1, <2>2, <2>3 DEF k, j
<1>. QED  BY <1>1 DEF OnBits

\* A delay of 4 bits is not cut.
LEMMA MinDelay ==
    ASSUME NEW d \in Tenths
    PROVE  Min({d, 15}) = d
<1>1. d \in {d, 15} /\ \A y \in {d, 15} : d <= y
  BY DEF Tenths
<1>2. Min({d, 15}) \in {d, 15} /\ \A y \in {d, 15} : Min({d, 15}) <= y
  BY <1>1 DEF Min
<1> DEFINE m == Min({d, 15})
<1> HIDE DEF m
<1>3. m \in {d, 15} /\ m <= d
  BY <1>2 DEF m
<1>. QED  BY <1>3 DEF m, Tenths

\* Two delays in a byte are found again.
LEMMA DelayBytesAre ==
    ASSUME NEW d \in [1 .. 16 -> Tenths]
    PROVE  /\ DelayBytes(d) \in [1 .. 8 -> Bytes]
           /\ DelayBytes(d) = [i \in 1 .. 8 |-> d[2 * i - 1] + 16 * d[2 * i]]
           /\ \A i \in 1 .. 16 : Nibble(DelayBytes(d)[1 + (i - 1) \div 2], i - 1) = d[i]
<1>0. d \in Seq(Tenths) /\ Len(d) = 16
  BY IsSequence
<1>1. \A i \in 1 .. 8 : 2 * i - 1 \in 1 .. 16 /\ 2 * i \in 1 .. 16
  OBVIOUS
<1>2. \A i \in 1 .. 8 : d[2 * i - 1] \in Tenths /\ d[2 * i] \in Tenths
  BY <1>1
<1>3. \A i \in 1 .. 8 : Min({d[2 * i - 1], 15}) = d[2 * i - 1] /\ Min({d[2 * i], 15}) = d[2 * i]
  BY <1>2, MinDelay
<1>4. DelayBytes(d) = [i \in 1 .. 8 |-> d[2 * i - 1] + 16 * d[2 * i]]
  <2>1. 16 \div 2 = 8
    OBVIOUS
  <2>2. DelayBytes(d) = [i \in 1 .. 8 |-> Min({d[2 * i - 1], 15}) + 16 * Min({d[2 * i], 15})]
    BY <1>0, <2>1 DEF DelayBytes
  <2>. QED  BY <1>3, <2>2
<1>5. ASSUME NEW i \in 1 .. 16
      PROVE  Nibble(DelayBytes(d)[1 + (i - 1) \div 2], i - 1) = d[i]
  <2> DEFINE k == 1 + (i - 1) \div 2
             lo == d[2 * k - 1]
             hi == d[2 * k]
             byte == DelayBytes(d)[k]
  <2>1. k \in 1 .. 8 /\ (IF (i - 1) % 2 = 0 THEN i = 2 * k - 1 ELSE i = 2 * k)
    OBVIOUS
  <2>2. byte = lo + 16 * hi /\ lo \in Tenths /\ hi \in Tenths
    BY <1>2, <1>4, <2>1
  <2> HIDE DEF k, byte
  <2>3. byte % 16 = lo /\ byte \div 16 = hi
    <3> HIDE DEF lo, hi
    <3>. QED  BY <2>2 DEF Tenths
  <2>4. Nibble(byte, i - 1) = IF (i - 1) % 2 = 0 THEN lo ELSE hi
    BY <2>3 DEF Nibble
  <2>. QED  BY <2>1, <2>4 DEF k, byte
<1>6. DelayBytes(d) \in [1 .. 8 -> Bytes]
  BY <1>2, <1>4 DEF Tenths, Bytes
<1>. QED  BY <1>4, <1>5, <1>6

\* Full outputs are found again by their rank.
LEMMA RankIsUnique ==
    ASSUME NEW S \in SUBSET Nat, IsFiniteSet(S), NEW i \in S, NEW k \in S,
           Below(S, i) = Below(S, k)
    PROVE  i = k
<1>1. ASSUME NEW a \in S, NEW b \in S, a < b PROVE Below(S, a) < Below(S, b)
  <2> DEFINE A == {h \in S : h < a}
             B == {h \in S : h < b}
  <2>1. A \subseteq B /\ A # B /\ IsFiniteSet(A) /\ IsFiniteSet(B)
    <3>0. a \in Nat /\ b \in Nat /\ \A h \in S : h \in Nat /\ (h < a => h < b)
      BY <1>1
    <3>1. a \in B /\ a \notin A
      BY <1>1, <3>0
    <3>4. A \subseteq B
      BY <3>0
    <3>2. A \subseteq S /\ B \subseteq S
      OBVIOUS
    <3>3. IsFiniteSet(A) /\ IsFiniteSet(B)
      BY <3>2, FS_Subset
    <3> HIDE DEF A, B
    <3>. QED  BY <3>1, <3>3, <3>4
  <2>2. Cardinality(A) \in Nat /\ Cardinality(B) \in Nat
    BY <2>1, FS_CardinalityType
  <2>3. Cardinality(A) <= Cardinality(B) /\ Cardinality(A) # Cardinality(B)
    BY <2>1, FS_Subset
  <2>. QED  BY <2>2, <2>3 DEF Below
<1>2. Below(S, i) \in Nat
  <2>1. IsFiniteSet({h \in S : h < i})
    <3>1. {h \in S : h < i} \subseteq S
      OBVIOUS
    <3>. QED  BY <3>1, FS_Subset
  <2>. QED  BY <2>1, FS_CardinalityType DEF Below
<1>. QED  BY <1>1, <1>2

\* The rank of a full output is the number of a full byte.
LEMMA RankInside ==
    ASSUME NEW S \in SUBSET Nat, IsFiniteSet(S), NEW i \in S
    PROVE  /\ Below(S, i) \in 0 .. Cardinality(S) - 1
           /\ Below(S, i + 1) = Below(S, i) + 1
<1> DEFINE A == {h \in S : h < i}
<1>1. A \subseteq S /\ IsFiniteSet(A) /\ i \notin A
  <2>1. A \subseteq S /\ i \notin A
    OBVIOUS
  <2>. QED  BY <2>1, FS_Subset
<1>2. Cardinality(A) \in Nat /\ Cardinality(S) \in Nat
  BY <1>1, FS_CardinalityType
<1>3. {h \in S : h < i + 1} = A \cup {i}
  <2>1. \A h \in S : h \in Nat /\ (h < i + 1 <=> h < i \/ h = i)
    OBVIOUS
  <2>. QED  BY <2>1
<1>4. Cardinality(A \cup {i}) = Cardinality(A) + 1
  BY <1>1, FS_AddElement
<1>5. Cardinality(A) <= Cardinality(S) /\ Cardinality(A) # Cardinality(S)
  <2>1. A # S /\ A \in SUBSET S
    BY <1>1
  <2> HIDE DEF A
  <2>. QED  BY <2>1, FS_Subset
<1>6. Below(S, i) = Cardinality(A) /\ Below(S, i + 1) = Cardinality(A \cup {i})
  BY <1>3 DEF Below
<1> HIDE DEF A
<1>. QED  BY <1>2, <1>4, <1>5, <1>6

\* The outputs are read from their mask, their plain states and their full bytes.
LEMMA OutputsBack ==
    ASSUME NEW n \in Nat, NEW o \in [1 .. n -> OutputByte]
    PROVE  OutputsFrom(FullOutputs(o), PlainOn(o), FullBytes(o), o) = o
<1> DEFINE full == FullOutputs(o)
<1>0. o \in Seq(OutputByte) /\ Len(o) = n /\ DOMAIN o = 1 .. n
  OBVIOUS
<1>1. /\ full = {i \in 0 .. n - 1 : IsFull(o[i + 1])}
      /\ PlainOn(o) = {i \in 0 .. n - 1 : o[i + 1] \in 1 .. 63}
  BY <1>0 DEF FullOutputs, PlainOn
<1>2. full \in SUBSET Nat /\ IsFiniteSet(full)
  <2>1. full \subseteq 0 .. n - 1 /\ IsFiniteSet(0 .. n - 1)
    BY <1>1, FS_Interval
  <2>2. 0 .. n - 1 \subseteq Nat
    OBVIOUS
  <2> HIDE DEF full
  <2>. QED  BY <2>1, <2>2, FS_Subset
<1>3. FullBytes(o) = [j \in 1 .. Cardinality(full) |->
                        o[1 + CHOOSE i \in full : Below(full, i) = j - 1]]
  BY DEF FullBytes
<1> HIDE DEF full
<1>4. Cardinality(full) \in Nat
  BY <1>2, FS_CardinalityType
<1>5. Len(FullBytes(o)) = Cardinality(full)
  <2> DEFINE m == Cardinality(full)
  <2> HIDE DEF m
  <2>. QED  BY <1>3, <1>4 DEF m
<1>6. ASSUME NEW k \in 1 .. n
      PROVE  o[k] = LET j == Below(full, k)
                    IN  IF (k - 1) \notin full THEN IF (k - 1) \in PlainOn(o) THEN 1 ELSE 0
                        ELSE IF j <= Len(FullBytes(o)) THEN FullBytes(o)[j] ELSE o[k]
  <2>0. k - 1 \in 0 .. n - 1 /\ (k - 1) + 1 = k /\ o[k] \in OutputByte
    OBVIOUS
  <2>1. CASE k - 1 \notin full
    <3>1. ~IsFull(o[k])
      BY <1>1, <2>0, <2>1
    <3> DEFINE b == o[k]
    <3>2. k - 1 \in PlainOn(o) <=> b \in 1 .. 63
      BY <1>1, <2>0
    <3>3. ~IsFull(b) /\ b \in OutputByte
      BY <2>0, <3>1
    <3> HIDE DEF b
    <3>4. b \in {0, 1}
      BY <3>3 DEF IsFull, OutputByte
    <3>5. b = IF k - 1 \in PlainOn(o) THEN 1 ELSE 0
      BY <3>2, <3>4
    <3>. QED  BY <2>1, <3>5 DEF b
  <2>2. CASE k - 1 \in full
    <3> DEFINE j == Below(full, k)
               i == CHOOSE i \in full : Below(full, i) = j - 1
    <3>1. Below(full, k - 1) \in 0 .. Cardinality(full) - 1 /\ j = Below(full, k - 1) + 1
      BY <1>2, <2>0, <2>2, RankInside
    <3> HIDE DEF j
    <3>2. j \in 1 .. Cardinality(full) /\ Below(full, k - 1) = j - 1
      BY <1>4, <3>1
    <3>3. i \in full /\ Below(full, i) = j - 1
      BY <2>2, <3>2
    <3> HIDE DEF i
    <3>4. i = k - 1
      BY <1>2, <2>2, <3>2, <3>3, RankIsUnique
    <3>5. FullBytes(o)[j] = o[1 + i]
      BY <1>3, <3>2 DEF i
    <3>6. 1 + i = k
      BY <3>4
    <3>. QED  BY <1>4, <1>5, <2>2, <3>2, <3>5, <3>6 DEF j
  <2>. QED  BY <2>1, <2>2
<1>. QED  BY <1>0, <1>6 DEF OutputsFrom, full

-----------------------------------------------------------------------------
(* The instances of OutputBytes in the codecs are OutputBytes *)

\* In MTB-UNI.
LEMMA UniOperators ==
    /\ Uni!JsonError = JsonError
    /\ Uni!OutputJson = OutputJson
    /\ \A b : Uni!outputToJson(b) = outputToJson(b)
    /\ \A j : Uni!jsonOutputToByte(j) = jsonOutputToByte(j)
    /\ \A v : Uni!DelayOf(v) = DelayOf(v)
    /\ \A n, i : Uni!Bit(n, i) = Bit(n, i)
    /\ \A b, i : Uni!Nibble(b, i) = Nibble(b, i)
    /\ \A d : Uni!DelayBytes(d) = DelayBytes(d)
    /\ \A S, n : Uni!LittleEndian(S, n) = LittleEndian(S, n)
    /\ \A bytes : Uni!OnBits(bytes) = OnBits(bytes)
    /\ \A o : Uni!FullOutputs(o) = FullOutputs(o)
    /\ \A o : Uni!PlainOn(o) = PlainOn(o)
    /\ \A m : Uni!Cardinality(m) = Cardinality(m)
    /\ \A m, i : Uni!Below(m, i) = Below(m, i)
    /\ \A o : Uni!FullBytes(o) = FullBytes(o)
    /\ \A m, p, f, o : Uni!OutputsFrom(m, p, f, o) = OutputsFrom(m, p, f, o)
<1>1. Uni!JsonError = JsonError
  BY Zenon DEF Uni!JsonError, JsonError
<1>2. Uni!OutputJson = OutputJson
  BY Zenon DEF Uni!OutputJson, OutputJson
<1>3. \A b : Uni!outputToJson(b) = outputToJson(b)
  BY Zenon
       DEF Uni!outputToJson, outputToJson, Uni!Bit, Bit, Uni!flickMtbUniToPerMin,
           flickMtbUniToPerMin, Uni!FlickerPerMin, FlickerPerMin
<1>4. \A j : Uni!jsonOutputToByte(j) = jsonOutputToByte(j)
  BY Zenon
       DEF Uni!jsonOutputToByte, jsonOutputToByte, Uni!flickPerMinToMtbUniValue,
           flickPerMinToMtbUniValue, Uni!FlickerPerMin, FlickerPerMin, Uni!JsonError, JsonError
<1>5. \A v : Uni!DelayOf(v) = DelayOf(v)
  BY Zenon DEF Uni!DelayOf, DelayOf, Uni!JsonError, JsonError
<1>6. \A n, i : Uni!Bit(n, i) = Bit(n, i)
  BY Zenon DEF Uni!Bit, Bit
<1>7. \A b, i : Uni!Nibble(b, i) = Nibble(b, i)
  BY Zenon DEF Uni!Nibble, Nibble
<1>8. \A d : Uni!DelayBytes(d) = DelayBytes(d)
  BY Zenon DEF Uni!DelayBytes, DelayBytes, Uni!Min, Min
<1>9. \A S, n : Uni!LittleEndian(S, n) = LittleEndian(S, n)
  BY Zenon
       DEF Uni!LittleEndian, LittleEndian, Uni!MapThenSumSet, MapThenSumSet, Uni!MapThenFoldSet,
           MapThenFoldSet
<1>10. \A bytes : Uni!OnBits(bytes) = OnBits(bytes)
  BY Zenon DEF Uni!OnBits, OnBits, Uni!Bit, Bit
<1>11. \A o : Uni!FullOutputs(o) = FullOutputs(o)
  BY Zenon DEF Uni!FullOutputs, FullOutputs, Uni!IsFull, IsFull
<1>12. \A o : Uni!PlainOn(o) = PlainOn(o)
  BY Zenon DEF Uni!PlainOn, PlainOn
<1>13. \A m : Uni!Cardinality(m) = Cardinality(m)
  BY Zenon DEF Uni!Cardinality, Cardinality
<1>14. \A m, i : Uni!Below(m, i) = Below(m, i)
  BY <1>13 DEF Uni!Below, Below
<1>15. \A o : Uni!FullBytes(o) = FullBytes(o)
  BY Zenon
       DEF Uni!FullBytes, FullBytes, Uni!FullOutputs, FullOutputs, Uni!IsFull, IsFull, Uni!Below,
           Below, Uni!Cardinality, Cardinality
<1>16. \A m, p, f, o : Uni!OutputsFrom(m, p, f, o) = OutputsFrom(m, p, f, o)
  BY <1>14 DEF Uni!OutputsFrom, OutputsFrom
<1>. QED  BY <1>1, <1>2, <1>3, <1>4, <1>5, <1>6, <1>7, <1>8, <1>9, <1>10, <1>11, <1>12, <1>13,
             <1>14, <1>15, <1>16

\* In MTB-UNIS.
LEMMA UnisOperators ==
    /\ Unis!JsonError = JsonError
    /\ Unis!OutputJson = OutputJson
    /\ \A b : Unis!outputToJson(b) = outputToJson(b)
    /\ \A j : Unis!jsonOutputToByte(j) = jsonOutputToByte(j)
    /\ \A v : Unis!DelayOf(v) = DelayOf(v)
    /\ \A n, i : Unis!Bit(n, i) = Bit(n, i)
    /\ \A b, i : Unis!Nibble(b, i) = Nibble(b, i)
    /\ \A d : Unis!DelayBytes(d) = DelayBytes(d)
    /\ \A S, n : Unis!LittleEndian(S, n) = LittleEndian(S, n)
    /\ \A bytes : Unis!OnBits(bytes) = OnBits(bytes)
    /\ \A o : Unis!FullOutputs(o) = FullOutputs(o)
    /\ \A o : Unis!PlainOn(o) = PlainOn(o)
    /\ \A m : Unis!Cardinality(m) = Cardinality(m)
    /\ \A m, i : Unis!Below(m, i) = Below(m, i)
    /\ \A o : Unis!FullBytes(o) = FullBytes(o)
    /\ \A m, p, f, o : Unis!OutputsFrom(m, p, f, o) = OutputsFrom(m, p, f, o)
<1>1. Unis!JsonError = JsonError
  BY Zenon DEF Unis!JsonError, JsonError
<1>2. Unis!OutputJson = OutputJson
  BY Zenon DEF Unis!OutputJson, OutputJson
<1>3. \A b : Unis!outputToJson(b) = outputToJson(b)
  BY Zenon
       DEF Unis!outputToJson, outputToJson, Unis!Bit, Bit, Unis!flickMtbUniToPerMin,
           flickMtbUniToPerMin, Unis!FlickerPerMin, FlickerPerMin
<1>4. \A j : Unis!jsonOutputToByte(j) = jsonOutputToByte(j)
  BY Zenon
       DEF Unis!jsonOutputToByte, jsonOutputToByte, Unis!flickPerMinToMtbUniValue,
           flickPerMinToMtbUniValue, Unis!FlickerPerMin, FlickerPerMin, Unis!JsonError,
           JsonError
<1>5. \A v : Unis!DelayOf(v) = DelayOf(v)
  BY Zenon DEF Unis!DelayOf, DelayOf, Unis!JsonError, JsonError
<1>6. \A n, i : Unis!Bit(n, i) = Bit(n, i)
  BY Zenon DEF Unis!Bit, Bit
<1>7. \A b, i : Unis!Nibble(b, i) = Nibble(b, i)
  BY Zenon DEF Unis!Nibble, Nibble
<1>8. \A d : Unis!DelayBytes(d) = DelayBytes(d)
  BY Zenon DEF Unis!DelayBytes, DelayBytes, Unis!Min, Min
<1>9. \A S, n : Unis!LittleEndian(S, n) = LittleEndian(S, n)
  BY Zenon
       DEF Unis!LittleEndian, LittleEndian, Unis!MapThenSumSet, MapThenSumSet,
           Unis!MapThenFoldSet, MapThenFoldSet
<1>10. \A bytes : Unis!OnBits(bytes) = OnBits(bytes)
  BY Zenon DEF Unis!OnBits, OnBits, Unis!Bit, Bit
<1>11. \A o : Unis!FullOutputs(o) = FullOutputs(o)
  BY Zenon DEF Unis!FullOutputs, FullOutputs, Unis!IsFull, IsFull
<1>12. \A o : Unis!PlainOn(o) = PlainOn(o)
  BY Zenon DEF Unis!PlainOn, PlainOn
<1>13. \A m : Unis!Cardinality(m) = Cardinality(m)
  BY Zenon DEF Unis!Cardinality, Cardinality
<1>14. \A m, i : Unis!Below(m, i) = Below(m, i)
  BY <1>13 DEF Unis!Below, Below
<1>15. \A o : Unis!FullBytes(o) = FullBytes(o)
  BY Zenon
       DEF Unis!FullBytes, FullBytes, Unis!FullOutputs, FullOutputs, Unis!IsFull, IsFull,
           Unis!Below, Below, Unis!Cardinality, Cardinality
<1>16. \A m, p, f, o : Unis!OutputsFrom(m, p, f, o) = OutputsFrom(m, p, f, o)
  BY <1>14 DEF Unis!OutputsFrom, OutputsFrom
<1>. QED  BY <1>1, <1>2, <1>3, <1>4, <1>5, <1>6, <1>7, <1>8, <1>9, <1>10, <1>11, <1>12, <1>13,
             <1>14, <1>15, <1>16

\* In MTB-LED.
LEMMA LedOperators ==
    /\ \A n, i : Led!Bit(n, i) = Bit(n, i)
    /\ \A S, n : Led!LittleEndian(S, n) = LittleEndian(S, n)
    /\ \A bytes : Led!OnBits(bytes) = OnBits(bytes)
<1>1. \A n, i : Led!Bit(n, i) = Bit(n, i)
  BY Zenon DEF Led!Bit, Bit
<1>2. \A S, n : Led!LittleEndian(S, n) = LittleEndian(S, n)
  BY Zenon
       DEF Led!LittleEndian, LittleEndian, Led!MapThenSumSet, MapThenSumSet, Led!MapThenFoldSet,
           MapThenFoldSet
<1>3. \A bytes : Led!OnBits(bytes) = OnBits(bytes)
  BY Zenon DEF Led!OnBits, OnBits, Led!Bit, Bit
<1>. QED  BY <1>1, <1>2, <1>3

-----------------------------------------------------------------------------
(* Sequences of bytes, and numbers of two bytes *)

Words == {n \in Nat : n < 65536}

\* Two sequences, one after the other.
LEMMA Joined ==
    ASSUME NEW p \in Seq(Nat), NEW q \in Seq(Nat)
    PROVE  /\ p \o q \in Seq(Nat) /\ Len(p \o q) = Len(p) + Len(q)
           /\ Len(p) \in Nat /\ Len(q) \in Nat
           /\ \A i \in 1 .. Len(p) : (p \o q)[i] = p[i]
           /\ \A i \in 1 .. Len(q) : (p \o q)[Len(p) + i] = q[i]
OBVIOUS

\* What is cut out of a sequence, ...
LEMMA CutSeq ==
    ASSUME NEW T, NEW s \in Seq(T), NEW a \in Nat, NEW n \in Nat, a + n <= Len(s)
    PROVE  /\ SubSeq(s, a + 1, a + n) \in Seq(T) /\ Len(SubSeq(s, a + 1, a + n)) = n
           /\ \A i \in 1 .. n : SubSeq(s, a + 1, a + n)[i] = s[a + i]
OBVIOUS

\* ... of numbers.
LEMMA CutOut ==
    ASSUME NEW s \in Seq(Nat), NEW a \in Nat, NEW n \in Nat, a + n <= Len(s)
    PROVE  SubSeq(s, a + 1, a + n) = [i \in 1 .. n |-> s[a + i]]
<1> DEFINE c == SubSeq(s, a + 1, a + n)
<1>1. c \in Seq(Nat) /\ Len(c) = n /\ \A i \in 1 .. n : c[i] = s[a + i]
  BY CutSeq
<1> HIDE DEF c
<1>2. c = [i \in 1 .. n |-> c[i]]
  BY <1>1
<1>3. c = [i \in 1 .. n |-> s[a + i]]
  BY <1>1, <1>2
<1>. QED  BY <1>3 DEF c

\* A sequence over a set is one over a larger set.
LEMMA Larger ==
    ASSUME NEW T, NEW U, T \subseteq U, NEW s \in Seq(T)
    PROVE  s \in Seq(U)
OBVIOUS

\* A byte is made of its bits.
LEMMA ByteIsItsBits ==
    ASSUME NEW n \in Bytes, NEW S, NEW o \in Nat,
           \A j \in 0 .. 7 : o + j \in S <=> Bit(n, j) = 1
    PROVE  ByteOf(S, o) = n
<1> DEFINE p(j) == 2^j
<1>1. ASSUME NEW j \in 0 .. 7 PROVE o + j \in S <=> (n \div p(j)) % 2 = 1
  BY DEF Bit
<1>2. \A j \in 0 .. 7 : IsPower(p(j), j)
  BY Powers
<1> HIDE DEF p
<1>3. /\ o + 0 \in S <=> (n \div 1) % 2 = 1
      /\ o + 1 \in S <=> (n \div 2) % 2 = 1
      /\ o + 2 \in S <=> (n \div 4) % 2 = 1
      /\ o + 3 \in S <=> (n \div 8) % 2 = 1
      /\ o + 4 \in S <=> (n \div 16) % 2 = 1
      /\ o + 5 \in S <=> (n \div 32) % 2 = 1
      /\ o + 6 \in S <=> (n \div 64) % 2 = 1
      /\ o + 7 \in S <=> (n \div 128) % 2 = 1
  <2>1. p(0) = 1 /\ p(1) = 2 /\ p(2) = 4 /\ p(3) = 8 /\ p(4) = 16 /\ p(5) = 32 /\ p(6) = 64
        /\ p(7) = 128
    BY <1>2 DEF IsPower
  <2>2. \A j \in 0 .. 7 : o + j \in S <=> (n \div p(j)) % 2 = 1
    BY <1>1
  <2>. QED  BY <2>1, <2>2
<1>4. n = ((n \div 1) % 2) + 2 * ((n \div 2) % 2) + 4 * ((n \div 4) % 2) + 8 * ((n \div 8) % 2)
            + 16 * ((n \div 16) % 2) + 32 * ((n \div 32) % 2) + 64 * ((n \div 64) % 2)
            + 128 * ((n \div 128) % 2)
  BY DEF Bytes
<1>5. o + 0 = o
  OBVIOUS
<1> DEFINE b0 == (n \div 1) % 2
           b1 == (n \div 2) % 2
           b2 == (n \div 4) % 2
           b3 == (n \div 8) % 2
           b4 == (n \div 16) % 2
           b5 == (n \div 32) % 2
           b6 == (n \div 64) % 2
           b7 == (n \div 128) % 2
<1>6. /\ b0 \in {0, 1} /\ b1 \in {0, 1} /\ b2 \in {0, 1} /\ b3 \in {0, 1}
      /\ b4 \in {0, 1} /\ b5 \in {0, 1} /\ b6 \in {0, 1} /\ b7 \in {0, 1}
  BY DEF Bytes
<1>7. n = b0 + 2 * b1 + 4 * b2 + 8 * b3 + 16 * b4 + 32 * b5 + 64 * b6 + 128 * b7
  BY <1>4
<1>8. /\ o \in S <=> b0 = 1
      /\ o + 1 \in S <=> b1 = 1
      /\ o + 2 \in S <=> b2 = 1
      /\ o + 3 \in S <=> b3 = 1
      /\ o + 4 \in S <=> b4 = 1
      /\ o + 5 \in S <=> b5 = 1
      /\ o + 6 \in S <=> b6 = 1
      /\ o + 7 \in S <=> b7 = 1
  BY <1>3, <1>5
<1> HIDE DEF b0, b1, b2, b3, b4, b5, b6, b7
<1>. QED  BY <1>6, <1>7, <1>8 DEF ByteOf, Weight

\* The two bytes of irs.
LEMMA Word ==
    ASSUME NEW S \in SUBSET (0 .. 15),
           NEW w, w = LittleEndian(S, 2)[1] + 256 * LittleEndian(S, 2)[2]
    PROVE  /\ w \in Words
           /\ S = {} => w = 0
           /\ w % 256 = ByteOf(S, 0) /\ w \div 256 = ByteOf(S, 8)
<1> DEFINE lo == ByteOf(S, 0)
           hi == ByteOf(S, 8)
           L == LittleEndian(S, 2)
<1>1. L = [k \in 1 .. 2 |-> ByteOf(S, 8 * (k - 1))]
  <2>1. S \in SUBSET Int /\ 2 \in Nat
    OBVIOUS
  <2>. QED  BY <2>1, LittleEndianIs
<1>2. w = lo + 256 * hi
  <2>1. L[1] = ByteOf(S, 8 * (1 - 1)) /\ L[2] = ByteOf(S, 8 * (2 - 1))
    <3> HIDE DEF L
    <3>. QED  BY <1>1
  <2>2. 8 * (1 - 1) = 0 /\ 8 * (2 - 1) = 8
    OBVIOUS
  <2>3. L[1] = lo /\ L[2] = hi
    BY <2>1, <2>2
  <2> HIDE DEF L, lo, hi
  <2>. QED  BY <2>3 DEF L
<1>3. lo \in Bytes /\ hi \in Bytes
  <2>1. 0 \in Nat /\ 8 \in Nat /\ 0 \in 0 .. 7
    OBVIOUS
  <2>. QED  BY <2>1, BitsOfByte
<1>4. S = {} => lo = 0 /\ hi = 0
  BY DEF ByteOf, Weight
<1> HIDE DEF lo, hi
<1>5. w \in Words /\ w % 256 = lo /\ w \div 256 = hi
  BY <1>2, <1>3 DEF Words, Bytes
<1>6. S = {} => w = 0
  BY <1>2, <1>4
<1>. QED  BY <1>5, <1>6 DEF lo, hi

\* A number is made of its two bytes, ...
LEMMA WordSplit ==
    ASSUME NEW n \in Words
    PROVE  256 * (n \div 256) + (n % 256) = n
BY DEF Words

\* ... and its bits are theirs.
LEMMA BitOfHalf ==
    ASSUME NEW n \in Words, NEW j \in 0 .. 7
    PROVE  Bit(n, j) = Bit(n % 256, j) /\ Bit(n, 8 + j) = Bit(n \div 256, j)
<1> DEFINE p == 2^j
           q == 2^(8 + j)
           l == n % 256
           h == n \div 256
<1>1. q = 256 * p
  <2>0. ASSUME j = 0 PROVE 2^j = 1 /\ 2^(8 + j) = 256
    BY <2>0
  <2>1. ASSUME j = 1 PROVE 2^j = 2 /\ 2^(8 + j) = 512
    BY <2>1
  <2>2. ASSUME j = 2 PROVE 2^j = 4 /\ 2^(8 + j) = 1024
    BY <2>2
  <2>3. ASSUME j = 3 PROVE 2^j = 8 /\ 2^(8 + j) = 2048
    BY <2>3
  <2>4. ASSUME j = 4 PROVE 2^j = 16 /\ 2^(8 + j) = 4096
    BY <2>4
  <2>5. ASSUME j = 5 PROVE 2^j = 32 /\ 2^(8 + j) = 8192
    BY <2>5
  <2>6. ASSUME j = 6 PROVE 2^j = 64 /\ 2^(8 + j) = 16384
    BY <2>6
  <2>7. ASSUME j = 7 PROVE 2^j = 128 /\ 2^(8 + j) = 32768
    BY <2>7
  <2>8. j = 0 \/ j = 1 \/ j = 2 \/ j = 3 \/ j = 4 \/ j = 5 \/ j = 6 \/ j = 7
    OBVIOUS
  <2> HIDE DEF p, q
  <2>9. 256 * 1 = 256 /\ 256 * 2 = 512 /\ 256 * 4 = 1024 /\ 256 * 8 = 2048 /\ 256 * 16 = 4096
        /\ 256 * 32 = 8192 /\ 256 * 64 = 16384 /\ 256 * 128 = 32768
    OBVIOUS
  <2>. QED  BY <2>0, <2>1, <2>2, <2>3, <2>4, <2>5, <2>6, <2>7, <2>8, <2>9 DEF p, q
<1>2. IsPower(p, j)
  BY Powers
<1> HIDE DEF p, q
<1>3. l \in Bytes /\ h \in Bytes /\ n = l + 256 * h
  BY DEF Words, Bytes
<1> HIDE DEF l, h
<1>4. (n \div p) % 2 = (l \div p) % 2 /\ (n \div (256 * p)) % 2 = (h \div p) % 2
  <2>0. p = 1 \/ p = 2 \/ p = 4 \/ p = 8 \/ p = 16 \/ p = 32 \/ p = 64 \/ p = 128
    BY <1>2 DEF IsPower
  <2>1. CASE p = 1
    BY <1>3, <2>1 DEF Bytes
  <2>2. CASE p = 2
    BY <1>3, <2>2 DEF Bytes
  <2>3. CASE p = 4
    BY <1>3, <2>3 DEF Bytes
  <2>4. CASE p = 8
    BY <1>3, <2>4 DEF Bytes
  <2>5. CASE p = 16
    BY <1>3, <2>5 DEF Bytes
  <2>6. CASE p = 32
    BY <1>3, <2>6 DEF Bytes
  <2>7. CASE p = 64
    BY <1>3, <2>7 DEF Bytes
  <2>8. CASE p = 128
    BY <1>3, <2>8 DEF Bytes
  <2>. QED  BY <2>0, <2>1, <2>2, <2>3, <2>4, <2>5, <2>6, <2>7, <2>8
<1>5. Bit(n, j) = (n \div p) % 2 /\ Bit(l, j) = (l \div p) % 2 /\ Bit(h, j) = (h \div p) % 2
      /\ Bit(n, 8 + j) = (n \div q) % 2
  BY DEF Bit, p, q
<1>. QED  BY <1>1, <1>4, <1>5 DEF l, h

\* The bits of a number of two bytes make its bytes.
LEMMA WordBack ==
    ASSUME NEW n \in Words, NEW S, S = {i \in 0 .. 15 : Bit(n, i) = 1}
    PROVE  LittleEndian(S, 2)[1] + 256 * LittleEndian(S, 2)[2] = n
<1> DEFINE w == LittleEndian(S, 2)[1] + 256 * LittleEndian(S, 2)[2]
<1>1. n % 256 \in Bytes /\ n \div 256 \in Bytes
  BY DEF Words, Bytes
<1>2. ByteOf(S, 0) = n % 256
  <2>1. \A j \in 0 .. 7 : 0 + j \in S <=> Bit(n % 256, j) = 1
    BY BitOfHalf
  <2>2. 0 \in Nat
    OBVIOUS
  <2>. QED  BY <1>1, <2>1, <2>2, ByteIsItsBits
<1>3. ByteOf(S, 8) = n \div 256
  <2>1. \A j \in 0 .. 7 : 8 + j \in S <=> Bit(n \div 256, j) = 1
    BY BitOfHalf
  <2>2. 8 \in Nat
    OBVIOUS
  <2>. QED  BY <1>1, <2>1, <2>2, ByteIsItsBits
<1>4. w \in Words /\ w % 256 = n % 256 /\ w \div 256 = n \div 256
  <2>1. S \in SUBSET (0 .. 15)
    OBVIOUS
  <2>. QED  BY <1>2, <1>3, <2>1, Word
<1> HIDE DEF w
<1>5. w = n
  BY <1>4 DEF Words
<1>. QED  BY <1>5 DEF w

-----------------------------------------------------------------------------
(* Arrays of outputs and of delays, in JSON and in memory *)

\* Outputs that are not refused are bytes of outputs.
LEMMA OutputsOfJson ==
    ASSUME NEW n \in Nat, NEW s \in Seq(OutputJson), Len(s) = n,
           \A i \in 1 .. n : jsonOutputToByte(s[i]) # JsonError
    PROVE  [i \in DOMAIN s |-> jsonOutputToByte(s[i])] \in [1 .. n -> OutputByte]
<1>1. DOMAIN s = 1 .. n /\ \A i \in 1 .. n : s[i] \in OutputJson
  OBVIOUS
<1>2. \A i \in 1 .. n : jsonOutputToByte(s[i]) \in OutputByte
  BY <1>1, JsonBack
<1>. QED  BY <1>1, <1>2

\* Outputs that were written to JSON are read from it.
LEMMA JsonOfOutputs ==
    ASSUME NEW n \in Nat, NEW o \in [1 .. n -> OutputByte], NEW s,
           s = [i \in 1 .. n |-> outputToJson(o[i])]
    PROVE  [i \in DOMAIN s |-> jsonOutputToByte(s[i])] = o
<1>1. \A i \in 1 .. n : jsonOutputToByte(outputToJson(o[i])) = o[i]
  BY ByteBack
<1>. QED  BY <1>1

\* Delays that are not refused have 4 bits.
LEMMA DelaysOfJson ==
    ASSUME NEW n \in Nat, NEW s \in Seq(Int), Len(s) = n,
           \A i \in 1 .. n : DelayOf(s[i]) # JsonError
    PROVE  [i \in DOMAIN s |-> DelayOf(s[i])] \in [1 .. n -> Tenths]
<1>1. DOMAIN s = 1 .. n /\ \A i \in 1 .. n : s[i] \in Int
  OBVIOUS
<1>2. \A i \in 1 .. n : DelayOf(s[i]) \in Tenths
  BY <1>1, DelayRange
<1>. QED  BY <1>1, <1>2

\* Delays that were written to JSON are read from it.
LEMMA JsonOfDelays ==
    ASSUME NEW n \in Nat, NEW d \in [1 .. n -> Tenths], NEW s, s = [i \in 1 .. n |-> 10 * d[i]]
    PROVE  [i \in DOMAIN s |-> DelayOf(s[i])] = d
<1>1. \A i \in 1 .. n : DelayOf(10 * d[i]) = d[i]
  BY DelayBack
<1>. QED  BY <1>1

\* No byte and no delay is taken for an error.
LEMMA NoError ==
    ASSUME NEW b, b \in OutputByte \/ b \in Tenths
    PROVE  b # JsonError
BY DEF OutputByte, Tenths, JsonError

-----------------------------------------------------------------------------
(* MTB-UNI *)

Irs(ir) == {n \in Words : ir \/ n = 0}

UniConfigs(ir) ==
    [outputsSafe : [1 .. 16 -> OutputByte], inputsDelay : [1 .. 16 -> Tenths], irs : Irs(ir)]

\* The configuration a new object has.
LEMMA UniDefault ==
    ASSUME NEW ir \in BOOLEAN
    PROVE  Uni!DefaultConfig \in UniConfigs(ir)
BY DEF Uni!DefaultConfig, UniConfigs, OutputByte, Tenths, Irs, Words

\* The fields of a configuration.
LEMMA UniParts ==
    ASSUME NEW ir \in BOOLEAN, NEW c \in UniConfigs(ir)
    PROVE  /\ c.outputsSafe \in [1 .. 16 -> OutputByte] /\ c.inputsDelay \in [1 .. 16 -> Tenths]
           /\ c.irs \in Words /\ (~ir => c.irs = 0)
           /\ c = [outputsSafe |-> c.outputsSafe, inputsDelay |-> c.inputsDelay, irs |-> c.irs]
<1>1. c \in [outputsSafe : [1 .. 16 -> OutputByte], inputsDelay : [1 .. 16 -> Tenths],
            irs : Irs(ir)]
  BY DEF UniConfigs
<1>2. /\ c.outputsSafe \in [1 .. 16 -> OutputByte] /\ c.inputsDelay \in [1 .. 16 -> Tenths]
      /\ c.irs \in Irs(ir)
      /\ c = [outputsSafe |-> c.outputsSafe, inputsDelay |-> c.inputsDelay, irs |-> c.irs]
  BY <1>1
<1>. QED  BY <1>2 DEF Irs

\* The set of the indices at which a mask given in JSON is on.
LEMMA MaskOf ==
    ASSUME NEW s \in Seq(BOOLEAN), Len(s) \in {0, 16}, NEW S,
           S = {i \in 0 .. Len(s) - 1 : s[i + 1]}
    PROVE  S \in SUBSET (0 .. 15) /\ (s = <<>> => S = {})
<1>1. CASE Len(s) = 0
  <2>1. 0 .. Len(s) - 1 = {}
    BY <1>1
  <2>. QED  BY <2>1
<1>2. CASE Len(s) = 16
  <2>1. 0 .. Len(s) - 1 = 0 .. 15
    BY <1>2
  <2>2. s # <<>>
    <3>1. Len(<<>>) # Len(s)
      BY <1>2
    <3>. QED  BY <3>1, Zenon
  <2>. QED  BY <2>1, <2>2
<1>. QED  BY <1>1, <1>2

\* What a client asks for is a configuration, or is refused.
LEMMA UniFromJson ==
    ASSUME NEW ir \in BOOLEAN, NEW json \in Uni!ConfigRequest, ~ir => json.irs = <<>>,
           NEW c \in Uni!fromJson(json)
    PROVE  c \in UniConfigs(ir)
<1> DEFINE safe == [i \in DOMAIN json.outputsSafe |-> jsonOutputToByte(json.outputsSafe[i])]
           delay == [i \in DOMAIN json.inputsDelay |-> DelayOf(json.inputsDelay[i])]
           S == {i \in 0 .. Len(json.irs) - 1 : json.irs[i + 1]}
           irs == LittleEndian(S, 2)
           word == irs[1] + 256 * irs[2]
<1>1. /\ json.outputsSafe \in Seq(OutputJson) /\ json.inputsDelay \in Seq(Int)
      /\ json.irs \in Seq(BOOLEAN)
  BY UniOperators DEF Uni!ConfigRequest
<1>2. /\ Len(safe) = 16 /\ Len(delay) = 16 /\ Len(json.irs) \in {0, 16}
      /\ \A i \in DOMAIN safe : JsonError \notin {safe[i], delay[i]}
      /\ c = [outputsSafe |-> safe, inputsDelay |-> delay, irs |-> word]
  <2> HIDE DEF irs
  <2>1. irs = Uni!LittleEndian(S, 2)
    BY UniOperators DEF irs
  <2>2. safe = [i \in DOMAIN json.outputsSafe |-> Uni!jsonOutputToByte(json.outputsSafe[i])]
    BY UniOperators
  <2>3. delay = [i \in DOMAIN json.inputsDelay |-> Uni!DelayOf(json.inputsDelay[i])]
    BY UniOperators
  <2> HIDE DEF safe, delay, S
  <2>. QED  BY <2>1, <2>2, <2>3, UniOperators DEF Uni!fromJson, Uni!UNI_IO_CNT, S
<1>3. /\ Len(json.outputsSafe) = 16 /\ DOMAIN safe = 1 .. 16
      /\ \A i \in 1 .. 16 : safe[i] = jsonOutputToByte(json.outputsSafe[i])
      /\ Len(json.inputsDelay) = 16
      /\ \A i \in 1 .. 16 : delay[i] = DelayOf(json.inputsDelay[i])
  <2>1. Len(json.outputsSafe) = Len(safe) /\ Len(json.inputsDelay) = Len(delay)
    BY <1>1
  <2>2. Len(json.outputsSafe) = 16 /\ Len(json.inputsDelay) = 16
    BY <1>2, <2>1
  <2>3. DOMAIN json.outputsSafe = 1 .. 16 /\ DOMAIN json.inputsDelay = 1 .. 16
    BY <1>1, <2>2
  <2>. QED  BY <2>2, <2>3
<1>4. \A i \in 1 .. 16 : safe[i] # JsonError /\ delay[i] # JsonError
  <2> HIDE DEF safe, delay
  <2>. QED  BY <1>2, <1>3
<1>5. safe \in [1 .. 16 -> OutputByte] /\ delay \in [1 .. 16 -> Tenths]
  <2>1. 16 \in Nat
    OBVIOUS
  <2>2. safe \in [1 .. 16 -> OutputByte]
    <3>1. json.outputsSafe \in Seq(OutputJson) /\ Len(json.outputsSafe) = 16
      BY <1>1, <1>3
    <3>2. \A i \in 1 .. 16 : jsonOutputToByte(json.outputsSafe[i]) # JsonError
      BY <1>3, <1>4, Zenon
    <3>. QED  BY <2>1, <3>1, <3>2, OutputsOfJson, Zenon
  <2>3. delay \in [1 .. 16 -> Tenths]
    <3>1. \A i \in 1 .. 16 : DelayOf(json.inputsDelay[i]) # JsonError
      <4> HIDE DEF delay, safe
      <4>. QED  BY <1>3, <1>4
    <3>2. json.inputsDelay \in Seq(Int) /\ Len(json.inputsDelay) = 16
      BY <1>1, <1>3
    <3>. QED  BY <2>1, <3>1, <3>2, DelaysOfJson
  <2>. QED  BY <2>2, <2>3
<1>6. word \in Irs(ir)
  <2>1. S \in SUBSET (0 .. 15) /\ (~ir => S = {})
    BY <1>1, <1>2, MaskOf
  <2> HIDE DEF S
  <2>2. word \in Words /\ (S = {} => word = 0)
    BY <2>1, Word
  <2> HIDE DEF word
  <2>. QED  BY <2>1, <2>2 DEF Irs
<1> HIDE DEF safe, delay, irs, word
<1>. QED  BY <1>2, <1>5, <1>6 DEF UniConfigs

\* The file gives back the configuration it was written from.
LEMMA UniBack ==
    ASSUME NEW ir \in BOOLEAN, NEW c \in UniConfigs(ir)
    PROVE  Uni!fromJson(Uni!configJson(c, ir)) = {c}
<1> DEFINE json == Uni!configJson(c, ir)
           safe == [i \in DOMAIN json.outputsSafe |-> Uni!jsonOutputToByte(json.outputsSafe[i])]
           delay == [i \in DOMAIN json.inputsDelay |-> Uni!DelayOf(json.inputsDelay[i])]
           S == {i \in 0 .. Len(json.irs) - 1 : json.irs[i + 1]}
           irs == Uni!LittleEndian(S, 2)
           word == irs[1] + 256 * irs[2]
<1>1. /\ c.outputsSafe \in [1 .. 16 -> OutputByte] /\ c.inputsDelay \in [1 .. 16 -> Tenths]
      /\ c.irs \in Words /\ (~ir => c.irs = 0)
      /\ c = [outputsSafe |-> c.outputsSafe, inputsDelay |-> c.inputsDelay, irs |-> c.irs]
  BY UniParts
<1>2. /\ json.outputsSafe = [i \in 1 .. 16 |-> outputToJson(c.outputsSafe[i])]
      /\ json.inputsDelay = [i \in 1 .. 16 |-> 10 * c.inputsDelay[i]]
      /\ json.irs = IF ir THEN [i \in 1 .. 16 |-> Bit(c.irs, i - 1) = 1] ELSE <<>>
  <2>1. json.outputsSafe = [i \in DOMAIN c.outputsSafe |-> Uni!outputToJson(c.outputsSafe[i])]
    BY DEF Uni!configJson, Uni!outputsToJson
  <2>2. json.inputsDelay = [i \in 1 .. 16 |-> 10 * c.inputsDelay[i]]
    BY DEF Uni!configJson, Uni!UNI_IO_CNT
  <2>3. json.irs = IF ir THEN [i \in 1 .. 16 |-> Uni!Bit(c.irs, i - 1) = 1] ELSE <<>>
    BY DEF Uni!configJson, Uni!UNI_IO_CNT
  <2> HIDE DEF json
  <2>. QED  BY <1>1, <2>1, <2>2, <2>3, UniOperators
<1> HIDE DEF json
<1>3. safe = c.outputsSafe
  <2>1. safe = [i \in DOMAIN json.outputsSafe |-> jsonOutputToByte(json.outputsSafe[i])]
    BY UniOperators
  <2>2. 16 \in Nat
    OBVIOUS
  <2> HIDE DEF safe
  <2>. QED  BY <1>1, <1>2, <2>1, <2>2, JsonOfOutputs
<1>4. delay = c.inputsDelay
  <2>1. delay = [i \in DOMAIN json.inputsDelay |-> DelayOf(json.inputsDelay[i])]
    BY UniOperators
  <2>2. 16 \in Nat
    OBVIOUS
  <2> HIDE DEF delay
  <2>. QED  BY <1>1, <1>2, <2>1, <2>2, JsonOfDelays
<1>5. Len(safe) = 16 /\ Len(delay) = 16
  <2>1. Len(c.outputsSafe) = 16 /\ Len(c.inputsDelay) = 16
    BY <1>1, IsSequence
  <2>. QED  BY <1>3, <1>4, <2>1
<1>6. \A i \in DOMAIN safe : JsonError \notin {safe[i], delay[i]}
  <2>1. \A i \in 1 .. 16 : c.outputsSafe[i] # JsonError /\ c.inputsDelay[i] # JsonError
    BY <1>1, NoError
  <2>2. DOMAIN c.outputsSafe = 1 .. 16
    BY <1>1
  <2>. QED  BY <1>3, <1>4, <2>1, <2>2
<1>7. Len(json.irs) \in {0, 16} /\ word = c.irs
  <2>0. irs = LittleEndian(S, 2)
    BY UniOperators
  <2>1. CASE ~ir
    <3>1. json.irs = <<>> /\ Len(json.irs) = 0
      BY <1>2, <2>1
    <3>2. S = {}
      BY <3>1
    <3>3. c.irs = 0 /\ S \in SUBSET (0 .. 15)
      BY <1>1, <2>1, <3>2
    <3> HIDE DEF S
    <3>4. word = 0
      BY <2>0, <3>2, <3>3, Word
    <3>. QED  BY <3>1, <3>3, <3>4
  <2>2. CASE ir
    <3> DEFINE n == c.irs
    <3>1. json.irs = [i \in 1 .. 16 |-> Bit(n, i - 1) = 1]
      BY <1>2, <2>2
    <3>2. Len(json.irs) = 16
      <4>1. json.irs \in [1 .. 16 -> BOOLEAN] /\ 16 \in Nat
        BY <3>1
      <4>. QED  BY <4>1, IsSequence
    <3>3. S = {i \in 0 .. 15 : Bit(n, i) = 1}
      <4> HIDE DEF n
      <4>1. \A i \in 0 .. 15 : i + 1 \in 1 .. 16 /\ (i + 1) - 1 = i
        OBVIOUS
      <4>2. \A i \in 0 .. 15 : json.irs[i + 1] = (Bit(n, i) = 1)
        BY <3>1, <4>1
      <4>3. 0 .. Len(json.irs) - 1 = 0 .. 15
        BY <3>2
      <4>. QED  BY <4>2, <4>3
    <3>4. n \in Words
      BY <1>1
    <3> HIDE DEF S, n
    <3>5. word = n
      BY <2>0, <3>3, <3>4, WordBack
    <3>. QED  BY <3>2, <3>5 DEF n
  <2>. QED  BY <2>1, <2>2
<1>8. Uni!fromJson(json) = {[outputsSafe |-> safe, inputsDelay |-> delay, irs |-> word]}
  <2> HIDE DEF irs, S, safe, delay
  <2>. QED  BY <1>5, <1>6, <1>7, UniOperators
       DEF Uni!fromJson, Uni!UNI_IO_CNT, safe, delay, irs, S
<1> HIDE DEF safe, delay, irs, word
<1>. QED  BY <1>1, <1>3, <1>4, <1>7, <1>8 DEF json

\* What the daemon reads back from an MTB-UNI: all but the delays.
LEMMA UniRead ==
    ASSUME NEW ir \in BOOLEAN, NEW c \in UniConfigs(ir), NEW bytes,
           bytes = Uni!serializeForMtbUsb(c, ir)
    PROVE  /\ Uni!fromMtbUsb(bytes) \in UniConfigs(ir)
           /\ Uni!fromMtbUsb(bytes).outputsSafe = c.outputsSafe
           /\ Uni!fromMtbUsb(bytes).irs = c.irs
<1> DEFINE delays == DelayBytes(c.inputsDelay)
           word == IF ir THEN <<c.irs \div 256, c.irs % 256>> ELSE <<>>
           d == Uni!fromMtbUsb(bytes)
<1>1. /\ c.outputsSafe \in [1 .. 16 -> OutputByte] /\ c.inputsDelay \in [1 .. 16 -> Tenths]
      /\ c.irs \in Words /\ (~ir => c.irs = 0)
  BY UniParts
<1>2. c.outputsSafe \in Seq(Nat) /\ Len(c.outputsSafe) = 16
  <2>1. c.outputsSafe \in [1 .. 16 -> Nat] /\ 16 \in Nat
    BY <1>1 DEF OutputByte
  <2>. QED  BY <2>1, IsSequence
<1>3. delays \in Seq(Nat) /\ Len(delays) = 8
  <2>1. delays \in [1 .. 8 -> Bytes]
    BY <1>1, DelayBytesAre
  <2>2. delays \in [1 .. 8 -> Nat] /\ 8 \in Nat
    BY <2>1 DEF Bytes
  <2>. QED  BY <2>2, IsSequence
<1>4. word \in Seq(Nat) /\ Len(word) = (IF ir THEN 2 ELSE 0)
  BY <1>1 DEF Words
<1>5. bytes = c.outputsSafe \o delays \o word
  BY UniOperators DEF Uni!serializeForMtbUsb
<1> HIDE DEF delays
<1>6. ir => word[1] = c.irs \div 256 /\ word[2] = c.irs % 256
  OBVIOUS
<1> HIDE DEF word
<1>7. /\ bytes \in Seq(Nat) /\ Len(bytes) = 24 + Len(word)
      /\ \A i \in 1 .. 16 : bytes[i] = c.outputsSafe[i]
      /\ \A i \in 1 .. Len(word) : bytes[24 + i] = word[i]
  <2> DEFINE o == c.outputsSafe
             front == o \o delays
  <2>0. o \in Seq(Nat) /\ Len(o) = 16
    BY <1>2
  <2> HIDE DEF o
  <2>1. /\ front \in Seq(Nat) /\ Len(front) = 24
        /\ \A i \in 1 .. 16 : front[i] = o[i]
    <3>1. /\ front \in Seq(Nat) /\ Len(front) = Len(o) + Len(delays)
          /\ \A i \in 1 .. Len(o) : front[i] = o[i]
      BY <2>0, <1>3, Joined
    <3> HIDE DEF front
    <3>. QED  BY <2>0, <1>3, <3>1
  <2> HIDE DEF front
  <2>2. /\ front \o word \in Seq(Nat) /\ Len(front \o word) = Len(front) + Len(word)
        /\ \A i \in 1 .. Len(front) : (front \o word)[i] = front[i]
        /\ \A i \in 1 .. Len(word) : (front \o word)[Len(front) + i] = word[i]
    <3>1. front \in Seq(Nat) /\ word \in Seq(Nat)
      BY <1>4, <2>1
    <3>. QED  BY <3>1, Joined, Zenon
  <2>3. bytes = front \o word
    BY <1>5 DEF front, o
  <2>4. \A i \in 1 .. 16 : i \in 1 .. 24
    OBVIOUS
  <2>. QED  BY <2>1, <2>2, <2>3, <2>4 DEF o
<1>8. Len(bytes) \in Nat /\ Len(bytes) >= 24 /\ (Len(bytes) >= 26 <=> ir)
  BY <1>4, <1>7
<1>9. /\ d.outputsSafe = SubSeq(bytes, 1, 16)
      /\ d.inputsDelay = [i \in 1 .. 16 |-> Nibble(bytes[1 + (i - 1) \div 2], i - 1)]
      /\ d.irs = IF Len(bytes) >= 26 THEN 256 * bytes[25] + bytes[26] ELSE 0
      /\ d = [outputsSafe |-> d.outputsSafe, inputsDelay |-> d.inputsDelay, irs |-> d.irs]
  <2>1. d = [outputsSafe |-> SubSeq(bytes, 1, 16), inputsDelay |-> Uni!inputsDelayFrom(bytes),
             irs |-> IF Len(bytes) >= 26 THEN 256 * bytes[25] + bytes[26] ELSE 0]
    BY <1>8 DEF Uni!fromMtbUsb, Uni!UNI_IO_CNT
  <2>2. Uni!inputsDelayFrom(bytes) = [i \in 1 .. 16 |-> Nibble(bytes[1 + (i - 1) \div 2], i - 1)]
    BY UniOperators DEF Uni!inputsDelayFrom, Uni!UNI_IO_CNT
  <2> HIDE DEF d
  <2>. QED  BY <2>1, <2>2
<1> HIDE DEF d
<1>10. d.outputsSafe = c.outputsSafe
  <2>1. SubSeq(bytes, 0 + 1, 0 + 16) = [i \in 1 .. 16 |-> bytes[0 + i]]
    <3>1. 0 \in Nat /\ 16 \in Nat /\ 0 + 16 <= Len(bytes)
      BY <1>8
    <3>. QED  BY <1>7, <3>1, CutOut
  <2>2. 0 + 1 = 1 /\ 0 + 16 = 16 /\ \A i \in 1 .. 16 : 0 + i = i
    OBVIOUS
  <2>3. SubSeq(bytes, 1, 16) = [i \in 1 .. 16 |-> bytes[i]]
    BY <2>1, <2>2
  <2>. QED  BY <1>1, <1>7, <1>9, <2>3
<1>11. d.inputsDelay \in [1 .. 16 -> Tenths]
  <2>1. \A i \in 1 .. 16 : 1 + (i - 1) \div 2 \in 1 .. 16
    OBVIOUS
  <2>2. \A i \in 1 .. 16 : bytes[1 + (i - 1) \div 2] \in Bytes
    <3>1. \A i \in 1 .. 16 : c.outputsSafe[i] \in Bytes
      BY <1>1 DEF OutputByte, Bytes
    <3>. QED  BY <1>7, <2>1, <3>1
  <2>3. \A b \in Bytes : \A i \in 1 .. 16 : Nibble(b, i - 1) \in Tenths
    BY DEF Nibble, Bytes, Tenths
  <2>4. \A i \in 1 .. 16 : Nibble(bytes[1 + (i - 1) \div 2], i - 1) \in Tenths
    BY <2>2, <2>3
  <2>. QED  BY <1>9, <2>4
<1>12. d.irs = c.irs
  <2>1. CASE ir
    <3>1. Len(word) = 2 /\ word[1] = c.irs \div 256 /\ word[2] = c.irs % 256
      BY <1>4, <1>6, <2>1
    <3>2. 1 \in 1 .. Len(word) /\ 2 \in 1 .. Len(word) /\ 24 + 1 = 25 /\ 24 + 2 = 26
      BY <3>1
    <3>3. bytes[25] = c.irs \div 256 /\ bytes[26] = c.irs % 256
      <4>1. bytes[24 + 1] = word[1] /\ bytes[24 + 2] = word[2]
        BY <1>7, <3>2
      <4>. QED  BY <3>1, <4>1
    <3> DEFINE n == c.irs
    <3>4. Len(bytes) >= 26
      BY <1>8, <2>1
    <3>5. d.irs = 256 * bytes[25] + bytes[26]
      BY <1>9, <3>4
    <3>6. n \in Words /\ bytes[25] = n \div 256 /\ bytes[26] = n % 256
      BY <1>1, <3>3
    <3> HIDE DEF n, d
    <3>7. 256 * (n \div 256) + (n % 256) = n
      BY <3>6, WordSplit
    <3>8. d.irs = n
      BY <3>5, <3>6, <3>7
    <3>. QED  BY <3>8 DEF n
  <2>2. CASE ~ir
    BY <1>1, <1>8, <1>9, <2>2
  <2>. QED  BY <2>1, <2>2
<1>13. d.irs \in Irs(ir)
  BY <1>1, <1>12 DEF Irs
<1>14. d \in UniConfigs(ir)
  BY <1>1, <1>9, <1>10, <1>11, <1>13 DEF UniConfigs
<1>. QED  BY <1>10, <1>12, <1>14 DEF d

\* Of two bytes, high byte first.
LEMMA Swapped ==
    ASSUME NEW S \in SUBSET (0 .. 15)
    PROVE  /\ Reverse(LittleEndian(S, 2)) \in Seq(Bytes)
           /\ Len(Reverse(LittleEndian(S, 2))) = 2
           /\ \A bytes : Len(bytes) = 2 /\ bytes[1] = Reverse(LittleEndian(S, 2))[2]
                           /\ bytes[2] = Reverse(LittleEndian(S, 2))[1] => OnBits(bytes) = S
<1> DEFINE L == LittleEndian(S, 2)
           R == Reverse(L)
<1>1. L = [k \in 1 .. 2 |-> ByteOf(S, 8 * (k - 1))]
  <2>1. S \in SUBSET Int /\ 2 \in Nat
    OBVIOUS
  <2>. QED  BY <2>1, LittleEndianIs
<1>2. \A k \in 1 .. 2 : ByteOf(S, 8 * (k - 1)) \in Bytes
  <2>1. \A k \in 1 .. 2 : 8 * (k - 1) \in Nat /\ 0 \in 0 .. 7
    OBVIOUS
  <2>. QED  BY <2>1, BitsOfByte
<1>3. L \in [1 .. 2 -> Bytes] /\ \A k \in 1 .. 2 : L[k] = ByteOf(S, 8 * (k - 1))
  <2> HIDE DEF L
  <2>. QED  BY <1>1, <1>2
<1> HIDE DEF L
<1>4. L \in Seq(Bytes) /\ Len(L) = 2
  <2>1. 2 \in Nat
    OBVIOUS
  <2>. QED  BY <1>3, <2>1, IsSequence
<1>5. R = [i \in 1 .. 2 |-> L[(2 - i) + 1]]
  BY <1>4 DEF Reverse
<1>6. R \in [1 .. 2 -> Bytes] /\ R[1] = L[2] /\ R[2] = L[1]
  <2>1. \A i \in 1 .. 2 : (2 - i) + 1 \in 1 .. 2
    OBVIOUS
  <2>2. (2 - 1) + 1 = 2 /\ (2 - 2) + 1 = 1 /\ 1 \in 1 .. 2 /\ 2 \in 1 .. 2
    OBVIOUS
  <2> HIDE DEF R
  <2>3. \A i \in 1 .. 2 : R[i] = L[(2 - i) + 1] /\ L[(2 - i) + 1] \in Bytes
    BY <1>3, <1>5, <2>1
  <2>. QED  BY <1>5, <2>2, <2>3
<1>7. R \in Seq(Bytes) /\ Len(R) = 2
  <2>1. 2 \in Nat
    OBVIOUS
  <2> HIDE DEF R
  <2>. QED  BY <1>6, <2>1, IsSequence
<1> HIDE DEF R
<1>8. ASSUME NEW bytes, Len(bytes) = 2, bytes[1] = R[2], bytes[2] = R[1]
      PROVE  OnBits(bytes) = S
  <2>1. \A k \in 1 .. 2 : bytes[k] = ByteOf(S, 8 * (k - 1))
    <3>1. \A k \in 1 .. 2 : k = 1 \/ k = 2
      OBVIOUS
    <3>2. 1 \in 1 .. 2 /\ 2 \in 1 .. 2
      OBVIOUS
    <3>. QED  BY <1>3, <1>6, <1>8, <3>1, <3>2
  <2>2. S \in SUBSET (0 .. 8 * 2 - 1) /\ 2 \in Nat
    OBVIOUS
  <2>. QED  BY <1>8, <2>1, <2>2, BitsBack
<1>9. \A bytes : Len(bytes) = 2 /\ bytes[1] = R[2] /\ bytes[2] = R[1] => OnBits(bytes) = S
  BY <1>8
<1>. QED  BY <1>7, <1>9, Zenon DEF R, L

\* Three sequences, one after the other, are found again.
LEMMA JoinedThree ==
    ASSUME NEW p \in Seq(Nat), NEW q \in Seq(Nat), NEW r \in Seq(Nat)
    PROVE  LET s == p \o q \o r IN
           /\ s \in Seq(Nat) /\ Len(s) = Len(p) + Len(q) + Len(r)
           /\ \A i \in 1 .. Len(p) : s[i] = p[i]
           /\ \A i \in 1 .. Len(q) : s[Len(p) + i] = q[i]
           /\ \A i \in 1 .. Len(r) : s[(Len(p) + Len(q)) + i] = r[i]
           /\ SubSeq(s, 1, Len(p)) = p
           /\ SubSeq(s, Len(p) + 1, Len(p) + Len(q)) = q
           /\ SubSeq(s, Len(p) + Len(q) + 1, Len(s)) = r
<1> DEFINE s == p \o q \o r
           lp == Len(p)
           lq == Len(q)
           lr == Len(r)
<1>1. lp \in Nat /\ lq \in Nat /\ lr \in Nat
  OBVIOUS
<1>2. /\ s \in Seq(Nat) /\ Len(s) = lp + lq + lr
      /\ \A i \in 1 .. lp : s[i] = p[i]
      /\ \A i \in 1 .. lq : s[lp + i] = q[i]
      /\ \A i \in 1 .. lr : s[(lp + lq) + i] = r[i]
  <2> DEFINE pq == p \o q
  <2>1. /\ pq \in Seq(Nat) /\ Len(pq) = lp + lq
        /\ \A i \in 1 .. lp : pq[i] = p[i]
        /\ \A i \in 1 .. lq : pq[lp + i] = q[i]
    OBVIOUS
  <2> HIDE DEF pq
  <2>2. /\ pq \o r \in Seq(Nat) /\ Len(pq \o r) = Len(pq) + lr
        /\ \A i \in 1 .. Len(pq) : (pq \o r)[i] = pq[i]
        /\ \A i \in 1 .. lr : (pq \o r)[Len(pq) + i] = r[i]
    BY <2>1, Joined
  <2>3. s = pq \o r
    BY DEF pq
  <2> HIDE DEF lp, lq, lr
  <2>4. /\ \A i \in 1 .. lp : i \in 1 .. Len(pq)
        /\ \A i \in 1 .. lq : lp + i \in 1 .. Len(pq)
    BY <1>1, <2>1
  <2>5. /\ \A i \in 1 .. lp : (pq \o r)[i] = p[i]
        /\ \A i \in 1 .. lq : (pq \o r)[lp + i] = q[i]
        /\ \A i \in 1 .. lr : (pq \o r)[(lp + lq) + i] = r[i]
    <3> DEFINE w == pq \o r
    <3>1. /\ \A i \in 1 .. Len(pq) : w[i] = pq[i]
          /\ \A i \in 1 .. lr : w[Len(pq) + i] = r[i]
      BY <2>2 DEF w
    <3>2. \A i \in 1 .. lr : w[(lp + lq) + i] = r[i]
      BY <2>1, <3>1
    <3>. QED  BY <2>1, <2>4, <3>1, <3>2 DEF w
  <2>. QED  BY <2>1, <2>2, <2>3, <2>5
<1> HIDE DEF s
<1>3. p = [i \in 1 .. lp |-> p[i]] /\ q = [i \in 1 .. lq |-> q[i]] /\ r = [i \in 1 .. lr |-> r[i]]
  OBVIOUS
<1> HIDE DEF lp, lq, lr
<1>4. SubSeq(s, 1, lp) = p
  <2>1. 0 \in Nat /\ 0 + lp <= Len(s) /\ 0 + 1 = 1 /\ 0 + lp = lp
    BY <1>1, <1>2
  <2>2. SubSeq(s, 0 + 1, 0 + lp) = [i \in 1 .. lp |-> s[0 + i]]
    BY <1>1, <1>2, <2>1, CutOut
  <2>3. \A i \in 1 .. lp : s[0 + i] = p[i]
    BY <1>1, <1>2
  <2>. QED  BY <1>3, <2>1, <2>2, <2>3
<1>5. SubSeq(s, lp + 1, lp + lq) = q
  <2>1. lp + lq <= Len(s)
    BY <1>1, <1>2
  <2>2. SubSeq(s, lp + 1, lp + lq) = [i \in 1 .. lq |-> s[lp + i]]
    BY <1>1, <1>2, <2>1, CutOut
  <2>. QED  BY <1>2, <1>3, <2>2
<1>6. SubSeq(s, (lp + lq) + 1, Len(s)) = r
  <2> DEFINE a == lp + lq
  <2>1. s \in Seq(Nat) /\ a \in Nat /\ Len(s) = a + lr /\ a + lr <= Len(s)
    BY <1>1, <1>2
  <2>2. \A i \in 1 .. lr : s[a + i] = r[i]
    BY <1>2
  <2> HIDE DEF a
  <2>3. SubSeq(s, a + 1, a + lr) = [i \in 1 .. lr |-> s[a + i]]
    BY <1>1, <2>1, CutOut
  <2>4. SubSeq(s, a + 1, Len(s)) = r
    BY <1>3, <2>1, <2>2, <2>3
  <2>. QED  BY <2>4 DEF a
<1>. QED  BY <1>2, <1>4, <1>5, <1>6 DEF lp, lq, lr, s

\* The first of three, ...
LEMMA CutFirst ==
    ASSUME NEW p \in Seq(Nat), NEW q \in Seq(Nat), NEW r \in Seq(Nat)
    PROVE  SubSeq(p \o q \o r, 1, Len(p)) = p
BY JoinedThree

\* ... the second, ...
LEMMA CutMiddle ==
    ASSUME NEW p \in Seq(Nat), NEW q \in Seq(Nat), NEW r \in Seq(Nat)
    PROVE  SubSeq(p \o q \o r, Len(p) + 1, Len(p) + Len(q)) = q
BY JoinedThree

\* ... and the last.
LEMMA CutLast ==
    ASSUME NEW p \in Seq(Nat), NEW q \in Seq(Nat), NEW r \in Seq(Nat)
    PROVE  SubSeq(p \o q \o r, Len(p) + Len(q) + 1, Len(p \o q \o r)) = r
BY JoinedThree

\* The full bytes are bytes of outputs: each has an output, as their ranks have no gap.
LEMMA FullBytesSeq ==
    ASSUME NEW n \in Nat, NEW o \in [1 .. n -> OutputByte]
    PROVE  /\ FullBytes(o) \in Seq(Nat)
           /\ FullOutputs(o) \in SUBSET (0 .. n - 1) /\ PlainOn(o) \in SUBSET (0 .. n - 1)
<1> DEFINE full == FullOutputs(o)
           m == Cardinality(full)
           rank == [i \in full |-> Below(full, i)]
<1>1. o \in Seq(OutputByte) /\ Len(o) = n
  OBVIOUS
<1>2. full \in SUBSET (0 .. n - 1) /\ PlainOn(o) \in SUBSET (0 .. n - 1)
  BY <1>1 DEF FullOutputs, PlainOn
<1> HIDE DEF full
<1>3. full \in SUBSET Nat /\ IsFiniteSet(full) /\ m \in Nat
  <2>1. IsFiniteSet(0 .. n - 1) /\ 0 .. n - 1 \subseteq Nat
    BY FS_Interval
  <2>. QED  BY <1>2, <2>1, FS_Subset, FS_CardinalityType
<1>4. FullBytes(o) = [j \in 1 .. m |-> o[1 + CHOOSE i \in full : Below(full, i) = j - 1]]
  BY DEF FullBytes, full
<1> HIDE DEF m
<1>5. rank \in Injection(full, 0 .. m - 1)
  <2>1. \A i \in full : rank[i] \in 0 .. m - 1
    BY <1>3, RankInside DEF m
  <2>2. \A i, k \in full : rank[i] = rank[k] => i = k
    BY <1>3, RankIsUnique
  <2>. QED  BY <2>1, <2>2 DEF Injection, IsInjective
<1>6. rank \in Surjection(full, 0 .. m - 1)
  <2>1. IsFiniteSet(0 .. m - 1) /\ Cardinality(0 .. m - 1) = m
    <3>1. 0 \in Int /\ m - 1 \in Int /\ (0 > m - 1 => m = 0) /\ (m - 1) - 0 + 1 = m
      BY <1>3
    <3>. QED  BY <3>1, FS_Interval
  <2> HIDE DEF rank
  <2>. QED  BY <1>5, <2>1, FS_Injection DEF m
<1>7. \A j \in 1 .. m : \E i \in full : Below(full, i) = j - 1
  <2>1. \A r \in 0 .. m - 1 : \E i \in full : Below(full, i) = r
    BY <1>6 DEF Surjection
  <2>2. \A j \in 1 .. m : j - 1 \in 0 .. m - 1
    BY <1>3
  <2>. QED  BY <2>1, <2>2
<1>8. \A i \in full : o[1 + i] \in Nat
  <2>1. \A i \in 0 .. n - 1 : 1 + i \in 1 .. n
    OBVIOUS
  <2>2. \A i \in 1 .. n : o[i] \in Nat
    BY DEF OutputByte
  <2>. QED  BY <1>2, <2>1, <2>2
<1>9. FullBytes(o) \in [1 .. m -> Nat]
  <2>1. \A j \in 1 .. m : o[1 + CHOOSE i \in full : Below(full, i) = j - 1] \in Nat
    BY <1>7, <1>8
  <2>. QED  BY <1>4, <2>1
<1>10. FullBytes(o) \in Seq(Nat)
  BY <1>3, <1>9, IsSequence
<1>. QED  BY <1>2, <1>10 DEF full

\* The outputs an MTB-UNI answers with are those it was sent.
LEMMA UniEcho ==
    ASSUME NEW o \in [1 .. 16 -> OutputByte]
    PROVE  Uni!moduleOutputsData(Uni!mtbBusOutputsData(o), o) = o
<1> DEFINE p == Reverse(LittleEndian(FullOutputs(o), 2))
           q == Reverse(LittleEndian(PlainOn(o), 2))
           r == FullBytes(o)
           s == Uni!mtbBusOutputsData(o)
<1>0. 16 \in Nat /\ 0 .. 16 - 1 = 0 .. 15
  OBVIOUS
<1>1. r \in Seq(Nat)
  BY <1>0, FullBytesSeq
<1>2. FullOutputs(o) \in SUBSET (0 .. 15) /\ PlainOn(o) \in SUBSET (0 .. 15)
  BY <1>0, FullBytesSeq
<1>3. s = p \o q \o r
  <2>1. Uni!Reverse(Uni!LittleEndian(Uni!FullOutputs(o), 2)) = p
    BY UniOperators, Zenon DEF Uni!Reverse, Reverse
  <2>2. Uni!Reverse(Uni!LittleEndian(Uni!PlainOn(o), 2)) = q
    BY UniOperators, Zenon DEF Uni!Reverse, Reverse
  <2>3. Uni!FullBytes(o) = r
    BY UniOperators
  <2> HIDE DEF p, q, r
  <2>. QED  BY <2>1, <2>2, <2>3 DEF Uni!mtbBusOutputsData
<1>4. /\ p \in Seq(Bytes) /\ Len(p) = 2
      /\ \A bytes : Len(bytes) = 2 /\ bytes[1] = p[2] /\ bytes[2] = p[1]
                      => OnBits(bytes) = FullOutputs(o)
  BY <1>2, Swapped
<1>5. /\ q \in Seq(Bytes) /\ Len(q) = 2
      /\ \A bytes : Len(bytes) = 2 /\ bytes[1] = q[2] /\ bytes[2] = q[1]
                      => OnBits(bytes) = PlainOn(o)
  BY <1>2, Swapped
<1> HIDE DEF p, q, r, s
<1>6. p \in Seq(Nat) /\ q \in Seq(Nat)
  <2>1. Bytes \subseteq Nat
    BY DEF Bytes
  <2>. QED  BY <1>4, <1>5, <2>1, Larger
<1>7. /\ Len(s) = Len(p) + Len(q) + Len(r)
      /\ \A i \in 1 .. Len(p) : s[i] = p[i]
      /\ \A i \in 1 .. Len(q) : s[Len(p) + i] = q[i]
      /\ SubSeq(s, Len(p) + Len(q) + 1, Len(s)) = r
  <2> DEFINE t == p \o q \o r
  <2>0. p \in Seq(Nat) /\ q \in Seq(Nat) /\ r \in Seq(Nat)
    BY <1>1, <1>6
  <2>1. Len(t) = Len(p) + Len(q) + Len(r)
    BY <2>0, JoinedThree
  <2>2. \A i \in 1 .. Len(p) : t[i] = p[i]
    BY <2>0, JoinedThree
  <2>3. \A i \in 1 .. Len(q) : t[Len(p) + i] = q[i]
    BY <2>0, JoinedThree
  <2>4. SubSeq(t, Len(p) + Len(q) + 1, Len(t)) = r
    BY <2>0, JoinedThree
  <2> HIDE DEF t
  <2>5. s = t
    BY <1>3 DEF t
  <2>. QED  BY <2>1, <2>2, <2>3, <2>4, <2>5, Zenon
<1>8. Len(s) >= 4 /\ s[1] = p[1] /\ s[2] = p[2] /\ s[3] = q[1] /\ s[4] = q[2]
      /\ SubSeq(s, 5, Len(s)) = r
  <2>1. Len(r) \in Nat
    BY <1>1
  <2>2. 1 \in 1 .. Len(p) /\ 2 \in 1 .. Len(p) /\ 1 \in 1 .. Len(q) /\ 2 \in 1 .. Len(q)
    BY <1>4, <1>5
  <2>3. s[1] = p[1] /\ s[2] = p[2] /\ s[Len(p) + 1] = q[1] /\ s[Len(p) + 2] = q[2]
    BY <1>7, <2>2
  <2>4. Len(p) + 1 = 3 /\ Len(p) + 2 = 4 /\ Len(p) + Len(q) + 1 = 5
    BY <1>4, <1>5
  <2>5. Len(s) >= 4
    BY <1>4, <1>5, <1>7, <2>1
  <2>. QED  BY <1>7, <2>3, <2>4, <2>5
<1>9. OnBits(<<s[2], s[1]>>) = FullOutputs(o) /\ OnBits(<<s[4], s[3]>>) = PlainOn(o)
  <2>1. \A a, b : Len(<<a, b>>) = 2 /\ <<a, b>>[1] = a /\ <<a, b>>[2] = b
    OBVIOUS
  <2>2. Len(<<s[2], s[1]>>) = 2 /\ <<s[2], s[1]>>[1] = p[2] /\ <<s[2], s[1]>>[2] = p[1]
    BY <1>8, <2>1
  <2>3. Len(<<s[4], s[3]>>) = 2 /\ <<s[4], s[3]>>[1] = q[2] /\ <<s[4], s[3]>>[2] = q[1]
    BY <1>8, <2>1
  <2>. QED  BY <1>4, <1>5, <2>2, <2>3, Zenon
<1>10. Uni!moduleOutputsData(s, o) = OutputsFrom(FullOutputs(o), PlainOn(o), r, o)
  <2>1. Uni!OnBits(<<s[2], s[1]>>) = FullOutputs(o) /\ Uni!OnBits(<<s[4], s[3]>>) = PlainOn(o)
    BY <1>9, UniOperators, Zenon
  <2>2. Uni!moduleOutputsData(s, o)
          = Uni!OutputsFrom(Uni!OnBits(<<s[2], s[1]>>), Uni!OnBits(<<s[4], s[3]>>),
                            SubSeq(s, 5, Len(s)), o)
    <3>1. ~(Len(s) < 4)
      BY <1>7, <1>8
    <3>. QED  BY <3>1, Zenon DEF Uni!moduleOutputsData
  <2>. QED  BY <1>8, <2>1, <2>2, UniOperators, Zenon
<1>. QED  BY <1>0, <1>10, OutputsBack DEF s, r

-----------------------------------------------------------------------------
(* MTB-UNIS *)

\* Four bytes hold the bits of a set of 32.
LEMMA FourBytes ==
    ASSUME NEW n \in 0 .. 32, NEW S \in SUBSET (0 .. n - 1)
    PROVE  /\ LittleEndian(S, 4) \in Seq(Nat) /\ Len(LittleEndian(S, 4)) = 4
           /\ OnBits(LittleEndian(S, 4)) = S
<1> DEFINE L == LittleEndian(S, 4)
<1>1. L = [k \in 1 .. 4 |-> ByteOf(S, 8 * (k - 1))]
  <2>1. S \in SUBSET Int /\ 4 \in Nat
    OBVIOUS
  <2>. QED  BY <2>1, LittleEndianIs
<1>2. \A k \in 1 .. 4 : ByteOf(S, 8 * (k - 1)) \in Nat
  <2>1. \A k \in 1 .. 4 : 8 * (k - 1) \in Nat /\ 0 \in 0 .. 7
    OBVIOUS
  <2>. QED  BY <2>1, BitsOfByte DEF Bytes
<1> HIDE DEF L
<1>3. L \in [1 .. 4 -> Nat] /\ \A k \in 1 .. 4 : L[k] = ByteOf(S, 8 * (k - 1))
  BY <1>1, <1>2
<1>4. 4 \in Nat /\ S \in SUBSET (0 .. 8 * 4 - 1)
  <2>1. \A i \in 0 .. n - 1 : i \in Nat /\ i < 32
    OBVIOUS
  <2>2. \A i \in Nat : i < 32 => i \in 0 .. 8 * 4 - 1
    OBVIOUS
  <2>. QED  BY <2>1, <2>2
<1>5. L \in Seq(Nat) /\ Len(L) = 4
  BY <1>3, <1>4, IsSequence
<1>6. OnBits(L) = S
  BY <1>3, <1>4, <1>5, BitsBack
<1>. QED  BY <1>5, <1>6 DEF L

\* The outputs an MTB-UNIS answers with are those it was sent.
LEMMA UnisEcho ==
    ASSUME NEW o \in [1 .. 28 -> OutputByte]
    PROVE  Unis!moduleOutputsData(Unis!mtbBusOutputsData(o), o) = o
<1> DEFINE p == LittleEndian(FullOutputs(o), 4)
           q == LittleEndian(PlainOn(o), 4)
           r == FullBytes(o)
           s == Unis!mtbBusOutputsData(o)
<1>0. 28 \in Nat /\ 28 \in 0 .. 32
  OBVIOUS
<1>1. r \in Seq(Nat)
  BY <1>0, FullBytesSeq
<1>2. FullOutputs(o) \in SUBSET (0 .. 28 - 1) /\ PlainOn(o) \in SUBSET (0 .. 28 - 1)
  BY <1>0, FullBytesSeq
<1>3. s = p \o q \o r
  <2>1. Unis!LittleEndian(Unis!FullOutputs(o), 4) = p
    BY UnisOperators
  <2>2. Unis!LittleEndian(Unis!PlainOn(o), 4) = q
    BY UnisOperators
  <2>3. Unis!FullBytes(o) = r
    BY UnisOperators
  <2> HIDE DEF p, q, r
  <2>. QED  BY <2>1, <2>2, <2>3 DEF Unis!mtbBusOutputsData
<1>4. p \in Seq(Nat) /\ Len(p) = 4 /\ OnBits(p) = FullOutputs(o)
  BY <1>0, <1>2, FourBytes
<1>5. q \in Seq(Nat) /\ Len(q) = 4 /\ OnBits(q) = PlainOn(o)
  BY <1>0, <1>2, FourBytes
<1> HIDE DEF p, q, r, s
<1>6. Len(s) >= 8 /\ SubSeq(s, 1, 4) = p /\ SubSeq(s, 5, 8) = q /\ SubSeq(s, 9, Len(s)) = r
  <2> DEFINE t == p \o q \o r
  <2>0. p \in Seq(Nat) /\ q \in Seq(Nat) /\ r \in Seq(Nat)
    BY <1>1, <1>4, <1>5
  <2>1. Len(r) \in Nat
    BY <2>0
  <2>2. Len(t) = Len(p) + Len(q) + Len(r)
    BY <2>0, JoinedThree
  <2>3. SubSeq(t, 1, Len(p)) = p
    BY <2>0, CutFirst
  <2>4. SubSeq(t, Len(p) + 1, Len(p) + Len(q)) = q
    BY <2>0, CutMiddle
  <2>5. SubSeq(t, Len(p) + Len(q) + 1, Len(t)) = r
    BY <2>0, CutLast
  <2> HIDE DEF t
  <2>6. Len(p) + 1 = 5 /\ Len(p) + Len(q) = 8 /\ Len(p) + Len(q) + 1 = 9 /\ Len(t) >= 8
    BY <1>4, <1>5, <2>1, <2>2
  <2>7. s = t
    BY <1>3 DEF t
  <2>. QED  BY <1>4, <2>3, <2>4, <2>5, <2>6, <2>7
<1>7. Unis!moduleOutputsData(s, o) = OutputsFrom(FullOutputs(o), PlainOn(o), r, o)
  <2>1. Unis!OnBits(SubSeq(s, 1, 4)) = FullOutputs(o) /\ Unis!OnBits(SubSeq(s, 5, 8)) = PlainOn(o)
    BY <1>4, <1>5, <1>6, UnisOperators, Zenon
  <2>2. Unis!moduleOutputsData(s, o)
          = Unis!OutputsFrom(Unis!OnBits(SubSeq(s, 1, 4)), Unis!OnBits(SubSeq(s, 5, 8)),
                             SubSeq(s, 9, Len(s)), o)
    <3>1. ~(Len(s) < 8)
      <4>1. Len(s) \in Nat
        <5>1. p \in Seq(Nat) /\ q \in Seq(Nat) /\ r \in Seq(Nat)
          BY <1>1, <1>4, <1>5
        <5>2. p \o q \o r \in Seq(Nat)
          BY <5>1, JoinedThree
        <5>. QED  BY <1>3, <5>2
      <4>. QED  BY <1>6, <4>1
    <3>. QED  BY <3>1, Zenon DEF Unis!moduleOutputsData
  <2>. QED  BY <1>6, <2>1, <2>2, UnisOperators, Zenon
<1>. QED  BY <1>0, <1>7, OutputsBack DEF s, r

UnisConfigs ==
    [outputsSafe : [1 .. 28 -> OutputByte], inputsDelay : [1 .. 16 -> Tenths],
     servoEnabledMask : Bytes, servoPosition : [1 .. 12 -> Bytes], servoSpeed : [1 .. 6 -> Bytes],
     servoInputMap : [1 .. 6 -> Bytes]]

\* The configuration a new object has.
LEMMA UnisDefault == Unis!DefaultConfig \in UnisConfigs
BY DEF Unis!DefaultConfig, UnisConfigs, OutputByte, Tenths, Bytes, Unis!UNIS_OUT_CNT,
       Unis!UNIS_IN_CNT, Unis!UNIS_SERVO_CNT

\* The fields of a configuration.
LEMMA UnisParts ==
    ASSUME NEW c \in UnisConfigs
    PROVE  /\ c.outputsSafe \in [1 .. 28 -> OutputByte] /\ c.inputsDelay \in [1 .. 16 -> Tenths]
           /\ c.servoEnabledMask \in Bytes /\ c.servoPosition \in [1 .. 12 -> Bytes]
           /\ c.servoSpeed \in [1 .. 6 -> Bytes] /\ c.servoInputMap \in [1 .. 6 -> Bytes]
           /\ c = [outputsSafe |-> c.outputsSafe, inputsDelay |-> c.inputsDelay,
                   servoEnabledMask |-> c.servoEnabledMask, servoPosition |-> c.servoPosition,
                   servoSpeed |-> c.servoSpeed, servoInputMap |-> c.servoInputMap]
BY DEF UnisConfigs

\* Values of servos are bytes once they are cut, and bytes are not changed by it.
LEMMA ServosCut ==
    ASSUME NEW n \in Nat, NEW s \in Seq(Int), Len(s) = n
    PROVE  [i \in DOMAIN s |-> s[i] % 256] \in [1 .. n -> Bytes]
<1>1. DOMAIN s = 1 .. n /\ \A i \in 1 .. n : s[i] \in Int
  OBVIOUS
<1>2. \A v \in Int : v % 256 \in Bytes
  BY DEF Bytes
<1>. QED  BY <1>1, <1>2

\* Cutting bytes changes nothing.
LEMMA ServosKept ==
    ASSUME NEW n \in Nat, NEW s \in [1 .. n -> Bytes]
    PROVE  [i \in DOMAIN s |-> s[i] % 256] = s
<1>1. \A v \in Bytes : v % 256 = v
  BY DEF Bytes
<1>. QED  BY <1>1

\* What a client asks for is a configuration, or is refused.
LEMMA UnisFromJson ==
    ASSUME NEW json \in Unis!ConfigRequest, NEW c \in Unis!fromJson(json)
    PROVE  c \in UnisConfigs
<1> DEFINE safe == [i \in DOMAIN json.outputsSafe |-> jsonOutputToByte(json.outputsSafe[i])]
           delay == [i \in DOMAIN json.inputsDelay |-> DelayOf(json.inputsDelay[i])]
           position == [i \in DOMAIN json.servoPosition |-> json.servoPosition[i] % 256]
           speed == [i \in DOMAIN json.servoSpeed |-> json.servoSpeed[i] % 256]
           map == IF json.servoInputMap = <<>> THEN Unis!DefaultConfig.servoInputMap
                  ELSE [i \in DOMAIN json.servoInputMap |-> json.servoInputMap[i] % 256]
<1>1. /\ json.outputsSafe \in Seq(OutputJson) /\ json.inputsDelay \in Seq(Int)
      /\ json.servoEnabledMask \in Int /\ json.servoPosition \in Seq(Int)
      /\ json.servoSpeed \in Seq(Int) /\ json.servoInputMap \in Seq(Int)
  BY UnisOperators DEF Unis!ConfigRequest
<1>2. /\ Len(safe) = 28 /\ Len(delay) = 16
      /\ Len(json.servoPosition) = 12 /\ Len(json.servoSpeed) = 6
      /\ Len(json.servoInputMap) \in {0, 6}
      /\ \A i \in DOMAIN safe : safe[i] # JsonError
      /\ \A i \in DOMAIN delay : delay[i] # JsonError
      /\ c = [outputsSafe |-> safe, inputsDelay |-> delay,
              servoEnabledMask |-> json.servoEnabledMask % 256,
              servoPosition |-> position, servoSpeed |-> speed, servoInputMap |-> map]
  <2>1. safe = [i \in DOMAIN json.outputsSafe |-> Unis!unisOutputToByte(json.outputsSafe[i])]
    BY UnisOperators DEF Unis!unisOutputToByte
  <2>2. delay = [i \in DOMAIN json.inputsDelay |-> Unis!DelayOf(json.inputsDelay[i])]
    BY UnisOperators
  <2>3. 2 * 6 = 12
    OBVIOUS
  <2> HIDE DEF safe, delay
  <2>. QED  BY <2>1, <2>2, <2>3, UnisOperators
            DEF Unis!fromJson, Unis!UNIS_OUT_CNT, Unis!UNIS_IN_CNT, Unis!UNIS_SERVO_CNT
<1>3. /\ Len(json.outputsSafe) = 28 /\ DOMAIN safe = 1 .. 28
      /\ \A i \in 1 .. 28 : safe[i] = jsonOutputToByte(json.outputsSafe[i])
      /\ Len(json.inputsDelay) = 16 /\ DOMAIN delay = 1 .. 16
      /\ \A i \in 1 .. 16 : delay[i] = DelayOf(json.inputsDelay[i])
  <2>1. Len(json.outputsSafe) = Len(safe) /\ Len(json.inputsDelay) = Len(delay)
    BY <1>1
  <2>2. Len(json.outputsSafe) = 28 /\ Len(json.inputsDelay) = 16
    BY <1>2, <2>1
  <2>3. DOMAIN json.outputsSafe = 1 .. 28 /\ DOMAIN json.inputsDelay = 1 .. 16
    <3>1. /\ DOMAIN json.outputsSafe = 1 .. Len(json.outputsSafe)
          /\ DOMAIN json.inputsDelay = 1 .. Len(json.inputsDelay)
      BY <1>1
    <3>. QED  BY <2>2, <3>1, Zenon
  <2>4. DOMAIN safe = DOMAIN json.outputsSafe /\ DOMAIN delay = DOMAIN json.inputsDelay
    OBVIOUS
  <2>5. /\ \A i \in DOMAIN json.outputsSafe : safe[i] = jsonOutputToByte(json.outputsSafe[i])
        /\ \A i \in DOMAIN json.inputsDelay : delay[i] = DelayOf(json.inputsDelay[i])
    OBVIOUS
  <2> HIDE DEF safe, delay
  <2>. QED  BY <2>2, <2>3, <2>4, <2>5
<1>4. safe \in [1 .. 28 -> OutputByte]
  <2>1. \A i \in 1 .. 28 : jsonOutputToByte(json.outputsSafe[i]) # JsonError
    <3> HIDE DEF safe, delay
    <3>. QED  BY <1>2, <1>3
  <2>2. 28 \in Nat /\ json.outputsSafe \in Seq(OutputJson) /\ Len(json.outputsSafe) = 28
    BY <1>1, <1>3
  <2>. QED  BY <2>1, <2>2, OutputsOfJson
<1>5. delay \in [1 .. 16 -> Tenths]
  <2>1. \A i \in 1 .. 16 : DelayOf(json.inputsDelay[i]) # JsonError
    <3> HIDE DEF safe, delay
    <3>. QED  BY <1>2, <1>3
  <2>2. 16 \in Nat /\ json.inputsDelay \in Seq(Int) /\ Len(json.inputsDelay) = 16
    BY <1>1, <1>3
  <2>. QED  BY <2>1, <2>2, DelaysOfJson
<1>6. position \in [1 .. 12 -> Bytes] /\ speed \in [1 .. 6 -> Bytes]
  <2>1. 12 \in Nat /\ 6 \in Nat
    OBVIOUS
  <2>2. position \in [1 .. 12 -> Bytes]
    BY <1>1, <1>2, <2>1, ServosCut
  <2>3. speed \in [1 .. 6 -> Bytes]
    BY <1>1, <1>2, <2>1, ServosCut
  <2>. QED  BY <2>2, <2>3
<1>7. map \in [1 .. 6 -> Bytes]
  <2>1. CASE json.servoInputMap = <<>>
    <3>1. Unis!DefaultConfig.servoInputMap \in [1 .. 6 -> Bytes]
      BY UnisDefault, UnisParts
    <3>. QED  BY <2>1, <3>1
  <2>2. CASE json.servoInputMap # <<>>
    <3>1. Len(json.servoInputMap) = 6 /\ 6 \in Nat
      <4>1. Len(json.servoInputMap) # 0
        BY <1>1, <2>2
      <4>. QED  BY <1>2, <4>1
    <3>2. [i \in DOMAIN json.servoInputMap |-> json.servoInputMap[i] % 256] \in [1 .. 6 -> Bytes]
      BY <1>1, <3>1, ServosCut
    <3>. QED  BY <2>2, <3>2
  <2>. QED  BY <2>1, <2>2
<1>8. json.servoEnabledMask % 256 \in Bytes
  BY <1>1 DEF Bytes
<1> HIDE DEF safe, delay, position, speed, map
<1>. QED  BY <1>2, <1>4, <1>5, <1>6, <1>7, <1>8 DEF UnisConfigs

\* The file gives back the configuration it was written from.
LEMMA UnisBack ==
    ASSUME NEW c \in UnisConfigs
    PROVE  Unis!fromJson(Unis!configJson(c)) = {c}
<1> DEFINE json == Unis!configJson(c)
           safe == [i \in DOMAIN json.outputsSafe |-> Unis!unisOutputToByte(json.outputsSafe[i])]
           delay == [i \in DOMAIN json.inputsDelay |-> Unis!DelayOf(json.inputsDelay[i])]
           Cut(s) == [i \in DOMAIN s |-> s[i] % 256]
<1>1. /\ c.outputsSafe \in [1 .. 28 -> OutputByte] /\ c.inputsDelay \in [1 .. 16 -> Tenths]
      /\ c.servoEnabledMask \in Bytes /\ c.servoPosition \in [1 .. 12 -> Bytes]
      /\ c.servoSpeed \in [1 .. 6 -> Bytes] /\ c.servoInputMap \in [1 .. 6 -> Bytes]
      /\ c = [outputsSafe |-> c.outputsSafe, inputsDelay |-> c.inputsDelay,
              servoEnabledMask |-> c.servoEnabledMask, servoPosition |-> c.servoPosition,
              servoSpeed |-> c.servoSpeed, servoInputMap |-> c.servoInputMap]
  BY UnisParts
<1>2. /\ json.outputsSafe = [i \in 1 .. 28 |-> outputToJson(c.outputsSafe[i])]
      /\ json.inputsDelay = [i \in 1 .. 16 |-> 10 * c.inputsDelay[i]]
      /\ json.servoEnabledMask = c.servoEnabledMask /\ json.servoPosition = c.servoPosition
      /\ json.servoSpeed = c.servoSpeed /\ json.servoInputMap = c.servoInputMap
  <2>1. json = [outputsSafe |-> Unis!outputsToJson(c.outputsSafe),
                inputsDelay |-> [i \in 1 .. 16 |-> 10 * c.inputsDelay[i]],
                servoEnabledMask |-> c.servoEnabledMask, servoPosition |-> c.servoPosition,
                servoSpeed |-> c.servoSpeed, servoInputMap |-> c.servoInputMap]
    BY DEF Unis!configJson, Unis!UNIS_IN_CNT
  <2>2. Unis!outputsToJson(c.outputsSafe) = [i \in 1 .. 28 |-> outputToJson(c.outputsSafe[i])]
    BY <1>1, UnisOperators DEF Unis!outputsToJson
  <2> HIDE DEF json
  <2>. QED  BY <2>1, <2>2
<1> HIDE DEF json
<1>3. safe = c.outputsSafe
  <2>1. safe = [i \in DOMAIN json.outputsSafe |-> jsonOutputToByte(json.outputsSafe[i])]
    BY UnisOperators DEF Unis!unisOutputToByte
  <2>2. 28 \in Nat
    OBVIOUS
  <2> HIDE DEF safe
  <2>3. c.outputsSafe \in [1 .. 28 -> OutputByte]
    BY <1>1
  <2>4. json.outputsSafe = [i \in 1 .. 28 |-> outputToJson(c.outputsSafe[i])]
    BY <1>2
  <2>. DEFINE n == 28
             o == c.outputsSafe
             j == json.outputsSafe
  <2>. HIDE DEF n, o, j
  <2>5. [i \in DOMAIN j |-> jsonOutputToByte(j[i])] = o
    <3>1. n \in Nat /\ o \in [1 .. n -> OutputByte]
          /\ j = [i \in 1 .. n |-> outputToJson(o[i])]
      BY <2>2, <2>3, <2>4 DEF n, o, j
    <3>. QED  BY <3>1, JsonOfOutputs
  <2>. QED  BY <2>1, <2>5 DEF j, o
<1>4. delay = c.inputsDelay
  <2>1. delay = [i \in DOMAIN json.inputsDelay |-> DelayOf(json.inputsDelay[i])]
    BY UnisOperators
  <2>2. 16 \in Nat
    OBVIOUS
  <2> HIDE DEF delay
  <2>3. c.inputsDelay \in [1 .. 16 -> Tenths]
    BY <1>1
  <2>4. json.inputsDelay = [i \in 1 .. 16 |-> 10 * c.inputsDelay[i]]
    BY <1>2
  <2>. DEFINE n == 16
             d == c.inputsDelay
             j == json.inputsDelay
  <2>. HIDE DEF n, d, j
  <2>5. [i \in DOMAIN j |-> DelayOf(j[i])] = d
    <3>1. n \in Nat /\ d \in [1 .. n -> Tenths] /\ j = [i \in 1 .. n |-> 10 * d[i]]
      BY <2>2, <2>3, <2>4 DEF n, d, j
    <3>. QED  BY <3>1, JsonOfDelays
  <2>. QED  BY <2>1, <2>5 DEF j, d
<1>5. /\ Len(c.outputsSafe) = 28 /\ Len(c.inputsDelay) = 16 /\ Len(c.servoPosition) = 12
      /\ Len(c.servoSpeed) = 6 /\ Len(c.servoInputMap) = 6
  <2>1. 28 \in Nat /\ 16 \in Nat /\ 12 \in Nat /\ 6 \in Nat
    OBVIOUS
  <2>. QED  BY <1>1, <2>1, IsSequence
<1>6. /\ \A i \in DOMAIN safe : safe[i] # JsonError
      /\ \A i \in DOMAIN delay : delay[i] # JsonError
  <2>1. /\ \A i \in 1 .. 28 : c.outputsSafe[i] # JsonError
        /\ \A i \in 1 .. 16 : c.inputsDelay[i] # JsonError
    BY <1>1, NoError
  <2>2. DOMAIN c.outputsSafe = 1 .. 28 /\ DOMAIN c.inputsDelay = 1 .. 16
    BY <1>1
  <2>. QED  BY <1>3, <1>4, <2>1, <2>2
<1>7. /\ Cut(c.servoPosition) = c.servoPosition /\ Cut(c.servoSpeed) = c.servoSpeed
      /\ Cut(c.servoInputMap) = c.servoInputMap
  <2>1. 12 \in Nat /\ 6 \in Nat
    OBVIOUS
  <2>. QED  BY <1>1, <2>1, ServosKept
<1>8. c.servoEnabledMask % 256 = c.servoEnabledMask
  BY <1>1 DEF Bytes
<1>9. c.servoInputMap # <<>>
  <2>1. Len(<<>>) # Len(c.servoInputMap)
    BY <1>5
  <2>. QED  BY <2>1, Zenon
<1>10. Unis!fromJson(json)
         = {[outputsSafe |-> safe, inputsDelay |-> delay,
             servoEnabledMask |-> json.servoEnabledMask % 256,
             servoPosition |-> Cut(json.servoPosition), servoSpeed |-> Cut(json.servoSpeed),
             servoInputMap |-> Cut(json.servoInputMap)]}
  <2>1. /\ Len(safe) = 28 /\ Len(delay) = 16 /\ Len(json.servoPosition) = 2 * 6
        /\ Len(json.servoSpeed) = 6 /\ Len(json.servoInputMap) \in {0, 6}
        /\ json.servoInputMap # <<>>
    BY <1>2, <1>3, <1>4, <1>5, <1>9
  <2> HIDE DEF safe, delay, Cut
  <2>. QED  BY <1>6, <2>1, UnisOperators
            DEF Unis!fromJson, Unis!UNIS_OUT_CNT, Unis!UNIS_IN_CNT, Unis!UNIS_SERVO_CNT,
                safe, delay, Cut
<1> HIDE DEF safe, delay, Cut
<1>. QED  BY <1>1, <1>2, <1>3, <1>4, <1>7, <1>8, <1>10 DEF json

\* s has the elements of r from place a + 1 on.
HoldsAt(s, a, r) == a + Len(r) <= Len(s) /\ \A i \in 1 .. Len(r) : s[a + i] = r[i]

\* What is appended is at the end, ...
LEMMA HeldLast ==
    ASSUME NEW p \in Seq(Nat), NEW q \in Seq(Nat)
    PROVE  /\ p \o q \in Seq(Nat) /\ Len(p \o q) = Len(p) + Len(q)
           /\ HoldsAt(p \o q, Len(p), q)
<1>1. /\ p \o q \in Seq(Nat) /\ Len(p \o q) = Len(p) + Len(q)
      /\ Len(p) \in Nat /\ Len(q) \in Nat
      /\ \A i \in 1 .. Len(q) : (p \o q)[Len(p) + i] = q[i]
  BY Joined
<1>. QED  BY <1>1 DEF HoldsAt

\* ... what was held before is still held, ...
LEMMA HeldStill ==
    ASSUME NEW p \in Seq(Nat), NEW q \in Seq(Nat), NEW a \in Nat, NEW r \in Seq(Nat),
           HoldsAt(p, a, r)
    PROVE  HoldsAt(p \o q, a, r)
<1> DEFINE s == p \o q
<1>1. /\ Len(s) = Len(p) + Len(q) /\ Len(p) \in Nat /\ Len(q) \in Nat /\ Len(r) \in Nat
      /\ \A i \in 1 .. Len(p) : s[i] = p[i]
  BY Joined
<1> HIDE DEF s
<1>2. a + Len(r) <= Len(p) /\ \A i \in 1 .. Len(r) : p[a + i] = r[i]
  BY DEF HoldsAt
<1>3. \A i \in 1 .. Len(r) : a + i \in 1 .. Len(p)
  BY <1>1, <1>2
<1>4. a + Len(r) <= Len(s)
  BY <1>1, <1>2
<1>5. \A i \in 1 .. Len(r) : s[a + i] = r[i]
  BY <1>1, <1>2, <1>3
<1>. QED  BY <1>4, <1>5 DEF HoldsAt, s

\* ... and what is held can be cut out.
LEMMA HeldCut ==
    ASSUME NEW s \in Seq(Nat), NEW a \in Nat, NEW r \in Seq(Nat), HoldsAt(s, a, r)
    PROVE  SubSeq(s, a + 1, a + Len(r)) = r
<1>1. Len(r) \in Nat /\ a + Len(r) <= Len(s) /\ \A i \in 1 .. Len(r) : s[a + i] = r[i]
  BY DEF HoldsAt
<1>2. SubSeq(s, a + 1, a + Len(r)) = [i \in 1 .. Len(r) |-> s[a + i]]
  BY <1>1, CutOut
<1>3. r = [i \in 1 .. Len(r) |-> r[i]]
  OBVIOUS
<1>. QED  BY <1>1, <1>2, <1>3

\* The six fields of a configuration of MTB-UNIS are found at their places.
LEMMA UnisPlaces ==
    ASSUME NEW o \in Seq(Nat), Len(o) = 28, NEW d \in Seq(Nat), Len(d) = 8,
           NEW m \in Nat, NEW p \in Seq(Nat), Len(p) = 12, NEW v \in Seq(Nat), Len(v) = 6,
           NEW q \in Seq(Nat), Len(q) = 6
    PROVE  LET s == o \o d \o <<m>> \o p \o v \o q
           IN  /\ s \in Seq(Nat) /\ Len(s) = 61
               /\ HoldsAt(s, 0, o) /\ HoldsAt(s, 28, d) /\ HoldsAt(s, 36, <<m>>)
               /\ HoldsAt(s, 37, p) /\ HoldsAt(s, 49, v) /\ HoldsAt(s, 55, q)
<1> DEFINE s2 == o \o d
           one == <<m>>
           s3 == s2 \o one
           s4 == s3 \o p
           s5 == s4 \o v
           s6 == s5 \o q
<1>0. one \in Seq(Nat) /\ Len(one) = 1
  OBVIOUS
<1>1. HoldsAt(o, 0, o)
  BY DEF HoldsAt
<1>2. 0 \in Nat /\ 28 \in Nat /\ 36 \in Nat /\ 37 \in Nat /\ 49 \in Nat /\ 55 \in Nat
  OBVIOUS
<1> HIDE DEF one
<1>3. s2 \in Seq(Nat) /\ Len(s2) = 36 /\ HoldsAt(s2, 0, o) /\ HoldsAt(s2, 28, d)
  <2>1. s2 \in Seq(Nat) /\ Len(s2) = Len(o) + Len(d) /\ HoldsAt(s2, Len(o), d)
    BY HeldLast
  <2>2. HoldsAt(s2, 0, o)
    BY <1>1, <1>2, HeldStill
  <2> HIDE DEF s2
  <2>. QED  BY <2>1, <2>2
<1> HIDE DEF s2
<1>4. /\ s3 \in Seq(Nat) /\ Len(s3) = 37 /\ HoldsAt(s3, 0, o) /\ HoldsAt(s3, 28, d)
      /\ HoldsAt(s3, 36, one)
  <2>1. s3 \in Seq(Nat) /\ Len(s3) = Len(s2) + Len(one) /\ HoldsAt(s3, Len(s2), one)
    BY <1>0, <1>3, HeldLast
  <2>2. HoldsAt(s3, 0, o) /\ HoldsAt(s3, 28, d)
    BY <1>0, <1>2, <1>3, HeldStill
  <2> HIDE DEF s3
  <2>. QED  BY <1>0, <1>3, <2>1, <2>2
<1> HIDE DEF s3
<1>5. /\ s4 \in Seq(Nat) /\ Len(s4) = 49 /\ HoldsAt(s4, 0, o) /\ HoldsAt(s4, 28, d)
      /\ HoldsAt(s4, 36, one) /\ HoldsAt(s4, 37, p)
  <2>1. s4 \in Seq(Nat) /\ Len(s4) = Len(s3) + Len(p) /\ HoldsAt(s4, Len(s3), p)
    BY <1>4, HeldLast
  <2>2. HoldsAt(s4, 0, o) /\ HoldsAt(s4, 28, d) /\ HoldsAt(s4, 36, one)
    BY <1>0, <1>2, <1>4, HeldStill
  <2> HIDE DEF s4
  <2>. QED  BY <1>4, <2>1, <2>2
<1> HIDE DEF s4
<1>6. /\ s5 \in Seq(Nat) /\ Len(s5) = 55 /\ HoldsAt(s5, 0, o) /\ HoldsAt(s5, 28, d)
      /\ HoldsAt(s5, 36, one) /\ HoldsAt(s5, 37, p) /\ HoldsAt(s5, 49, v)
  <2>1. s5 \in Seq(Nat) /\ Len(s5) = Len(s4) + Len(v) /\ HoldsAt(s5, Len(s4), v)
    BY <1>5, HeldLast
  <2>2. HoldsAt(s5, 0, o) /\ HoldsAt(s5, 28, d) /\ HoldsAt(s5, 36, one) /\ HoldsAt(s5, 37, p)
    BY <1>0, <1>2, <1>5, HeldStill
  <2> HIDE DEF s5
  <2>. QED  BY <1>5, <2>1, <2>2
<1> HIDE DEF s5
<1>7. /\ s6 \in Seq(Nat) /\ Len(s6) = 61 /\ HoldsAt(s6, 0, o) /\ HoldsAt(s6, 28, d)
      /\ HoldsAt(s6, 36, one) /\ HoldsAt(s6, 37, p) /\ HoldsAt(s6, 49, v) /\ HoldsAt(s6, 55, q)
  <2>1. s6 \in Seq(Nat) /\ Len(s6) = Len(s5) + Len(q) /\ HoldsAt(s6, Len(s5), q)
    BY <1>6, HeldLast
  <2>2. /\ HoldsAt(s6, 0, o) /\ HoldsAt(s6, 28, d) /\ HoldsAt(s6, 36, one)
        /\ HoldsAt(s6, 37, p) /\ HoldsAt(s6, 49, v)
    BY <1>0, <1>2, <1>6, HeldStill
  <2> HIDE DEF s6
  <2>. QED  BY <1>6, <2>1, <2>2
<1>. QED  BY <1>7 DEF s6, s5, s4, s3, s2, one

\* What the daemon reads back from an MTB-UNIS: all but two bits of servoEnabledMask.
LEMMA UnisRead ==
    ASSUME NEW c \in UnisConfigs
    PROVE  Unis!fromMtbUsb(Unis!serializeForMtbUsb(c))
             = [outputsSafe |-> c.outputsSafe, inputsDelay |-> c.inputsDelay,
                servoEnabledMask |-> c.servoEnabledMask % 64, servoPosition |-> c.servoPosition,
                servoSpeed |-> c.servoSpeed, servoInputMap |-> c.servoInputMap]
<1> DEFINE s == Unis!serializeForMtbUsb(c)
           o == c.outputsSafe
           d == DelayBytes(c.inputsDelay)
           m == c.servoEnabledMask % 64
           p == c.servoPosition
           v == c.servoSpeed
           q == c.servoInputMap
<1>1. /\ o \in [1 .. 28 -> OutputByte] /\ c.inputsDelay \in [1 .. 16 -> Tenths]
      /\ c.servoEnabledMask \in Bytes /\ p \in [1 .. 12 -> Bytes]
      /\ v \in [1 .. 6 -> Bytes] /\ q \in [1 .. 6 -> Bytes]
  BY UnisParts
<1>2. /\ d \in [1 .. 8 -> Bytes]
      /\ \A i \in 1 .. 16 : Nibble(d[1 + (i - 1) \div 2], i - 1) = c.inputsDelay[i]
  BY <1>1, DelayBytesAre
<1>3. s = o \o d \o <<m>> \o p \o v \o q
  BY UnisOperators DEF Unis!serializeForMtbUsb
<1>4. m \in Nat
  BY <1>1 DEF Bytes
<1> HIDE DEF s, o, d, m, p, v, q
<1>5. /\ o \in Seq(Nat) /\ Len(o) = 28 /\ d \in Seq(Nat) /\ Len(d) = 8
      /\ p \in Seq(Nat) /\ Len(p) = 12 /\ v \in Seq(Nat) /\ Len(v) = 6
      /\ q \in Seq(Nat) /\ Len(q) = 6
  <2>1. OutputByte \subseteq Nat /\ Bytes \subseteq Nat
    BY DEF OutputByte, Bytes
  <2>2. 28 \in Nat /\ 8 \in Nat /\ 12 \in Nat /\ 6 \in Nat
    OBVIOUS
  <2>3. o \in [1 .. 28 -> Nat] /\ d \in [1 .. 8 -> Nat] /\ p \in [1 .. 12 -> Nat]
        /\ v \in [1 .. 6 -> Nat] /\ q \in [1 .. 6 -> Nat]
    BY <1>1, <1>2, <2>1
  <2>. QED  BY <2>2, <2>3, IsSequence
<1>6. /\ s \in Seq(Nat) /\ Len(s) = 61
      /\ HoldsAt(s, 0, o) /\ HoldsAt(s, 28, d) /\ HoldsAt(s, 36, <<m>>)
      /\ HoldsAt(s, 37, p) /\ HoldsAt(s, 49, v) /\ HoldsAt(s, 55, q)
  BY <1>3, <1>4, <1>5, UnisPlaces
<1>7. /\ SubSeq(s, 1, 28) = o /\ SubSeq(s, 38, 49) = p /\ SubSeq(s, 50, 55) = v
      /\ SubSeq(s, 56, 61) = q
  <2>1. /\ SubSeq(s, 0 + 1, 0 + Len(o)) = o /\ SubSeq(s, 37 + 1, 37 + Len(p)) = p
        /\ SubSeq(s, 49 + 1, 49 + Len(v)) = v /\ SubSeq(s, 55 + 1, 55 + Len(q)) = q
    <3>0. 0 \in Nat /\ 37 \in Nat /\ 49 \in Nat /\ 55 \in Nat
      OBVIOUS
    <3>5. /\ s \in Seq(Nat) /\ o \in Seq(Nat) /\ p \in Seq(Nat)
          /\ v \in Seq(Nat) /\ q \in Seq(Nat)
          /\ HoldsAt(s, 0, o) /\ HoldsAt(s, 37, p) /\ HoldsAt(s, 49, v)
          /\ HoldsAt(s, 55, q)
      BY <1>5, <1>6, Zenon
    <3>1. SubSeq(s, 0 + 1, 0 + Len(o)) = o
      BY <3>0, <3>5, HeldCut, Zenon
    <3>2. SubSeq(s, 37 + 1, 37 + Len(p)) = p
      BY <3>0, <3>5, HeldCut, Zenon
    <3>3. SubSeq(s, 49 + 1, 49 + Len(v)) = v
      BY <3>0, <3>5, HeldCut, Zenon
    <3>4. SubSeq(s, 55 + 1, 55 + Len(q)) = q
      BY <3>0, <3>5, HeldCut, Zenon
    <3>. QED  BY <3>1, <3>2, <3>3, <3>4, Zenon
  <2>2. /\ 0 + 1 = 1 /\ 0 + Len(o) = 28 /\ 37 + 1 = 38 /\ 37 + Len(p) = 49
        /\ 49 + 1 = 50 /\ 49 + Len(v) = 55 /\ 55 + 1 = 56 /\ 55 + Len(q) = 61
    BY <1>5
  <2>. QED  BY <2>1, <2>2
<1>8. s[37] = m
  <2>1. s[36 + 1] = <<m>>[1]
    <3>1. 1 \in 1 .. Len(<<m>>)
      OBVIOUS
    <3>. QED  BY <1>6, <3>1 DEF HoldsAt
  <2>2. 36 + 1 = 37 /\ <<m>>[1] = m
    OBVIOUS
  <2>. QED  BY <2>1, <2>2
<1>9. [i \in 1 .. 16 |-> Nibble(s[29 + (i - 1) \div 2], i - 1)] = c.inputsDelay
  <2>1. ASSUME NEW i \in 1 .. 16 PROVE s[29 + (i - 1) \div 2] = d[1 + (i - 1) \div 2]
    <3> DEFINE k == 1 + (i - 1) \div 2
    <3>1. k \in 1 .. 8 /\ 28 + k = 29 + (i - 1) \div 2
      OBVIOUS
    <3> HIDE DEF k
    <3>2. s[28 + k] = d[k]
      BY <1>5, <1>6, <3>1 DEF HoldsAt
    <3>. QED  BY <3>1, <3>2 DEF k
  <2>2. \A i \in 1 .. 16 : Nibble(s[29 + (i - 1) \div 2], i - 1) = c.inputsDelay[i]
    BY <1>2, <2>1
  <2>. QED  BY <1>1, <2>2
<1>10. Unis!fromMtbUsb(s)
         = [outputsSafe |-> SubSeq(s, 1, 28),
            inputsDelay |-> [i \in 1 .. 16 |-> Nibble(s[29 + (i - 1) \div 2], i - 1)],
            servoEnabledMask |-> s[37],
            servoPosition |-> SubSeq(s, 38, 49), servoSpeed |-> SubSeq(s, 50, 55),
            servoInputMap |-> SubSeq(s, 56, 61)]
  <2>1. ~(Len(s) < 61)
    BY <1>6
  <2>2. [i \in 1 .. 16 |-> Unis!Nibble(s[29 + (i - 1) \div 2], i - 1)]
          = [i \in 1 .. 16 |-> Nibble(s[29 + (i - 1) \div 2], i - 1)]
    BY UnisOperators
  <2>. QED  BY <2>1, <2>2, Zenon DEF Unis!fromMtbUsb, Unis!UNIS_IN_CNT
<1>. QED  BY <1>7, <1>8, <1>9, <1>10 DEF s, o, m, p, v, q

-----------------------------------------------------------------------------
(* MTB-LED *)

LedConfigs == [outputsSafe : [1 .. 32 -> BOOLEAN], brightness : [1 .. 32 -> Bytes]]

\* The configuration a new object has.
LEMMA LedDefault == Led!DefaultConfig \in LedConfigs
BY DEF Led!DefaultConfig, LedConfigs, Bytes, Led!LED_IO_CNT

\* The fields of a configuration.
LEMMA LedParts ==
    ASSUME NEW c \in LedConfigs
    PROVE  /\ c.outputsSafe \in [1 .. 32 -> BOOLEAN] /\ c.brightness \in [1 .. 32 -> Bytes]
           /\ c = [outputsSafe |-> c.outputsSafe, brightness |-> c.brightness]
BY DEF LedConfigs

\* 32 states in four bytes are found again, whatever follows.
LEMMA LedBits ==
    ASSUME NEW o \in [1 .. 32 -> BOOLEAN], NEW r \in Seq(Nat)
    PROVE  /\ Led!ioToMtb(o) \in Seq(Nat) /\ Len(Led!ioToMtb(o)) = 4
           /\ Led!mtbDataToIo(Led!ioToMtb(o) \o r) = o
<1> DEFINE S == {i \in 0 .. 31 : o[i + 1]}
           p == LittleEndian(S, 4)
           s == p \o r
<1>1. S \in SUBSET (0 .. 32 - 1) /\ 32 \in 0 .. 32
  OBVIOUS
<1>2. \A i \in 1 .. 32 : i - 1 \in S <=> o[i]
  <2>1. \A i \in 1 .. 32 : i - 1 \in 0 .. 31 /\ (i - 1) + 1 = i
    OBVIOUS
  <2>. QED  BY <2>1
<1>3. Led!ioToMtb(o) = p
  <2>1. 32 - 1 = 31
    OBVIOUS
  <2>. QED  BY <2>1, LedOperators DEF Led!ioToMtb, Led!LED_IO_CNT
<1> HIDE DEF S
<1>4. p \in Seq(Nat) /\ Len(p) = 4 /\ OnBits(p) = S
  BY <1>1, FourBytes
<1> HIDE DEF p
<1>5. Len(s) \in Nat /\ Len(s) >= 4 /\ SubSeq(s, 1, 4) = p
  <2>1. s \in Seq(Nat) /\ Len(s) = Len(p) + Len(r) /\ Len(r) \in Nat
    BY <1>4, Joined
  <2>2. HoldsAt(p, 0, p) /\ 0 \in Nat
    BY <1>4 DEF HoldsAt
  <2>3. HoldsAt(s, 0, p)
    BY <1>4, <2>2, HeldStill
  <2> HIDE DEF s
  <2>4. SubSeq(s, 0 + 1, 0 + Len(p)) = p
    BY <1>4, <2>1, <2>2, <2>3, HeldCut
  <2>5. 0 + 1 = 1 /\ 0 + Len(p) = 4
    BY <1>4
  <2>. QED  BY <1>4, <2>1, <2>4, <2>5
<1> HIDE DEF s
<1>6. Led!mtbDataToIo(s) = [i \in 1 .. 32 |-> i - 1 \in S]
  <2>1. Led!OnBits(SubSeq(s, 1, 4)) = S
    BY <1>4, <1>5, LedOperators, Zenon
  <2>2. Led!mtbDataToIo(s) = [i \in 1 .. 32 |-> Len(s) >= 4 /\ i - 1 \in S]
    BY <2>1, Zenon DEF Led!mtbDataToIo, Led!LED_IO_CNT
  <2>3. Len(s) >= 4
    BY <1>5
  <2>4. ASSUME NEW i \in 1 .. 32
        PROVE  (Len(s) >= 4 /\ i - 1 \in S) = (i - 1 \in S)
    <3>1. CASE i - 1 \in S
      BY <2>3, <3>1
    <3>2. CASE i - 1 \notin S
      BY <2>3, <3>2
    <3>. QED  BY <3>1, <3>2
  <2>. QED  BY <2>2, <2>4, Zenon
<1>7. [i \in 1 .. 32 |-> i - 1 \in S] = o
  <2>1. \A i \in 1 .. 32 : o[i] \in BOOLEAN
    OBVIOUS
  <2>2. ASSUME NEW i \in 1 .. 32 PROVE (i - 1 \in S) = o[i]
    <3>1. CASE o[i]
      <4>1. i - 1 \in S /\ o[i] = TRUE
        BY <1>2, <2>1, <3>1, Zenon
      <4>. QED  BY <4>1, Zenon
    <3>2. CASE ~o[i]
      <4>1. ~(i - 1 \in S) /\ o[i] = FALSE
        BY <1>2, <2>1, <3>2, Zenon
      <4>2. (i - 1 \in S) = FALSE
        BY <4>1
      <4>. QED  BY <4>1, <4>2
    <3>. QED  BY <3>1, <3>2, Zenon
  <2>3. o = [i \in 1 .. 32 |-> o[i]]
    BY Zenon
  <2>. QED  BY <2>2, <2>3, Zenon
<1>. QED  BY <1>3, <1>4, <1>6, <1>7 DEF s

\* The outputs an MTB-LED answers with are those it was sent.
LEMMA LedEcho ==
    ASSUME NEW o \in [1 .. 32 -> BOOLEAN]
    PROVE  Led!mtbDataToIo(Led!ioToMtb(o)) = o
<1>0. <<>> \in Seq(Nat)
  OBVIOUS
<1>1. Led!ioToMtb(o) \in Seq(Nat)
  BY <1>0, LedBits
<1>2. Led!ioToMtb(o) \o <<>> = Led!ioToMtb(o)
  BY <1>1
<1>3. Led!mtbDataToIo(Led!ioToMtb(o) \o <<>>) = o
  BY <1>0, LedBits
<1>. QED  BY <1>2, <1>3

\* A sequence of n elements is an array.
LEMMA ArrayOf ==
    ASSUME NEW n \in Nat, NEW T, NEW s \in Seq(T), Len(s) = n
    PROVE  s \in [1 .. n -> T]
OBVIOUS

\* What a client asks for is a configuration, or is refused.
LEMMA LedFromJson ==
    ASSUME NEW json \in Led!ConfigRequest, NEW c \in Led!fromJson(json)
    PROVE  c \in LedConfigs
<1>1. json.outputsSafe \in Seq(BOOLEAN) /\ json.brightness \in Seq(Int)
  BY DEF Led!ConfigRequest
<1>2. /\ Len(json.outputsSafe) = 32 /\ Len(json.brightness) = 32
      /\ c = [outputsSafe |-> json.outputsSafe,
              brightness |-> [i \in 1 .. 32 |-> json.brightness[i] % 256]]
  BY DEF Led!fromJson, Led!LED_IO_CNT
<1>3. json.outputsSafe \in [1 .. 32 -> BOOLEAN] /\ json.brightness \in [1 .. 32 -> Int]
  <2>1. 32 \in Nat
    OBVIOUS
  <2>. QED  BY <1>1, <1>2, <2>1, ArrayOf
<1>4. [i \in 1 .. 32 |-> json.brightness[i] % 256] \in [1 .. 32 -> Bytes]
  <2>1. \A i \in 1 .. 32 : json.brightness[i] \in Int
    BY <1>3
  <2>2. \A v \in Int : v % 256 \in Bytes
    BY DEF Bytes
  <2>. QED  BY <2>1, <2>2
<1>. QED  BY <1>2, <1>3, <1>4 DEF LedConfigs

\* The file gives back the configuration it was written from.
LEMMA LedBack ==
    ASSUME NEW c \in LedConfigs
    PROVE  Led!fromJson(Led!configJson(c)) = {c}
<1>1. /\ c.outputsSafe \in [1 .. 32 -> BOOLEAN] /\ c.brightness \in [1 .. 32 -> Bytes]
      /\ c = [outputsSafe |-> c.outputsSafe, brightness |-> c.brightness]
  BY LedParts
<1>2. Len(c.outputsSafe) = 32 /\ Len(c.brightness) = 32
  <2>1. 32 \in Nat
    OBVIOUS
  <2>. QED  BY <1>1, <2>1, IsSequence
<1>3. [i \in 1 .. 32 |-> c.brightness[i] % 256] = c.brightness
  <2>1. \A v \in Bytes : v % 256 = v
    BY DEF Bytes
  <2>. QED  BY <1>1, <2>1
<1>. QED  BY <1>1, <1>2, <1>3 DEF Led!fromJson, Led!configJson, Led!LED_IO_CNT

\* The daemon reads back from an MTB-LED what it wrote.
LEMMA LedRead ==
    ASSUME NEW c \in LedConfigs
    PROVE  Led!fromMtbUsb(Led!serializeForMtbUsb(c)) = c
<1> DEFINE o == Led!ioToMtb(c.outputsSafe)
           r == c.brightness
           s == Led!serializeForMtbUsb(c)
<1>1. c.outputsSafe \in [1 .. 32 -> BOOLEAN] /\ r \in [1 .. 32 -> Bytes]
      /\ c = [outputsSafe |-> c.outputsSafe, brightness |-> r]
  BY LedParts
<1>2. s = o \o r
  BY DEF Led!serializeForMtbUsb
<1> HIDE DEF s, r
<1>3. r \in Seq(Nat) /\ Len(r) = 32
  <2>1. r \in [1 .. 32 -> Nat] /\ 32 \in Nat
    BY <1>1 DEF Bytes
  <2>. QED  BY <2>1, IsSequence
<1>4. o \in Seq(Nat) /\ Len(o) = 4 /\ Led!mtbDataToIo(o \o r) = c.outputsSafe
  BY <1>1, <1>3, LedBits
<1> HIDE DEF o
<1>5. s \in Seq(Nat) /\ Len(s) = 36 /\ SubSeq(s, 5, 36) = r
  <2>1. s \in Seq(Nat) /\ Len(s) = Len(o) + Len(r) /\ HoldsAt(s, Len(o), r)
    BY <1>2, <1>3, <1>4, HeldLast
  <2>2. HoldsAt(s, 4, r) /\ 4 \in Nat
    BY <1>4, <2>1
  <2>3. SubSeq(s, 4 + 1, 4 + Len(r)) = r
    BY <1>3, <2>1, <2>2, HeldCut
  <2>4. 4 + 1 = 5 /\ 4 + Len(r) = 36 /\ Len(o) + Len(r) = 36
    BY <1>3, <1>4
  <2>. QED  BY <2>1, <2>3, <2>4
<1>6. Led!fromMtbUsb(s) = [outputsSafe |-> Led!mtbDataToIo(s), brightness |-> SubSeq(s, 5, 36)]
  <2>1. ~(Len(s) < 32 + 4) /\ 32 + 4 = 36
    BY <1>5
  <2>. QED  BY <2>1 DEF Led!fromMtbUsb, Led!LED_IO_CNT
<1>. QED  BY <1>1, <1>2, <1>4, <1>5, <1>6 DEF s

-----------------------------------------------------------------------------
(* The codec of the class of the module *)

Configs == CASE kind = "UNIS" -> UnisConfigs
             [] kind = "LED"  -> LedConfigs
             [] OTHER         -> UniConfigs(isIrSupport)

Outputs == CASE kind = "UNIS" -> [1 .. 28 -> OutputByte]
             [] kind = "LED"  -> [1 .. 32 -> BOOLEAN]
             [] OTHER         -> [1 .. 16 -> OutputByte]

\* The modules that are modelled.
LEMMA ThreeKinds ==
    ASSUME kind \in Kinds
    PROVE  kind = "UNIS" \/ kind = "LED" \/ kind \in {"UNI", "UNI-IR"}
BY RequestsAssumption

\* A new object has a configuration of its class, ...
LEMMA DefaultIsConfig ==
    ASSUME kind \in Kinds
    PROVE  DefaultConfig \in Configs
<1>1. CASE kind = "UNIS"
  BY <1>1, UnisDefault DEF DefaultConfig, Configs
<1>2. CASE kind = "LED"
  BY <1>2, LedDefault DEF DefaultConfig, Configs
<1>3. CASE kind \in {"UNI", "UNI-IR"}
  <2>1. DefaultConfig = Uni!DefaultConfig /\ Configs = UniConfigs(isIrSupport)
    BY <1>3 DEF DefaultConfig, Configs
  <2>2. isIrSupport \in BOOLEAN
    BY DEF isIrSupport
  <2>. QED  BY <2>1, <2>2, UniDefault
<1>. QED  BY <1>1, <1>2, <1>3, ThreeKinds

\* ... and the safe outputs of one are outputs.
LEMMA SafeIsOutputs ==
    ASSUME kind \in Kinds, NEW c \in Configs
    PROVE  c.outputsSafe \in Outputs
<1>1. CASE kind = "UNIS"
  BY <1>1, UnisParts DEF Outputs, Configs
<1>2. CASE kind = "LED"
  BY <1>2, LedParts DEF Outputs, Configs
<1>3. CASE kind \in {"UNI", "UNI-IR"}
  <2>1. Outputs = [1 .. 16 -> OutputByte] /\ Configs = UniConfigs(isIrSupport)
    BY <1>3 DEF Outputs, Configs
  <2>2. isIrSupport \in BOOLEAN
    BY DEF isIrSupport
  <2>. QED  BY <2>1, <2>2, UniParts
<1>. QED  BY <1>1, <1>2, <1>3, ThreeKinds

\* What is compared of a configuration of MTB-UNIS.
LEMMA SixBits ==
    ASSUME NEW c \in UnisConfigs
    PROVE  [c EXCEPT !.servoEnabledMask = @ % 64]
             = [outputsSafe |-> c.outputsSafe, inputsDelay |-> c.inputsDelay,
                servoEnabledMask |-> c.servoEnabledMask % 64, servoPosition |-> c.servoPosition,
                servoSpeed |-> c.servoSpeed, servoInputMap |-> c.servoInputMap]
BY DEF UnisConfigs

\* What the daemon reads back is comparable with what it wrote.
LEMMA ReadBack ==
    ASSUME kind \in Kinds, NEW c \in Configs
    PROVE  /\ FromMtbUsb(Serialize(c)) \in Configs
           /\ Comparable(FromMtbUsb(Serialize(c))) = Comparable(c)
<1>1. CASE kind = "UNIS"
  <2> DEFINE d == [outputsSafe |-> c.outputsSafe, inputsDelay |-> c.inputsDelay,
                   servoEnabledMask |-> c.servoEnabledMask % 64,
                   servoPosition |-> c.servoPosition, servoSpeed |-> c.servoSpeed,
                   servoInputMap |-> c.servoInputMap]
  <2>1. Configs = UnisConfigs /\ \A x : Comparable(x) = [x EXCEPT !.servoEnabledMask = @ % 64]
    BY <1>1 DEF Configs, Comparable
  <2>2. FromMtbUsb(Serialize(c)) = d
    <3>1. FromMtbUsb(Serialize(c)) = Unis!fromMtbUsb(Unis!serializeForMtbUsb(c))
      BY <1>1 DEF FromMtbUsb, Serialize
    <3>2. c \in UnisConfigs
      BY <2>1
    <3>. QED  BY <3>1, <3>2, UnisRead
  <2>3. /\ c.outputsSafe \in [1 .. 28 -> OutputByte] /\ c.inputsDelay \in [1 .. 16 -> Tenths]
        /\ c.servoEnabledMask \in Bytes /\ c.servoPosition \in [1 .. 12 -> Bytes]
        /\ c.servoSpeed \in [1 .. 6 -> Bytes] /\ c.servoInputMap \in [1 .. 6 -> Bytes]
    BY <2>1, UnisParts
  <2>4. \A m \in Bytes : m % 64 \in Bytes /\ (m % 64) % 64 = m % 64
    BY DEF Bytes
  <2>5. d \in UnisConfigs
    BY <2>3, <2>4 DEF UnisConfigs
  <2>6. [c EXCEPT !.servoEnabledMask = @ % 64] = d
    BY <2>1, SixBits
  <2>7. [d EXCEPT !.servoEnabledMask = @ % 64] = d
    BY <2>3, <2>4
  <2> HIDE DEF d
  <2>. QED  BY <2>1, <2>2, <2>5, <2>6, <2>7
<1>2. CASE kind = "LED"
  <2>1. Configs = LedConfigs
    BY <1>2 DEF Configs
  <2>2. FromMtbUsb(Serialize(c)) = Led!fromMtbUsb(Led!serializeForMtbUsb(c))
    BY <1>2 DEF FromMtbUsb, Serialize
  <2>. QED  BY <2>1, <2>2, LedRead
<1>3. CASE kind \in {"UNI", "UNI-IR"}
  <2> DEFINE d == FromMtbUsb(Serialize(c))
             ir == isIrSupport
  <2>1. Configs = UniConfigs(ir) /\ \A x : Comparable(x) = [x EXCEPT !.inputsDelay = <<>>]
    BY <1>3 DEF Configs, Comparable
  <2>2. d = Uni!fromMtbUsb(Uni!serializeForMtbUsb(c, ir))
    BY <1>3 DEF FromMtbUsb, Serialize
  <2>3. ir \in BOOLEAN
    BY DEF isIrSupport
  <2> HIDE DEF d, ir
  <2>4. d \in UniConfigs(ir) /\ d.outputsSafe = c.outputsSafe /\ d.irs = c.irs
    BY <2>1, <2>2, <2>3, UniRead
  <2>5. [d EXCEPT !.inputsDelay = <<>>] = [c EXCEPT !.inputsDelay = <<>>]
    <3>1. /\ c \in [outputsSafe : [1 .. 16 -> OutputByte], inputsDelay : [1 .. 16 -> Tenths],
                    irs : Irs(ir)]
          /\ d \in [outputsSafe : [1 .. 16 -> OutputByte], inputsDelay : [1 .. 16 -> Tenths],
                    irs : Irs(ir)]
      BY <2>1, <2>4 DEF UniConfigs
    <3>. QED  BY <2>4, <3>1
  <2>. QED  BY <2>1, <2>4, <2>5 DEF d
<1>. QED  BY <1>1, <1>2, <1>3, ThreeKinds

\* The file gives back the configuration it was written from.
LEMMA LoadedBack ==
    ASSUME kind \in Kinds, NEW c \in Configs
    PROVE  FromJson(ConfigJson(c)) = {c}
<1>1. CASE kind = "UNIS"
  <2>1. c \in UnisConfigs /\ FromJson(ConfigJson(c)) = Unis!fromJson(Unis!configJson(c))
    BY <1>1 DEF Configs, FromJson, ConfigJson
  <2>. QED  BY <2>1, UnisBack
<1>2. CASE kind = "LED"
  <2>1. c \in LedConfigs /\ FromJson(ConfigJson(c)) = Led!fromJson(Led!configJson(c))
    BY <1>2 DEF Configs, FromJson, ConfigJson
  <2>. QED  BY <2>1, LedBack
<1>3. CASE kind \in {"UNI", "UNI-IR"}
  <2>1. /\ c \in UniConfigs(isIrSupport)
        /\ FromJson(ConfigJson(c)) = Uni!fromJson(Uni!configJson(c, isIrSupport))
    BY <1>3 DEF Configs, FromJson, ConfigJson
  <2>2. isIrSupport \in BOOLEAN
    BY DEF isIrSupport
  <2>. QED  BY <2>1, <2>2, UniBack
<1>. QED  BY <1>1, <1>2, <1>3, ThreeKinds

\* What a client asks for is a configuration, or is refused.
LEMMA AskedIsConfig ==
    ASSUME kind \in Kinds, NEW json \in ConfigRequests[kind], NEW c \in FromJson(json)
    PROVE  c \in Configs
<1>1. CASE kind = "UNIS"
  <2>1. json \in Unis!ConfigRequest
    BY <1>1, RequestsAssumption
  <2>2. c \in Unis!fromJson(json) /\ Configs = UnisConfigs
    BY <1>1 DEF FromJson, Configs
  <2>. QED  BY <2>1, <2>2, UnisFromJson
<1>2. CASE kind = "LED"
  <2>1. json \in Led!ConfigRequest
    BY <1>2, RequestsAssumption
  <2>2. c \in Led!fromJson(json) /\ Configs = LedConfigs
    BY <1>2 DEF FromJson, Configs
  <2>. QED  BY <2>1, <2>2, LedFromJson
<1>3. CASE kind \in {"UNI", "UNI-IR"}
  <2>1. json \in Uni!ConfigRequest /\ (kind = "UNI" => json.irs = <<>>)
    BY <1>3, RequestsAssumption
  <2>2. ~isIrSupport => kind = "UNI"
    BY <1>3 DEF isIrSupport
  <2>3. c \in Uni!fromJson(json) /\ Configs = UniConfigs(isIrSupport)
    BY <1>3 DEF FromJson, Configs
  <2>4. isIrSupport \in BOOLEAN
    BY DEF isIrSupport
  <2>. QED  BY <2>1, <2>2, <2>3, <2>4, UniFromJson
<1>. QED  BY <1>1, <1>2, <1>3, ThreeKinds

\* The outputs a module answers with are those it was sent.
LEMMA Echoed ==
    ASSUME kind \in Kinds, NEW o \in Outputs
    PROVE  Echo(o) = o
<1>1. CASE kind = "UNIS"
  BY <1>1, UnisEcho DEF Echo, Outputs
<1>2. CASE kind = "LED"
  BY <1>2, LedEcho DEF Echo, Outputs
<1>3. CASE kind \in {"UNI", "UNI-IR"}
  BY <1>3, UniEcho DEF Echo, Outputs
<1>. QED  BY <1>1, <1>2, <1>3, ThreeKinds

\* Outputs that are set are shown as they were asked for, the others as before.
LEMMA BytesShown ==
    ASSUME NEW n \in Nat, NEW o \in [1 .. n -> OutputByte], NEW request,
           \A p \in DOMAIN request : /\ request[p] \in OutputJson
                                     /\ jsonOutputToByte(request[p]) # JsonError,
           NEW w, w = [p \in 1 .. n |-> IF p \in DOMAIN request THEN jsonOutputToByte(request[p])
                                        ELSE o[p]]
    PROVE  /\ w \in [1 .. n -> OutputByte]
           /\ [p \in 1 .. n |-> outputToJson(w[p])]
                = [p \in 1 .. n |-> IF p \in DOMAIN request THEN request[p]
                                    ELSE outputToJson(o[p])]
<1>1. \A p \in DOMAIN request : /\ jsonOutputToByte(request[p]) \in OutputByte
                                /\ outputToJson(jsonOutputToByte(request[p])) = request[p]
  BY JsonBack
<1>. QED  BY <1>1

\* The same for a request of a client, on the module of any class.
LEMMA RequestShown ==
    ASSUME kind \in Kinds, NEW request \in OutputRequests[kind],
           kind # "LED" => \A p \in DOMAIN request : OutputOf(request[p]) # Uni!JsonError,
           NEW o \in Outputs,
           NEW w, w = [p \in DOMAIN o |-> IF p \in DOMAIN request THEN OutputOf(request[p])
                                          ELSE o[p]],
           NEW s, s = OutputsToJson(o)
    PROVE  /\ w \in Outputs
           /\ OutputsToJson(w) = [p \in DOMAIN s |-> IF p \in DOMAIN request THEN request[p]
                                                     ELSE s[p]]
<1>1. \A p \in DOMAIN request : request[p] \in (IF kind = "LED" THEN BOOLEAN ELSE OutputJson)
  BY RequestsAssumption, UniOperators
<1>2. CASE kind = "LED"
  <2>1. Outputs = [1 .. 32 -> BOOLEAN] /\ \A j : OutputOf(j) = j
    BY <1>2 DEF Outputs, OutputOf
  <2>2. \A x : OutputsToJson(x) = [i \in 1 .. 32 |-> x[i]]
    BY <1>2 DEF OutputsToJson, Led!ioStateToJson, Led!LED_IO_CNT
  <2>3. DOMAIN o = 1 .. 32 /\ s = [i \in 1 .. 32 |-> o[i]]
    BY <2>1, <2>2
  <2>4. w = [p \in 1 .. 32 |-> IF p \in DOMAIN request THEN request[p] ELSE o[p]]
    BY <2>1, <2>3, Zenon
  <2>5. w \in [1 .. 32 -> BOOLEAN]
    <3>1. \A p \in 1 .. 32 : (IF p \in DOMAIN request THEN request[p] ELSE o[p]) \in BOOLEAN
      BY <1>1, <1>2, <2>1, Zenon
    <3>. QED  BY <2>4, <3>1, Zenon
  <2>6. OutputsToJson(w) = [p \in 1 .. 32 |-> IF p \in DOMAIN request THEN request[p] ELSE s[p]]
    <3>1. \A p \in 1 .. 32 : w[p] = IF p \in DOMAIN request THEN request[p] ELSE s[p]
      BY <2>3, <2>4, Zenon
    <3>. QED  BY <2>2, <3>1, Zenon
  <2>7. DOMAIN s = 1 .. 32
    BY <2>3, Zenon
  <2>. QED  BY <2>1, <2>5, <2>6, <2>7, Zenon
<1>3. ASSUME kind # "LED", NEW n \in Nat, Outputs = [1 .. n -> OutputByte]
      PROVE  /\ w \in Outputs
             /\ OutputsToJson(w) = [p \in DOMAIN s |-> IF p \in DOMAIN request THEN request[p]
                                                       ELSE s[p]]
  <2>1. DOMAIN o = 1 .. n
    BY <1>3
  <2>2. \A j : OutputOf(j) = jsonOutputToByte(j)
    BY <1>3, UniOperators, UnisOperators DEF OutputOf, Unis!unisOutputToByte
  <2>3. \A x \in [1 .. n -> OutputByte] :
           OutputsToJson(x) = [i \in 1 .. n |-> outputToJson(x[i])]
    BY <1>3, UniOperators, UnisOperators DEF OutputsToJson, Uni!outputsToJson, Unis!outputsToJson
  <2>4. \A p \in DOMAIN request : /\ request[p] \in OutputJson
                                  /\ jsonOutputToByte(request[p]) # JsonError
    BY <1>1, <1>3, <2>2, UniOperators
  <2>5. w = [p \in 1 .. n |-> IF p \in DOMAIN request THEN jsonOutputToByte(request[p])
                              ELSE o[p]]
    BY <2>1, <2>2, Zenon
  <2>6. s = [p \in 1 .. n |-> outputToJson(o[p])]
    BY <1>3, <2>3
  <2>7. /\ w \in [1 .. n -> OutputByte]
        /\ [p \in 1 .. n |-> outputToJson(w[p])]
             = [p \in 1 .. n |-> IF p \in DOMAIN request THEN request[p]
                                 ELSE outputToJson(o[p])]
    <3>1. o \in [1 .. n -> OutputByte] /\ n \in Nat
      BY <1>3
    <3>. QED  BY <2>4, <2>5, <3>1, BytesShown
  <2>8. [p \in DOMAIN s |-> IF p \in DOMAIN request THEN request[p] ELSE s[p]]
          = [p \in 1 .. n |-> IF p \in DOMAIN request THEN request[p] ELSE outputToJson(o[p])]
    BY <2>6, Zenon
  <2>. QED  BY <1>3, <2>3, <2>7, <2>8, Zenon
<1>4. CASE kind = "UNIS"
  <2>1. kind # "LED" /\ 28 \in Nat /\ Outputs = [1 .. 28 -> OutputByte]
    BY <1>4 DEF Outputs
  <2>. QED  BY <1>3, <2>1, Zenon
<1>5. CASE kind \in {"UNI", "UNI-IR"}
  <2>1. kind # "LED" /\ 16 \in Nat /\ Outputs = [1 .. 16 -> OutputByte]
    BY <1>5 DEF Outputs
  <2>. QED  BY <1>3, <2>1, Zenon
<1>. QED  BY <1>2, <1>4, <1>5, ThreeKinds

-----------------------------------------------------------------------------
(* The invariants of the data *)

OneConfig == config = {} \/ \E c \in Configs : config = {c}

ModuleHolds == written \in Configs /\ stored = Serialize(written)

FileHolds == \/ file = {} /\ saved = {}
             \/ \E c \in Configs : file = {ConfigJson(c)} /\ saved = {c}

OutputsHold ==
    /\ outputsWant \in Outputs
    /\ outputsConfirmed = outputsWant
    /\ shown = OutputsToJson(outputsWant)

DataInv == kind \in Kinds /\ OneConfig /\ ModuleHolds /\ FileHolds /\ OutputsHold

\* Where clients do not load the file at any time: the module has the configuration of the
\* daemon, which is the one a client asked for last.
Agreed ==
    /\ configToWrite # {} => config = configToWrite
    /\ active => \A c \in config : Comparable(c) = Comparable(written)

\* The class of a module does not change.
LEMMA KindKept ==
    ASSUME kind' = kind
    PROVE  /\ Configs' = Configs /\ Outputs' = Outputs
           /\ Serialize(written)' = Serialize(written')
           /\ OutputsToJson(outputsWant)' = OutputsToJson(outputsWant')
           /\ Comparable(written)' = Comparable(written')
           /\ \A c : Comparable(c)' = Comparable(c)
           /\ \A c : ConfigJson(c)' = ConfigJson(c)
<1>1. Configs' = Configs /\ Outputs' = Outputs
  BY Zenon DEF Configs, Outputs, isIrSupport
<1>2. Serialize(written)' = Serialize(written')
  BY Zenon DEF Serialize, isIrSupport
<1>3. OutputsToJson(outputsWant)' = OutputsToJson(outputsWant')
  BY Zenon DEF OutputsToJson
<1>4. Comparable(written)' = Comparable(written')
  BY Zenon DEF Comparable
<1>5. \A c : Comparable(c)' = Comparable(c)
  BY Zenon DEF Comparable
<1>6. \A c : ConfigJson(c)' = ConfigJson(c)
  BY Zenon DEF ConfigJson, isIrSupport
<1>. QED  BY <1>1, <1>2, <1>3, <1>4, <1>5, <1>6

\* What is not touched by a step still holds.
LEMMA DataKept ==
    ASSUME DataInv, kind' = kind
    PROVE  /\ kind' \in Kinds
           /\ config' = config => OneConfig'
           /\ written' = written /\ stored' = stored => ModuleHolds'
           /\ file' = file /\ saved' = saved => FileHolds'
           /\ UNCHANGED outVars => OutputsHold'
<1>1. kind' \in Kinds
  BY DEF DataInv
<1>2. ASSUME config' = config PROVE OneConfig'
  BY <1>2, KindKept DEF DataInv, OneConfig
<1>3. ASSUME written' = written, stored' = stored PROVE ModuleHolds'
  BY <1>3, KindKept DEF DataInv, ModuleHolds
<1>4. ASSUME file' = file, saved' = saved PROVE FileHolds'
  BY <1>4, KindKept DEF DataInv, FileHolds
<1>5. ASSUME UNCHANGED outVars PROVE OutputsHold'
  BY <1>5, KindKept DEF DataInv, OutputsHold, outVars
<1>. QED  BY <1>1, <1>2, <1>3, <1>4, <1>5

\* A step that neither activates the module nor changes a configuration.
LEMMA AgreedKept ==
    ASSUME Agreed, kind' = kind, active' => active, UNCHANGED <<config, configToWrite, written>>
    PROVE  Agreed'
BY KindKept DEF Agreed

\* Initially.
LEMMA DataBegins == Init => DataInv /\ Agreed
<1> SUFFICES ASSUME Init PROVE DataInv /\ Agreed
  OBVIOUS
<1>1. kind \in Kinds /\ DefaultConfig \in Configs /\ DefaultConfig.outputsSafe \in Outputs
  <2>1. kind \in Kinds
    BY DEF Init
  <2>2. DefaultConfig \in Configs
    BY <2>1, DefaultIsConfig
  <2>. QED  BY <2>1, <2>2, SafeIsOutputs
<1>2. /\ config = {} /\ configToWrite = {} /\ file = {} /\ saved = {} /\ active = FALSE
      /\ written = DefaultConfig /\ stored = Serialize(DefaultConfig)
      /\ outputsWant = DefaultConfig.outputsSafe /\ outputsConfirmed = DefaultConfig.outputsSafe
      /\ shown = OutputsToJson(DefaultConfig.outputsSafe)
  BY DEF Init
<1>. QED  BY <1>1, <1>2 DEF DataInv, Agreed, OneConfig, ModuleHolds, FileHolds, OutputsHold

\* A configuration that is set is the one of the daemon; one that is got is comparable.
LEMMA DataActivated ==
    ASSUME DataInv, Activate
    PROVE  DataInv' /\ (Agreed => Agreed')
<1>0. kind' = kind /\ kind \in Kinds
  BY DEF Activate, DataInv
<1>1. /\ ModuleHolds' /\ OneConfig'
      /\ Agreed => \A c \in config' : Comparable(c) = Comparable(written')
  <2>1. CASE config # {}
    <3>1. PICK c \in Configs : config = {c}
      BY <2>1 DEF DataInv, OneConfig
    <3>2. stored' = Serialize(c) /\ written' = c /\ config' = config
      BY <2>1, <3>1 DEF Activate
    <3>3. ModuleHolds'
      BY <1>0, <3>2, KindKept DEF ModuleHolds
    <3>4. OneConfig'
      BY <1>0, <3>2, DataKept
    <3>. QED  BY <3>1, <3>2, <3>3, <3>4
  <2>2. CASE config = {}
    <3>1. /\ config' = {FromMtbUsb(stored)} /\ stored' = stored /\ written' = written
      BY <2>2 DEF Activate
    <3>2. written \in Configs /\ stored = Serialize(written)
      BY DEF DataInv, ModuleHolds
    <3>3. /\ FromMtbUsb(stored) \in Configs
          /\ Comparable(FromMtbUsb(stored)) = Comparable(written)
      BY <1>0, <3>2, ReadBack
    <3>4. OneConfig'
      BY <1>0, <3>1, <3>3, KindKept DEF OneConfig
    <3>5. ModuleHolds'
      BY <1>0, <3>1, DataKept
    <3>6. \A c \in config' : Comparable(c) = Comparable(written')
      BY <3>1, <3>3
    <3>. QED  BY <3>4, <3>5, <3>6
  <2>. QED  BY <2>1, <2>2
<1>2. OutputsHold'
  <2>1. PICK c \in config' : /\ outputsWant' = c.outputsSafe /\ outputsConfirmed' = c.outputsSafe
                             /\ shown' = OutputsToJson(c.outputsSafe)
    BY DEF Activate
  <2>2. c \in Configs
    BY <1>0, <1>1, <2>1, KindKept DEF OneConfig
  <2>3. c.outputsSafe \in Outputs
    BY <1>0, <2>2, SafeIsOutputs
  <2>. QED  BY <1>0, <2>1, <2>3, KindKept DEF OutputsHold
<1>3. FileHolds'
  BY <1>0, DataKept DEF Activate
<1>4. ASSUME Agreed PROVE Agreed'
  <2>1. configToWrite' = configToWrite
    BY DEF Activate
  <2>2. config # {} => config' = config
    BY DEF Activate
  <2>3. configToWrite' # {} => config' = configToWrite'
    BY <1>4, <2>1, <2>2 DEF Agreed
  <2>4. \A c \in config' : Comparable(c)' = Comparable(written)'
    BY <1>0, <1>1, <1>4, KindKept
  <2>. QED  BY <2>3, <2>4 DEF Agreed
<1>. QED  BY <1>0, <1>1, <1>2, <1>3, <1>4 DEF DataInv

\* The module is sent what it does not have, or has it already.
LEMMA DataConfigured ==
    ASSUME DataInv, NEW json \in ConfigRequests[kind], JsonSetConfig(json)
    PROVE  DataInv' /\ (Agreed => Agreed')
<1>0. kind' = kind /\ kind \in Kinds
  BY DEF JsonSetConfig, DataInv
<1>1. PICK c \in FromJson(json) :
        /\ configToWrite' = {c} /\ config' = {c}
        /\ IF active /\ configToWrite # {c}
             THEN stored' = Serialize(c) /\ written' = c
             ELSE UNCHANGED <<stored, written>>
  BY DEF JsonSetConfig
<1>2. c \in Configs
  BY <1>0, AskedIsConfig
<1>3. OneConfig'
  BY <1>0, <1>1, <1>2, KindKept DEF OneConfig
<1>4. FileHolds' /\ OutputsHold'
  BY <1>0, DataKept DEF JsonSetConfig
<1>5. CASE active /\ configToWrite # {c}
  <2>1. stored' = Serialize(c) /\ written' = c
    BY <1>1, <1>5
  <2>2. ModuleHolds'
    BY <1>0, <1>2, <2>1, KindKept DEF ModuleHolds
  <2>3. Agreed'
    <3>1. \A d \in config' : Comparable(d)' = Comparable(written)'
      BY <1>0, <1>1, <2>1, KindKept
    <3>. QED  BY <1>1, <3>1 DEF Agreed
  <2>. QED  BY <1>0, <1>3, <1>4, <2>2, <2>3 DEF DataInv
<1>6. CASE ~(active /\ configToWrite # {c})
  <2>1. stored' = stored /\ written' = written /\ active' = active
    BY <1>1, <1>6 DEF JsonSetConfig
  <2>2. ModuleHolds'
    BY <1>0, <2>1, DataKept
  <2>3. ASSUME Agreed PROVE Agreed'
    <3>1. active => configToWrite = {c} /\ config = {c}
      BY <1>6, <2>3 DEF Agreed
    <3>2. active => \A d \in config' : Comparable(d) = Comparable(written)
      BY <1>1, <2>3, <3>1 DEF Agreed
    <3>3. active' => \A d \in config' : Comparable(d)' = Comparable(written)'
      BY <1>0, <2>1, <3>2, KindKept
    <3>. QED  BY <1>1, <3>3 DEF Agreed
  <2>. QED  BY <1>0, <1>3, <1>4, <2>2, <2>3 DEF DataInv
<1>. QED  BY <1>5, <1>6

\* The file holds the configuration of the daemon.
LEMMA DataSaved ==
    ASSUME DataInv, SaveConfig
    PROVE  DataInv' /\ (Agreed => Agreed')
<1>0. kind' = kind
  BY DEF SaveConfig
<1>1. PICK c \in config : file' = {ConfigJson(c)} /\ saved' = {c}
  BY DEF SaveConfig
<1>2. c \in Configs
  BY <1>1 DEF DataInv, OneConfig
<1>3. FileHolds'
  BY <1>0, <1>1, <1>2, KindKept DEF FileHolds
<1>4. kind' \in Kinds /\ OneConfig' /\ ModuleHolds' /\ OutputsHold'
  BY <1>0, DataKept DEF SaveConfig
<1>5. Agreed => Agreed'
  BY <1>0, AgreedKept DEF SaveConfig
<1>. QED  BY <1>3, <1>4, <1>5 DEF DataInv

\* What is loaded is what was saved.
LEMMA FileGivesSaved ==
    ASSUME DataInv, NEW json \in file
    PROVE  \E c \in Configs : FromJson(json) = {c} /\ saved = {c} /\ file = {json}
<1>1. PICK c \in Configs : file = {ConfigJson(c)} /\ saved = {c}
  BY DEF DataInv, FileHolds
<1>2. FromJson(ConfigJson(c)) = {c}
  BY LoadedBack DEF DataInv
<1>. QED  BY <1>1, <1>2

\* The daemon has the configuration of the file, or none.
LEMMA DataRestarted ==
    ASSUME DataInv, Restart
    PROVE  DataInv' /\ Agreed'
<1>0. kind' = kind
  BY DEF Restart
<1>1. config' = UNION {FromJson(json) : json \in file} /\ configToWrite' = {} /\ active' = FALSE
  BY DEF Restart
<1>2. OneConfig'
  <2>1. CASE file = {}
    BY <1>1, <2>1 DEF OneConfig
  <2>2. CASE file # {}
    <3>1. PICK json \in file : TRUE
      BY <2>2
    <3>2. PICK c \in Configs : FromJson(json) = {c} /\ file = {json}
      BY FileGivesSaved
    <3>3. config' = {c}
      BY <1>1, <3>2
    <3>. QED  BY <1>0, <3>2, <3>3, KindKept DEF OneConfig
  <2>. QED  BY <2>1, <2>2
<1>3. kind' \in Kinds /\ ModuleHolds' /\ FileHolds' /\ OutputsHold'
  BY <1>0, DataKept DEF Restart
<1>4. Agreed'
  BY <1>1 DEF Agreed
<1>. QED  BY <1>2, <1>3, <1>4 DEF DataInv

\* The same, while the daemon runs: here the module may be left behind.
LEMMA DataLoaded ==
    ASSUME DataInv, LoadConfig
    PROVE  DataInv' /\ (~RuntimeLoad => Agreed')
<1>0. kind' = kind
  BY DEF LoadConfig
<1>1. PICK json \in file : config' = FromJson(json)
  BY DEF LoadConfig
<1>2. PICK c \in Configs : FromJson(json) = {c}
  BY FileGivesSaved
<1>3. OneConfig'
  BY <1>0, <1>1, <1>2, KindKept DEF OneConfig
<1>4. kind' \in Kinds /\ ModuleHolds' /\ FileHolds' /\ OutputsHold'
  BY <1>0, DataKept DEF LoadConfig
<1>5. ~RuntimeLoad => Agreed'
  BY DEF LoadConfig, Agreed
<1>. QED  BY <1>3, <1>4, <1>5 DEF DataInv

\* Requested outputs are wanted, confirmed and shown.
LEMMA DataOutputsSet ==
    ASSUME DataInv, NEW request \in OutputRequests[kind], JsonSetOutput(request)
    PROVE  DataInv' /\ (Agreed => Agreed')
<1>0. kind' = kind /\ kind \in Kinds
  BY DEF JsonSetOutput, DataInv
<1>1. outputsWant \in Outputs /\ shown = OutputsToJson(outputsWant)
  BY DEF DataInv, OutputsHold
<1>2. /\ kind # "LED" => \A p \in DOMAIN request : OutputOf(request[p]) # Uni!JsonError
      /\ outputsWant' = [p \in DOMAIN outputsWant |->
                           IF p \in DOMAIN request THEN OutputOf(request[p]) ELSE outputsWant[p]]
      /\ outputsConfirmed' = Echo(outputsWant')
      /\ shown' = [p \in DOMAIN shown |-> IF p \in DOMAIN request THEN request[p] ELSE shown[p]]
  BY DEF JsonSetOutput
<1>3. outputsWant' \in Outputs /\ OutputsToJson(outputsWant') = shown'
  BY <1>0, <1>1, <1>2, RequestShown
<1>4. outputsConfirmed' = outputsWant'
  BY <1>0, <1>2, <1>3, Echoed
<1>5. OutputsHold'
  BY <1>0, <1>3, <1>4, KindKept DEF OutputsHold
<1>6. kind' \in Kinds /\ OneConfig' /\ ModuleHolds' /\ FileHolds'
  BY <1>0, DataKept DEF JsonSetOutput, dataVars
<1>7. Agreed => Agreed'
  BY <1>0, AgreedKept DEF JsonSetOutput, dataVars
<1>. QED  BY <1>5, <1>6, <1>7 DEF DataInv

\* Steps of the upgrade, and the module leaving the bus.
LEMMA DataUntouched ==
    ASSUME DataInv, kind' = kind, active' => active, UNCHANGED <<dataVars, outVars>>
    PROVE  DataInv' /\ (Agreed => Agreed')
<1>1. kind' \in Kinds /\ OneConfig' /\ ModuleHolds' /\ FileHolds' /\ OutputsHold'
  BY DataKept DEF dataVars
<1>2. Agreed => Agreed'
  BY AgreedKept DEF dataVars
<1>. QED  BY <1>1, <1>2 DEF DataInv

\* Every step.
LEMMA DataNext == DataInv /\ [Next]_vars => DataInv' /\ (Agreed /\ ~RuntimeLoad => Agreed')
<1> SUFFICES ASSUME DataInv, [Next]_vars
             PROVE  DataInv' /\ (Agreed /\ ~RuntimeLoad => Agreed')
  OBVIOUS
<1>1. CASE Activate
  BY <1>1, DataActivated
<1>2. CASE Leave
  BY <1>2, DataUntouched DEF Leave
<1>3. CASE SaveConfig
  BY <1>3, DataSaved
<1>4. CASE Restart
  BY <1>4, DataRestarted
<1>5. CASE LoadConfig
  BY <1>5, DataLoaded
<1>6. CASE \E json \in ConfigRequests[kind] : JsonSetConfig(json)
  BY <1>6, DataConfigured
<1>7. CASE \E request \in OutputRequests[kind] : JsonSetOutput(request)
  BY <1>7, DataOutputsSet
<1>8. CASE \E json \in Firmwares : JsonUpgradeFw(json)
  BY <1>8, DataUntouched DEF JsonUpgradeFw
<1>9. CASE FwUpgdGotStatus
  BY <1>9, DataUntouched DEF FwUpgdGotStatus
<1>10. CASE FwUpgdAllWritten
  BY <1>10, DataUntouched DEF FwUpgdAllWritten
<1>11. CASE UNCHANGED vars
  BY <1>11, DataUntouched DEF vars
<1>. QED  BY <1>1, <1>2, <1>3, <1>4, <1>5, <1>6, <1>7, <1>8, <1>9, <1>10, <1>11 DEF Next

-----------------------------------------------------------------------------

\* The configuration file is loadable: from any configuration the daemon can hold, jsonConfig
\* XX writes what jsonConfigFrom reads back
\* as that configuration, field by field.
THEOREM FileIsLoadable == Spec => []FileLoadsBack
<1>1. DataInv => FileLoadsBack
  BY FileGivesSaved DEF FileLoadsBack
<1>. QED  BY <1>1, DataBegins, DataNext, PTL DEF Spec

\* Outputs are as asked: bytes of JSON requests (jsonOutputToByte), the mask and the full bytes
\* on MTBbus (mtbBusOutputsData, moduleOutputsData) and the JSON clients are shown
\* (outputToJson) agree for every request, so that the answer of the module confirms it.
THEOREM OutputsAreShown == Spec => []OutputsAsAsked
<1>1. DataInv => OutputsAsAsked
  BY DEF DataInv, OutputsHold, OutputsAsAsked
<1>. QED  BY <1>1, DataBegins, DataNext, PTL DEF Spec

\* Where clients do not load the file at any time, the module has the configuration of the
\* daemon: the one last sent, through writing, reading back, saving, loading and restarts.  The
\* assumption is what the run ConfigReload shows to be needed.
THEOREM ModuleKeepsConfig ==
    ASSUME ~RuntimeLoad
    PROVE  Spec => []ModuleHasConfig
<1>1. DataInv /\ Agreed => ModuleHasConfig
  <2> SUFFICES ASSUME DataInv, Agreed, active, NEW c \in config
               PROVE  /\ Comparable(c) = Comparable(written)
                      /\ Comparable(FromMtbUsb(stored)) = Comparable(c)
    BY DEF ModuleHasConfig
  <2>1. Comparable(c) = Comparable(written)
    BY DEF Agreed
  <2>2. kind \in Kinds /\ written \in Configs /\ stored = Serialize(written)
    BY DEF DataInv, ModuleHolds
  <2>3. Comparable(FromMtbUsb(stored)) = Comparable(written)
    BY <2>2, ReadBack
  <2>. QED  BY <2>1, <2>3
<1>2. DataInv /\ Agreed /\ [Next]_vars => DataInv' /\ Agreed'
  BY DataNext
<1>. QED  BY <1>1, <1>2, DataBegins, PTL DEF Spec
=============================================================================
