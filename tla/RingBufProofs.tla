--------------------------- MODULE RingBufProofs ----------------------------
(***************************************************************************)
(* Proofs about RingBuf, for every buffer size and every length of a call. *)
(***************************************************************************)
EXTENDS RingBuf, SequenceTheorems, TLAPS

\* The lengths of the copies of a put: within the data, within the buffer,
\* and never past rd_pos.
LEMMA PutLengths ==
    ASSUME PosOK, NEW n \in Nat
    PROVE  /\ PutLen1(n) \in Nat /\ PutLen2(n) \in Nat /\ PutLen(n) \in Nat
           /\ PutLen(n) = PutLen1(n) + PutLen2(n) /\ PutLen(n) <= n
           /\ dataPos + PutLen1(n) <= Size
           /\ PutLen2(n) > 0 => PutLen2(n) < rdPos /\ dataPos + PutLen1(n) = Size
           /\ dataPos + PutLen(n) < Size + Size
<1> USE RingBufAssumption DEF PosOK
<1>1. CASE rdPos > dataPos
  <2>1. PutLen2(n) = 0
    BY <1>1 DEF PutLen2
  <2>2. PutLen1(n) \in Nat /\ PutLen1(n) <= n /\ PutLen1(n) <= rdPos - dataPos
    BY <1>1 DEF PutLen1
  <2> QED BY <1>1, <2>1, <2>2 DEF PutLen
<1>2. CASE ~(rdPos > dataPos)
  <2>1. PutLen1(n) = Least(Least(n, Size + rdPos - dataPos - 1), Size - dataPos)
    BY <1>2 DEF PutLen1
  <2>2. /\ PutLen1(n) \in Nat /\ PutLen1(n) <= n /\ PutLen1(n) <= Size - dataPos
        /\ \/ PutLen1(n) = n
           \/ PutLen1(n) = Size - dataPos
           \/ PutLen1(n) = Size + rdPos - dataPos - 1 /\ rdPos = 0
    BY <1>2, <2>1 DEF Least
  <2>3. CASE rdPos = 0
    <3>1. PutLen2(n) = 0
      BY <2>3 DEF PutLen2
    <3> QED BY <1>2, <2>2, <3>1 DEF PutLen
  <2>4. CASE rdPos # 0
    <3>1. PutLen2(n) = Least(n - PutLen1(n), rdPos - 1)
      BY <1>2, <2>4 DEF PutLen2
    <3>2. /\ PutLen2(n) \in Nat /\ PutLen2(n) <= n - PutLen1(n)
          /\ PutLen2(n) <= rdPos - 1
      BY <2>2, <2>4, <3>1 DEF Least
    <3> QED BY <1>2, <2>2, <2>4, <3>2 DEF PutLen
  <2> QED BY <2>3, <2>4
<1> QED BY <1>1, <1>2

\* The lengths of the copies of a get: within the stored bytes.
LEMMA GetLengths ==
    ASSUME PosOK, NEW n \in Nat
    PROVE  /\ GetLen1(n) \in Nat /\ GetLen2(n) \in Nat /\ GetLen(n) \in Nat
           /\ GetLen(n) <= n /\ rdPos + GetLen1(n) <= Size
           /\ GetLen(n) <= Used
<1> USE RingBufAssumption DEF PosOK
<1>1. /\ GetLen1(n) \in Nat /\ GetLen1(n) <= n
      /\ GetLen1(n) <= (IF rdPos <= dataPos THEN dataPos ELSE Size) - rdPos
  BY DEF GetLen1, Least
<1>2. /\ GetLen2(n) \in Nat /\ GetLen2(n) <= n - GetLen1(n)
      /\ GetLen2(n) <= IF rdPos <= dataPos THEN 0 ELSE dataPos
  BY <1>1 DEF GetLen2, Least
<1> QED BY <1>1, <1>2 DEF GetLen, Used

\* A datum is a sequence of at most MaxLen bytes.
LEMMA DataLength == ASSUME NEW s \in Data PROVE Len(s) \in Nat /\ Len(s) <= MaxLen
<1>1. PICK n \in 0 .. MaxLen : s \in [1 .. n -> Byte]
  BY DEF Data
<1>2. n \in Nat /\ n <= MaxLen
  BY RingBufAssumption, <1>1
<1>3. s \in Seq(Byte) /\ Len(s) = n
  BY <1>1, <1>2
<1> QED BY <1>2, <1>3

-----------------------------------------------------------------------------
\* Whatever is put and got, of any length and in any order, the two positions
\* stay inside the buffer.
THEOREM PositionsInRange == Spec => []PosOK
<1>1. Init => PosOK
  BY RingBufAssumption DEF Init, PosOK
<1>2. PosOK /\ [Next]_vars => PosOK'
  <2> SUFFICES ASSUME PosOK, [Next]_vars
               PROVE  PosOK'
    OBVIOUS
  <2>1. ASSUME NEW s \in Data, Put(s)
        PROVE  PosOK'
    <3>1. Len(s) \in Nat
      BY DataLength
    <3>2. /\ PutLen(Len(s)) \in Nat
          /\ dataPos + PutLen(Len(s)) < Size + Size
      BY <3>1, PutLengths
    <3> QED BY <2>1, <3>2, RingBufAssumption DEF Put, PosOK, Wrap
  <2>2. ASSUME NEW n \in 0 .. MaxLen, Get(n)
        PROVE  PosOK'
    <3>1. n \in Nat
      BY RingBufAssumption
    <3>2. /\ GetLen(n) \in Nat
          /\ rdPos + GetLen(n) < Size + Size
      BY <3>1, GetLengths, RingBufAssumption DEF PosOK, Used
    <3> QED BY <2>2, <3>2, RingBufAssumption DEF Get, PosOK, Wrap
  <2>3. CASE UNCHANGED vars
    BY <2>3 DEF vars, PosOK
  <2> QED BY <2>1, <2>2, <2>3 DEF Next
<1> QED BY <1>1, <1>2, PTL DEF Spec

\* No memcpy of a put or a get leaves the buffer or the caller's data.
THEOREM NoCopyOutOfBounds == Spec => []CopiesInBounds
<1>1. PosOK => CopiesInBounds
  <2> SUFFICES ASSUME PosOK, NEW n \in 0 .. MaxLen
               PROVE  /\ dataPos + PutLen1(n) <= Size /\ PutLen(n) <= n
                      /\ PutLen2(n) > 0 => PutLen2(n) < rdPos /\ dataPos + PutLen1(n) = Size
                      /\ rdPos + GetLen1(n) <= Size /\ GetLen(n) <= n
    BY DEF CopiesInBounds
  <2>1. n \in Nat
    BY RingBufAssumption
  <2> QED BY <2>1, PutLengths, GetLengths
<1> QED BY <1>1, PositionsInRange, PTL

\* A put that fits is stored whole, at every fill level and every position.
THEOREM FittingPutStored == Spec => FittingPutExact
<1>1. PosOK /\ [Next]_vars =>
        [<<buf, dataPos>>' # <<buf, dataPos>> =>
           \A s \in Data : Put(s) /\ Len(s) <= Size - 1 - Used => Used' = Used + Len(s)]_vars
  <2> SUFFICES ASSUME PosOK, NEW s \in Data, Put(s), Len(s) <= Size - 1 - Used
               PROVE  Used' = Used + Len(s)
    OBVIOUS
  <2>1. Len(s) \in Nat
    BY DataLength
  <2>2. PutLen(Len(s)) = Len(s)
    <3>1. CASE rdPos > dataPos
      BY <2>1, <3>1, RingBufAssumption DEF PutLen, PutLen1, PutLen2, Used, PosOK
    <3>2. CASE rdPos <= dataPos
      <4>1. Len(s) <= Size + rdPos - dataPos - 1 /\ ~(rdPos > dataPos)
        BY <2>1, <3>2, RingBufAssumption DEF Used, PosOK
      <4>2. PutLen1(Len(s)) = Least(Len(s), Size - dataPos)
        BY <2>1, <4>1, RingBufAssumption DEF PutLen1, Least, PosOK
      <4>3. CASE Len(s) <= Size - dataPos
        <5>1. PutLen1(Len(s)) = Len(s)
          BY <4>2, <4>3 DEF Least
        <5>2. PutLen2(Len(s)) = 0
          BY <2>1, <5>1, RingBufAssumption DEF PutLen2, Least, PosOK
        <5> QED BY <2>1, <5>1, <5>2 DEF PutLen
      <4>4. CASE ~(Len(s) <= Size - dataPos)
        <5>1. PutLen1(Len(s)) = Size - dataPos /\ rdPos # 0
          BY <2>1, <4>1, <4>2, <4>4, RingBufAssumption DEF Least, PosOK
        <5>2. PutLen2(Len(s)) = Len(s) - (Size - dataPos)
          BY <2>1, <4>1, <5>1, RingBufAssumption DEF PutLen2, Least, PosOK
        <5> QED BY <2>1, <5>1, <5>2, RingBufAssumption DEF PutLen, PosOK
      <4> QED BY <4>3, <4>4
    <3> QED BY <3>1, <3>2, RingBufAssumption DEF PosOK
  <2>3. dataPos' = Wrap(dataPos + Len(s)) /\ rdPos' = rdPos
    BY <2>2 DEF Put
  <2> QED BY <2>1, <2>3, RingBufAssumption DEF Used, PosOK, Wrap
<1> QED BY <1>1, PositionsInRange, PTL DEF Spec, FittingPutExact
-----------------------------------------------------------------------------
(* The queue of bytes                                                      *)

BufOK == PosOK /\ buf \in [0 .. Size - 1 -> Byte]

\* The bytes between the positions are a sequence.
LEMMA ContentsType ==
    ASSUME BufOK
    PROVE  /\ Used \in Nat /\ Used <= Size - 1
           /\ Contents \in Seq(Byte) /\ Len(Contents) = Used
           /\ \A i \in 1 .. Used : Contents[i] = buf[Wrap(rdPos + i - 1)]
<1>1. Used \in Nat /\ Used <= Size - 1
  BY RingBufAssumption DEF BufOK, PosOK, Used
<1>2. \A i \in 1 .. Used : Wrap(rdPos + i - 1) \in 0 .. Size - 1
  BY <1>1, RingBufAssumption DEF BufOK, PosOK, Wrap
<1>3. Contents \in [1 .. Used -> Byte]
  BY <1>2 DEF BufOK, Contents
<1>4. Contents \in Seq(Byte) /\ Len(Contents) = Used
  BY <1>1, <1>3
<1> QED BY <1>1, <1>4 DEF Contents

LEMMA ContentsNext == BufOK' => (Contents \in Seq(Byte) /\ Len(Contents) = Used)'
<1>1. BufOK => Contents \in Seq(Byte) /\ Len(Contents) = Used
  BY ContentsType
<1> QED BY <1>1, PTL

\* Every step keeps the buffer a buffer of bytes.
LEMMA BufStep ==
    ASSUME BufOK, PosOK', [Next]_vars
    PROVE  BufOK'
<1>1. ASSUME NEW s \in Data, Put(s)
      PROVE  buf' \in [0 .. Size - 1 -> Byte]
  <2>1. PICK n \in 0 .. MaxLen : s \in [1 .. n -> Byte]
    BY DEF Data
  <2>2. n \in Nat /\ Len(s) = n
    BY <2>1, RingBufAssumption
  <2> DEFINE n1 == PutLen1(n)
             n2 == PutLen2(n)
  <2>3. n1 \in Nat /\ n2 \in Nat /\ n1 + n2 <= n
    BY <2>2, PutLengths DEF BufOK
  <2>4. ASSUME NEW i \in 0 .. Size - 1
        PROVE  (IF i < n2 THEN s[n1 + i + 1]
                ELSE IF dataPos <= i /\ i < dataPos + n1 THEN s[i - dataPos + 1]
                ELSE buf[i]) \in Byte
    <3>1. i \in Nat /\ dataPos \in Nat /\ buf[i] \in Byte
      BY RingBufAssumption DEF BufOK, PosOK
    <3>2. i < n2 => n1 + i + 1 \in 1 .. n
      BY <2>2, <2>3, <3>1
    <3>3. dataPos <= i /\ i < dataPos + n1 => i - dataPos + 1 \in 1 .. n
      BY <2>2, <2>3, <3>1
    <3> QED BY <2>1, <3>1, <3>2, <3>3
  <2>5. buf' = [i \in 0 .. Size - 1 |->
                  IF i < n2 THEN s[n1 + i + 1]
                  ELSE IF dataPos <= i /\ i < dataPos + n1 THEN s[i - dataPos + 1]
                  ELSE buf[i]]
    BY <1>1, <2>2 DEF Put
  <2> HIDE DEF n1, n2
  <2> QED BY <2>4, <2>5
<1>2. ASSUME NEW n \in 0 .. MaxLen, Get(n)
      PROVE  UNCHANGED buf
  BY <1>2 DEF Get
<1> QED BY <1>1, <1>2 DEF BufOK, Next, vars

\* What a put stores: all of the data, as much as there is room for, or, when
\* the stored bytes wrap around, too much.
LEMMA PutTotal ==
    ASSUME BufOK, NEW n \in Nat
    PROVE  \/ PutLen(n) = Least(n, Size - 1 - Used)
           \/ rdPos > dataPos /\ n > Size - 1 - Used /\ PutLen(n) = rdPos - dataPos
<1> USE RingBufAssumption DEF BufOK, PosOK
<1>1. CASE rdPos > dataPos
  BY <1>1 DEF PutLen, PutLen1, PutLen2, Used, Least
<1>2. CASE rdPos <= dataPos
  <2>1. PutLen1(n) = Least(Least(n, Size + rdPos - dataPos - 1), Size - dataPos)
    BY <1>2 DEF PutLen1
  <2>2. Size - 1 - Used = Size + rdPos - dataPos - 1
    BY <1>2 DEF Used
  <2>3. CASE rdPos = 0
    <3>1. PutLen2(n) = 0
      BY <2>3 DEF PutLen2
    <3>2. PutLen1(n) = Least(n, Size + rdPos - dataPos - 1)
      BY <2>1, <2>3 DEF Least
    <3> QED BY <2>2, <3>1, <3>2 DEF PutLen, Least
  <2>4. CASE rdPos # 0
    <3>1. PutLen2(n) = Least(n - PutLen1(n), rdPos - 1)
      BY <1>2, <2>4 DEF PutLen2
    <3>2. PutLen1(n) = Least(n, Size - dataPos)
      BY <1>2, <2>1, <2>4 DEF Least
    <3>3. CASE n <= Size - dataPos
      <4>1. PutLen1(n) = n /\ PutLen2(n) = 0
        BY <2>4, <3>1, <3>2, <3>3 DEF Least
      <4>2. n <= Size - 1 - Used
        BY <1>2, <2>2, <2>4, <3>3
      <4> QED BY <4>1, <4>2 DEF PutLen, Least
    <3>4. CASE n > Size - dataPos
      <4>1. PutLen1(n) = Size - dataPos
        BY <3>2, <3>4 DEF Least
      <4>2. PutLen2(n) = Least(n - (Size - dataPos), rdPos - 1)
        BY <3>1, <4>1
      <4> QED BY <1>2, <2>2, <2>4, <4>1, <4>2 DEF PutLen, Least
    <3> QED BY <3>3, <3>4
  <2> QED BY <2>3, <2>4
<1> QED BY <1>1, <1>2

\* A put that leaves room for the empty byte adds to the end.
LEMMA PutAppends ==
    ASSUME BufOK, NEW s \in Data, Put(s), NEW k \in Nat, k = PutLen(Len(s)),
           Used + k <= Size - 1
    PROVE  /\ Used' = Used + k
           /\ \A i \in 1 .. Used : Contents'[i] = Contents[i]
           /\ \A j \in 1 .. k : Contents'[Used + j] = s[j]
<1> DEFINE n1 == PutLen1(Len(s))
           n2 == PutLen2(Len(s))
<1>0. /\ Size \in Nat \ {0} /\ dataPos \in Nat /\ rdPos \in Nat
      /\ dataPos < Size /\ rdPos < Size
  BY RingBufAssumption DEF BufOK, PosOK
<1>1. /\ n1 \in Nat /\ n2 \in Nat /\ k = n1 + n2 /\ dataPos + n1 <= Size
      /\ n2 > 0 => n2 < rdPos /\ dataPos + n1 = Size
  BY DataLength, PutLengths DEF BufOK
<1>2. n2 > 0 => rdPos <= dataPos
  BY <1>0 DEF PutLen2
<1>3. dataPos' = Wrap(dataPos + k) /\ rdPos' = rdPos
  BY DEF Put
<1>4. Used' = Used + k
  <2> HIDE DEF n1, n2
  <2>1. CASE rdPos > dataPos
    BY <1>0, <1>3, <2>1 DEF Used, Wrap
  <2>2. CASE rdPos <= dataPos
    BY <1>0, <1>3, <2>2 DEF Used, Wrap
  <2> QED BY <1>0, <2>1, <2>2
<1>5. \A p \in 0 .. Size - 1 :
         buf'[p] = IF p < n2 THEN s[n1 + p + 1]
                   ELSE IF dataPos <= p /\ p < dataPos + n1 THEN s[p - dataPos + 1]
                   ELSE buf[p]
  BY DEF Put
<1>6. Used \in Nat /\ \A i \in 1 .. Used : Contents[i] = buf[Wrap(rdPos + i - 1)]
  BY ContentsType
<1>7. \A i \in 1 .. Used + k : Contents'[i] = buf'[Wrap(rdPos + i - 1)]
  BY <1>3, <1>4 DEF Contents, Wrap
<1> HIDE DEF n1, n2
<1>8. ASSUME NEW i \in 1 .. Used
      PROVE  Contents'[i] = Contents[i]
  <2>0. i \in Nat /\ i >= 1 /\ i <= Used
    BY <1>6
  <2>1. PICK p \in Nat : p = Wrap(rdPos + i - 1)
    <3>1. Wrap(rdPos + i - 1) \in Nat
      BY <1>0, <2>0 DEF Wrap
    <3> QED BY <3>1
  <2>2. p \in 0 .. Size - 1 /\ ~(p < n2) /\ ~(dataPos <= p /\ p < dataPos + n1)
    BY <1>0, <1>1, <1>2, <2>0, <2>1 DEF Used, Wrap
  <2>3. buf'[p] = buf[p]
    BY <1>5, <2>2
  <2>4. i \in 1 .. Used + k
    BY <1>6
  <2> QED BY <1>6, <1>7, <2>1, <2>3, <2>4
<1>9. ASSUME NEW j \in 1 .. k
      PROVE  Contents'[Used + j] = s[j]
  <2>0. j \in Nat /\ j >= 1 /\ j <= k
    OBVIOUS
  <2>1. PICK p \in Nat : p = Wrap(rdPos + (Used + j) - 1)
    <3>1. Wrap(rdPos + (Used + j) - 1) \in Nat
      BY <1>0, <1>6, <2>0 DEF Wrap
    <3> QED BY <3>1
  <2>2. Used + j \in 1 .. Used + k
    BY <1>6
  <2>3. buf'[p] = s[j]
    <3>1. CASE j <= n1
      <4>1. p \in 0 .. Size - 1 /\ ~(p < n2) /\ p = dataPos + j - 1
        BY <1>0, <1>1, <1>2, <2>0, <2>1, <3>1 DEF Used, Wrap
      <4>2. dataPos <= p /\ p < dataPos + n1 /\ p - dataPos + 1 = j
        BY <1>0, <1>1, <3>1, <4>1
      <4> QED BY <1>5, <4>1, <4>2
    <3>2. CASE j > n1
      <4>1. p \in 0 .. Size - 1 /\ p < n2 /\ n1 + p + 1 = j
        BY <1>0, <1>1, <1>2, <2>0, <2>1, <3>2 DEF Used, Wrap
      <4> QED BY <1>5, <4>1
    <3> QED BY <1>1, <3>1, <3>2
  <2> QED BY <1>7, <2>1, <2>2, <2>3
<1> QED BY <1>4, <1>8, <1>9

\* A get takes from the front as much as there is.
LEMMA GetTakes ==
    ASSUME BufOK, NEW n \in Nat, Get(n)
    PROVE  /\ GetLen(n) = Least(n, Used)
           /\ Used' = Used - GetLen(n)
           /\ got' \in [1 .. GetLen(n) -> Byte]
           /\ \A i \in 1 .. GetLen(n) : got'[i] = Contents[i]
           /\ \A i \in 1 .. Used - GetLen(n) : Contents'[i] = Contents[GetLen(n) + i]
<1> DEFINE k == GetLen(n)
<1>0. /\ Size \in Nat \ {0} /\ dataPos \in Nat /\ rdPos \in Nat
      /\ dataPos < Size /\ rdPos < Size
  BY RingBufAssumption DEF BufOK, PosOK
<1>1. k = Least(n, Used) /\ k \in Nat /\ k <= Used
  BY <1>0, GetLengths DEF BufOK, GetLen, GetLen1, GetLen2, Used, Least
<1>2. rdPos' = Wrap(rdPos + k) /\ dataPos' = dataPos /\ buf' = buf
  BY DEF Get
<1>3. /\ Used \in Nat /\ Contents \in Seq(Byte) /\ Len(Contents) = Used
      /\ \A i \in 1 .. Used : Contents[i] = buf[Wrap(rdPos + i - 1)]
  BY ContentsType
<1>4. Used' = Used - k
  BY <1>0, <1>1, <1>2 DEF Used, Wrap
<1>5. ASSUME NEW i \in 1 .. k
      PROVE  got'[i] = Contents[i]
  <2>1. got'[i] = IF i <= GetLen1(n) THEN buf[rdPos + i - 1] ELSE buf[i - GetLen1(n) - 1]
    BY DEF Get
  <2>2. GetLen1(n) \in Nat /\ i \in 1 .. Used
    BY SMTT(30), <1>1, <1>3, GetLengths DEF BufOK
  <2>3. Wrap(rdPos + i - 1) = IF i <= GetLen1(n) THEN rdPos + i - 1 ELSE i - GetLen1(n) - 1
    BY <1>0, <1>1, <2>2 DEF GetLen, GetLen1, GetLen2, Least, Used, Wrap
  <2> QED BY <1>3, <2>1, <2>2, <2>3
<1>6. ASSUME NEW i \in 1 .. Used - k
      PROVE  Contents'[i] = Contents[k + i]
  <2>1. Contents'[i] = buf[Wrap(Wrap(rdPos + k) + i - 1)]
    BY <1>2, <1>4 DEF Contents, Wrap
  <2>2. k + i \in 1 .. Used
    BY <1>1, <1>3
  <2>3. Wrap(Wrap(rdPos + k) + i - 1) = Wrap(rdPos + (k + i) - 1)
    <3>1. k + i <= Used /\ i \in Nat /\ i >= 1 /\ k \in Nat
      BY <1>1, <1>3
    <3> HIDE DEF k
    <3> QED BY <1>0, <3>1 DEF Wrap, Used
  <2> QED BY <1>3, <2>1, <2>2, <2>3
<1>7. got' \in [1 .. k -> Byte]
  <2>1. DOMAIN got' = 1 .. k /\ got' = [i \in 1 .. k |-> got'[i]]
    BY DEF Get
  <2>2. \A i \in 1 .. k : i \in 1 .. Used
    BY <1>1, <1>3
  <2>3. \A i \in 1 .. k : got'[i] \in Byte
    BY <1>3, <1>5, <2>2
  <2> QED BY <2>1, <2>3
<1> QED BY <1>1, <1>4, <1>5, <1>6, <1>7

\* The data of the two modules are the same.
LEMMA FifoData == Fifo!Data = Data /\ Fifo!Room = Size - 1 - Len(Contents)
BY DEF Fifo!Data, Data, Fifo!Room

\* A put of the ring buffer is a put of the queue, or empties it.
LEMMA PutImplements ==
    ASSUME BufOK, BufOK', NEW s \in Data, Put(s)
    PROVE  Fifo!Put(s) \/ Fifo!Overrun(s)
<1> DEFINE n == Len(s)
           room == Size - 1 - Used
<1>0. /\ Size \in Nat \ {0} /\ dataPos \in Nat /\ rdPos \in Nat
      /\ dataPos < Size /\ rdPos < Size
  BY RingBufAssumption DEF BufOK, PosOK
<1>1. n \in Nat /\ s \in Seq(Byte)
  <2>1. PICK m \in 0 .. MaxLen : s \in [1 .. m -> Byte]
    BY DEF Data
  <2> QED BY <2>1, RingBufAssumption
<1>2. /\ Used \in Nat /\ Used <= Size - 1
      /\ Contents \in Seq(Byte) /\ Len(Contents) = Used
  BY ContentsType
<1>3. Contents' \in Seq(Byte) /\ Len(Contents') = Used'
  BY ContentsNext
<1>4. UNCHANGED got /\ dataPos' = Wrap(dataPos + PutLen(n)) /\ rdPos' = rdPos
  BY DEF Put
<1>5. CASE PutLen(n) = Least(n, room)
  <2>1. PICK k \in Nat : k = PutLen(n) /\ k <= n /\ k <= room
                         /\ k = IF n <= room THEN n ELSE room
    BY <1>0, <1>1, <1>2, <1>5 DEF Least
  <2> DEFINE t == IF n <= room THEN s ELSE SubSeq(s, 1, room)
  <2>2. t \in Seq(Byte) /\ Len(t) = k /\ \A j \in 1 .. k : t[j] = s[j]
    BY <1>0, <1>1, <1>2, <2>1
  <2>3. /\ Used' = Used + k
        /\ \A i \in 1 .. Used : Contents'[i] = Contents[i]
        /\ \A j \in 1 .. k : Contents'[Used + j] = s[j]
    <3>1. k = PutLen(Len(s)) /\ Used + k <= Size - 1
      BY <1>0, <1>2, <2>1
    <3> QED BY <3>1, PutAppends
  <2> HIDE DEF t
  <2>4. /\ Contents \o t \in Seq(Byte) /\ Len(Contents \o t) = Used + k
        /\ \A i \in 1 .. Used + k :
              (Contents \o t)[i] = IF i <= Used THEN Contents[i] ELSE t[i - Used]
    BY <1>2, <2>2, ConcatProperties
  <2>5. ASSUME NEW i \in 1 .. Used + k
        PROVE  Contents'[i] = (Contents \o t)[i]
    <3>1. CASE i <= Used
      BY <1>2, <2>3, <2>4, <3>1
    <3>2. CASE ~(i <= Used)
      <4>1. i - Used \in 1 .. k /\ Used + (i - Used) = i /\ ~(i <= Used)
        BY <1>2, <3>2
      <4> QED BY <2>2, <2>3, <2>4, <4>1
    <3> QED BY <3>1, <3>2
  <2>6. Contents' = Contents \o t
    BY <1>3, <2>3, <2>4, <2>5, SeqEqual
  <2> QED BY <1>2, <1>4, <2>6, FifoData DEF Fifo!Put, t
<1>6. CASE rdPos > dataPos /\ n > room /\ PutLen(n) = rdPos - dataPos
  <2>1. dataPos' = rdPos
    BY <1>0, <1>4, <1>6 DEF Wrap
  <2>2. Used' = 0
    BY <1>0, <1>4, <2>1 DEF Used
  <2>3. Contents' = <<>>
    BY <1>3, <2>2
  <2> QED BY <1>2, <1>4, <1>6, <2>3, FifoData DEF Fifo!Overrun
<1> QED BY <1>1, <1>5, <1>6, PutTotal

\* A get of the ring buffer is a get of the queue.
LEMMA GetImplements ==
    ASSUME BufOK, BufOK', NEW n \in 0 .. MaxLen, Get(n)
    PROVE  Fifo!Get(n)
<1>1. n \in Nat
  BY RingBufAssumption
<1>2. /\ Used \in Nat /\ Contents \in Seq(Byte) /\ Len(Contents) = Used
  BY ContentsType
<1>3. PICK k \in Nat : k = GetLen(n) /\ k <= Used /\ k = IF n <= Used THEN n ELSE Used
  BY <1>1, <1>2, GetTakes DEF Least
<1>4. /\ Used' = Used - k /\ got' \in [1 .. k -> Byte]
      /\ \A i \in 1 .. k : got'[i] = Contents[i]
      /\ \A i \in 1 .. Used - k : Contents'[i] = Contents[k + i]
  BY <1>1, <1>3, GetTakes
<1>5. Contents' \in Seq(Byte) /\ Len(Contents') = Used'
  BY ContentsNext
<1>6. got' = SubSeq(Contents, 1, k)
  <2>1. /\ SubSeq(Contents, 1, k) \in Seq(Byte) /\ Len(SubSeq(Contents, 1, k)) = k
        /\ \A i \in 1 .. k : SubSeq(Contents, 1, k)[i] = Contents[i]
    BY <1>2, <1>3
  <2>2. got' \in Seq(Byte) /\ Len(got') = k
    BY <1>4
  <2> QED BY <1>4, <2>1, <2>2, SeqEqual
<1>7. Contents' = SubSeq(Contents, k + 1, Used)
  <2>1. /\ SubSeq(Contents, k + 1, Used) \in Seq(Byte)
        /\ Len(SubSeq(Contents, k + 1, Used)) = Used - k
        /\ \A i \in 1 .. Used - k : SubSeq(Contents, k + 1, Used)[i] = Contents[k + i]
    BY <1>2, <1>3
  <2> QED BY <1>4, <1>5, <2>1, SeqEqual
<1> QED BY <1>2, <1>3, <1>6, <1>7 DEF Fifo!Get

\* The ring buffer, with its positions and two-part copies, is a queue of bytes.
THEOREM RingBufImplementsFifo == Spec => ImplementsFifo
<1>1. Init => BufOK
  BY RingBufAssumption DEF Init, BufOK, PosOK
<1>2. BufOK /\ PosOK' /\ [Next]_vars => BufOK'
  BY BufStep
<1>3. Init => Fifo!Init
  <2> SUFFICES ASSUME Init
               PROVE  Contents = <<>> /\ got = <<>>
    BY DEF Fifo!Init
  <2>1. Used = 0 /\ got = <<>>
    BY DEF Init, Used
  <2>2. Contents \in Seq(Byte) /\ Len(Contents) = 0
    BY <1>1, <2>1, ContentsType
  <2> QED BY <2>1, <2>2
<1>4. BufOK /\ BufOK' /\ [Next]_vars => [Fifo!Next]_<<Contents, got>>
  <2> SUFFICES ASSUME BufOK, BufOK', [Next]_vars
               PROVE  [Fifo!Next]_<<Contents, got>>
    OBVIOUS
  <2>1. ASSUME NEW s \in Data, Put(s)
        PROVE  Fifo!Next
    BY <2>1, PutImplements, FifoData DEF Fifo!Next
  <2>2. ASSUME NEW n \in 0 .. MaxLen, Get(n)
        PROVE  Fifo!Next
    BY <2>2, GetImplements DEF Fifo!Next
  <2>3. CASE UNCHANGED vars
    BY <2>3 DEF vars, Contents, Used, Wrap
  <2> QED BY <2>1, <2>2, <2>3 DEF Next
<1> QED
  BY <1>1, <1>2, <1>3, <1>4, PositionsInRange, PTL DEF Spec, ImplementsFifo, Fifo!Spec
=============================================================================
