------------------------- MODULE RadioSendVia_proofs ------------------------
(***************************************************************************)
(* SendVia for every MTU and every payload size: the fragments it sends    *)
(* are well formed and, when it reports Accepted, are the whole payload.   *)
(***************************************************************************)
EXTENDS RadioSendVia, TLAPS, NumberLemmas

\* Enough fragments for the payload, and not one more.
LEMMA FragmentCountBounds ==
    ASSUME NEW s \in Nat, NEW c \in Nat \ {0}
    PROVE  /\ FragmentCount(s, c) \in Nat \ {0}
           /\ s <= FragmentCount(s, c) * c
           /\ s > 0 => (FragmentCount(s, c) - 1) * c < s
<1>1. CASE s = 0
  BY <1>1 DEF FragmentCount
<1>2. CASE s # 0
  BY <1>2, PiecesBounds DEF FragmentCount
<1> QED
  BY <1>1, <1>2

\* The offset of a fragment the loop reaches is inside the payload (or the
\* payload is empty), and its length takes the loop to the next offset.
LEMMA FragmentCovers ==
    ASSUME NEW s \in Nat, NEW c \in Nat \ {0}, NEW i \in Nat, i < FragmentCount(s, c)
    PROVE  /\ FragmentBytes(s, c, i) \in 0 .. c
           /\ Least(s, i * c) + FragmentBytes(s, c, i) = Least(s, (i + 1) * c)
           /\ i < FragmentCount(s, c) - 1 => FragmentBytes(s, c, i) = c
           /\ i = FragmentCount(s, c) - 1 => i * c + FragmentBytes(s, c, i) = s
<1> DEFINE k == FragmentCount(s, c)
           offset == i * c
           b == FragmentBytes(s, c, i)
<1>1. k \in Nat \ {0} /\ s <= k * c /\ (s > 0 => (k - 1) * c < s)
  BY FragmentCountBounds
<1>2. s = 0 => k = 1
  BY DEF FragmentCount
<1>3. offset \in Nat /\ (i + 1) * c = offset + c
  OBVIOUS
<1>4. b = IF s > offset THEN (IF c <= s - offset THEN c ELSE s - offset) ELSE 0
  BY <1>3 DEF FragmentBytes, Least
<1> HIDE DEF k
<1>5. i <= k - 1 => offset <= (k - 1) * c
  BY <1>1
<1>6. i < k - 1 => offset + c <= (k - 1) * c
  BY <1>1, <1>3
<1>7. i = k - 1 => offset = (k - 1) * c /\ k * c = offset + c
  BY <1>1, <1>3
<1>8. i <= k - 1 /\ (k - 1) * c \in Nat
  BY <1>1 DEF k
<1> HIDE DEF offset, b
<1>9. b \in 0 .. c
  BY <1>3, <1>4
<1>10. Least(s, offset) + b = Least(s, offset + c)
  BY <1>3, <1>4 DEF Least
<1>11. i < k - 1 => b = c
  BY <1>1, <1>2, <1>3, <1>4, <1>6, <1>8
<1>12. i = k - 1 => offset + b = s
  BY <1>1, <1>2, <1>3, <1>4, <1>7, <1>8
<1> QED
  BY <1>3, <1>9, <1>10, <1>11, <1>12 DEF k, offset, b

-----------------------------------------------------------------------------
\* Past the checks: the loop has sent the fragments below index, and no byte
\* was cut from the count or the index on the way into a uint8_t.
Looping ==
    /\ Chunk \in 1 .. MaxByte /\ Chunk + WireHeaderBytes <= mtu
    /\ count = FragmentCount(size, Chunk)
    /\ count \in 1 .. MaxByte
    /\ index \in 0 .. count
    /\ sentBytes = Least(size, index * Chunk)
    /\ frame = IF index = 0 THEN NoFrame ELSE Header(index - 1)

SendInv ==
    /\ mtu \in Nat /\ size \in Nat
    /\ status \in {"Calling", "Sending"} \union Statuses
    /\ status \in {"Sending", "Accepted", "RadioRejected"} => Looping
    /\ status \in {"Calling", "MessageTooLarge", "InterfaceUnavailable"} =>
          frame = NoFrame /\ index = 0 /\ sentBytes = 0
    /\ status = "Accepted" => index = count

LEMMA SendInit == Init => SendInv
BY SendViaAssumption DEF Init, SendInv, Statuses

LEMMA ChunkBounds ==
    ASSUME NEW m \in Nat
    PROVE  /\ FragmentPayloadBytes(m) \in 0 .. MaxByte
           /\ FragmentPayloadBytes(m) # 0 => FragmentPayloadBytes(m) + WireHeaderBytes <= m
BY FramingAssumption DEF FragmentPayloadBytes, Least

LEMMA SendStep == SendInv /\ [Next]_vars => SendInv'
<1> SUFFICES ASSUME SendInv, [Next]_vars PROVE SendInv'
  OBVIOUS
<1>0. mtu \in Nat /\ size \in Nat /\ MaxByte \in Nat \ {0}
  BY FramingAssumption DEF SendInv
<1>1. CASE Check
  <2>1. /\ status = "Calling" /\ UNCHANGED <<mtu, size, index, frame, sentBytes>>
        /\ frame = NoFrame /\ index = 0 /\ sentBytes = 0
    BY <1>1 DEF Check, SendInv
  <2>2. CASE status' = "Sending"
    <3> DEFINE k == FragmentCount(size, Chunk)
    <3>1. Chunk # 0 /\ ~(k > MaxByte) /\ count' = k % (MaxByte + 1)
      BY <1>1, <2>2 DEF Check
    <3>2. Chunk \in 1 .. MaxByte /\ Chunk + WireHeaderBytes <= mtu
      BY <1>0, <3>1, ChunkBounds DEF Chunk
    <3>3. k \in Nat \ {0}
      BY <1>0, <3>2, FragmentCountBounds
    <3> HIDE DEF k
    <3>4. k \in 1 .. MaxByte /\ k % (MaxByte + 1) = k
      BY <1>0, <3>1, <3>3
    <3>5. Chunk' = Chunk
      BY <2>1 DEF Chunk
    <3>6. 0 * Chunk = 0 /\ Least(size, 0) = 0
      BY <1>0, <3>2 DEF Least
    <3> QED
      BY <1>0, <2>1, <2>2, <3>1, <3>2, <3>4, <3>5, <3>6 DEF SendInv, Looping, k
  <2>3. CASE status' # "Sending"
    BY <1>0, <1>1, <2>1, <2>3 DEF Check, SendInv, Statuses
  <2> QED
    BY <2>2, <2>3
<1>2. CASE SendFragment
  <2>1. /\ status = "Sending" /\ index < count /\ Looping
        /\ UNCHANGED <<mtu, size, status, count>>
        /\ index' = (index + 1) % (MaxByte + 1)
        /\ sentBytes' = sentBytes + Header(index).bytes /\ frame' = Header(index)
    BY <1>2 DEF SendFragment, SendInv
  <2>2. Chunk' = Chunk /\ Chunk \in Nat \ {0}
    BY <2>1 DEF Chunk, Looping
  <2>3. index \in Nat /\ index + 1 \in 1 .. count /\ count \in 1 .. MaxByte
    BY <2>1 DEF Looping
  <2>4. index' = index + 1 /\ index' # 0 /\ index' - 1 = index
    BY <1>0, <2>1, <2>3
  <2>5. sentBytes' = Least(size, (index + 1) * Chunk)
    <3>1. index < FragmentCount(size, Chunk)
      BY <2>1 DEF Looping
    <3>2. Least(size, index * Chunk) + FragmentBytes(size, Chunk, index)
              = Least(size, (index + 1) * Chunk)
      BY <1>0, <2>2, <2>3, <3>1, FragmentCovers
    <3> QED
      BY <2>1, <3>2 DEF Looping, Header
  <2>6. frame' = Header(index - 1)'
    BY <2>1, <2>2, <2>4 DEF Header
  <2>7. Looping'
    BY <2>1, <2>2, <2>3, <2>4, <2>5, <2>6 DEF Looping
  <2> QED
    BY <1>0, <2>1, <2>7 DEF SendInv, Statuses
<1>3. CASE Reject
  BY <1>3 DEF Reject, SendInv, Looping, Chunk, Header, Statuses
<1>4. CASE Finish
  <2>1. /\ status = "Sending" /\ status' = "Accepted" /\ index >= count /\ Looping
        /\ UNCHANGED <<mtu, size, count, index, frame, sentBytes>>
    BY <1>4 DEF Finish, SendInv
  <2>2. Looping' /\ index' = count'
    BY <2>1 DEF Looping, Chunk, Header
  <2> QED
    BY <1>0, <2>1, <2>2 DEF SendInv, Statuses
<1>5. CASE UNCHANGED vars
  BY <1>5 DEF vars, SendInv, Looping, Chunk, Header
<1> QED
  BY <1>1, <1>2, <1>3, <1>4, <1>5 DEF Next

\* Every variable keeps its type: nothing that is put in a byte of the header
\* or counted in one is larger than a byte.
THEOREM TypeCorrect == Spec => []TypeOK
<1>1. Init => TypeOK
  BY SendViaAssumption, FramingAssumption DEF Init, TypeOK, NoFrame, Byte
<1>2. SendInv /\ TypeOK /\ [Next]_vars => TypeOK'
  <2> SUFFICES ASSUME SendInv, TypeOK, [Next]_vars PROVE TypeOK'
    OBVIOUS
  <2> USE DEF TypeOK
  <2>1. CASE Check
    <3>1. count' \in Byte
      <4>1. mtu \in Nat /\ size \in Nat
        BY DEF SendInv
      <4>2. CASE Chunk # 0
        <5>1. FragmentCount(size, Chunk) \in Nat
          BY <4>1, <4>2, ChunkBounds, FragmentCountBounds DEF Chunk
        <5> QED
          BY <2>1, <5>1, FramingAssumption DEF Check, Byte
      <4>3. CASE Chunk = 0
        BY <2>1, <4>3 DEF Check
      <4> QED
        BY <4>2, <4>3
    <3> QED
      BY <2>1, <3>1 DEF Check, Statuses
  <2>2. CASE SendFragment
    <3>1. Looping /\ index < count /\ size \in Nat
      BY <2>2 DEF SendFragment, SendInv
    <3>2. /\ index \in Nat /\ Chunk \in Nat \ {0} /\ Chunk \in Byte
          /\ count = FragmentCount(size, Chunk) /\ count \in Byte /\ index \in Byte
      BY <3>1, FramingAssumption DEF Looping, Byte
    <3>3. FragmentBytes(size, Chunk, index) \in 0 .. Chunk
      BY <3>1, <3>2, FragmentCovers
    <3>4. FragmentBytes(size, Chunk, index) \in Byte /\ FragmentBytes(size, Chunk, index) \in Nat
      BY <3>2, <3>3, FramingAssumption DEF Byte
    <3>5. Header(index) \in [idx : Byte, cnt : Byte, chunk : Byte, bytes : Byte, size : Nat]
      BY <3>2, <3>4, FramingAssumption DEF Header
    <3>6. sentBytes' \in Nat
      BY <2>2, <3>4 DEF SendFragment, Header
    <3>7. index' \in Byte
      BY <2>2, <3>2, FramingAssumption DEF SendFragment, Byte
    <3> QED
      BY <2>2, <3>5, <3>6, <3>7 DEF SendFragment
  <2>3. CASE Reject \/ Finish
    BY <2>3 DEF Reject, Finish, Statuses
  <2>4. CASE UNCHANGED vars
    BY <2>4 DEF vars
  <2> QED
    BY <2>1, <2>2, <2>3, <2>4 DEF Next
<1> QED
  BY <1>1, <1>2, SendInit, SendStep, PTL DEF Spec

\* Every packet given to the radio fits its MTU and is one DecodeHeader takes.
THEOREM FramesWellFormed == Spec => []FramesAreWellFormed
<1>1. SendInv => FramesAreWellFormed
  <2> SUFFICES ASSUME SendInv, frame # NoFrame PROVE DecodeHeader(frame) /\ frame.size <= mtu
    BY DEF FramesAreWellFormed
  <2>1. Looping /\ index # 0
    BY DEF SendInv, Statuses, Looping
  <2> DEFINE i == index - 1
  <2>2. /\ i \in Nat /\ i < count /\ frame = Header(i)
        /\ Chunk \in Nat \ {0} /\ size \in Nat /\ mtu \in Nat /\ WireHeaderBytes \in Nat
    BY <2>1, FramingAssumption DEF Looping, SendInv
  <2> HIDE DEF i
  <2>3. FragmentBytes(size, Chunk, i) \in 0 .. Chunk
    BY <2>1, <2>2, FragmentCovers DEF Looping
  <2> QED
    BY <2>1, <2>2, <2>3 DEF Header, DecodeHeader, Looping
<1> QED
  BY <1>1, SendInit, SendStep, PTL DEF Spec

\* A send reported Accepted gave the radio the whole payload, and the length
\* the receiver computes from the last header is the payload's.
THEOREM AcceptedIsWhole == Spec => []AcceptedMeansWhole
<1>1. SendInv => AcceptedMeansWhole
  <2> SUFFICES ASSUME SendInv, status = "Accepted"
               PROVE  /\ sentBytes = size
                      /\ frame.idx = frame.cnt - 1
                      /\ CompletedBytes(frame.cnt, frame.chunk, frame.bytes) = size
    BY DEF AcceptedMeansWhole
  <2>1. Looping /\ index = count
    BY DEF SendInv
  <2> DEFINE i == count - 1
  <2>2. /\ i \in Nat /\ i < count /\ count # 0 /\ frame = Header(i)
        /\ count = FragmentCount(size, Chunk) /\ Chunk \in Nat \ {0} /\ size \in Nat
    BY <2>1 DEF Looping, SendInv
  <2>3. size <= count * Chunk /\ count * Chunk \in Nat
    BY <2>1, <2>2, FragmentCountBounds DEF Looping
  <2>4. sentBytes = size
    BY <2>1, <2>2, <2>3 DEF Looping, Least
  <2>5. i * Chunk + FragmentBytes(size, Chunk, i) = size
    BY <2>2, FragmentCovers
  <2> QED
    BY <2>2, <2>4, <2>5 DEF Header, CompletedBytes
<1> QED
  BY <1>1, SendInit, SendStep, PTL DEF Spec

\* Every fragment before the last is a full chunk, so the receiver's placing
\* of fragment i at i * chunk leaves no hole.
THEOREM NoHoles == Spec => []OnlyLastIsShort
<1>1. SendInv => OnlyLastIsShort
  <2> SUFFICES ASSUME SendInv, frame # NoFrame, frame.bytes < frame.chunk
               PROVE  frame.idx = frame.cnt - 1
    BY DEF OnlyLastIsShort
  <2>1. Looping /\ index # 0
    BY DEF SendInv, Statuses, Looping
  <2> DEFINE i == index - 1
  <2>2. /\ i \in Nat /\ i < count /\ frame = Header(i) /\ count \in Nat
        /\ count = FragmentCount(size, Chunk) /\ Chunk \in Nat \ {0} /\ size \in Nat
    BY <2>1, FramingAssumption DEF Looping, SendInv
  <2> HIDE DEF i
  <2>3. i < count - 1 => FragmentBytes(size, Chunk, i) = Chunk
    BY <2>2, FragmentCovers
  <2> QED
    BY <2>2, <2>3 DEF Header
<1> QED
  BY <1>1, SendInit, SendStep, PTL DEF Spec

\* The receiver's buffer is larger than the message by less than a chunk.
THEOREM RoomForAChunk == Spec => []RoomForAChunkFits
<1>1. SendInv => RoomForAChunkFits
  <2> SUFFICES ASSUME SendInv, status = "Accepted", size + Chunk <= MaxMessageBytes
               PROVE  Allocation(count, Chunk) <= MaxMessageBytes
    BY DEF RoomForAChunkFits
  <2> DEFINE k == FragmentCount(size, Chunk)
  <2>1. count = k /\ Chunk \in Nat \ {0} /\ size \in Nat /\ MaxMessageBytes \in Nat
    BY FramingAssumption DEF SendInv, Looping
  <2>2. k \in Nat \ {0} /\ (size > 0 => (k - 1) * Chunk < size) /\ (size = 0 => k = 1)
    BY <2>1, FragmentCountBounds DEF FragmentCount
  <2> HIDE DEF k
  <2>3. (k - 1) * Chunk = k * Chunk - Chunk /\ k * Chunk \in Nat
    BY <2>1, <2>2
  <2>4. k * Chunk <= size + Chunk
    BY <2>1, <2>2, <2>3
  <2> QED
    BY <2>1, <2>3, <2>4 DEF Allocation
<1> QED
  BY <1>1, SendInit, SendStep, PTL DEF Spec
=============================================================================
