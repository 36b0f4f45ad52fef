---------------------------- MODULE RadioSendVia ----------------------------
(***************************************************************************)
(* One call of RadioTransport::SendVia: the checks in front of the         *)
(* fragmentation loop and the loop, with the widths of the code (the       *)
(* fragment count and the loop's index are uint8_t).  The radio is         *)
(* external: each IRadio::Send accepts the fragment or rejects it.         *)
(***************************************************************************)
EXTENDS RadioFraming

CONSTANTS Mtu,     \* the values of Capabilities().MaximumPayloadBytes
          Size     \* the payload sizes a caller may pass

ASSUME SendViaAssumption == Mtu \subseteq Nat /\ Size \subseteq Nat

Byte == 0 .. MaxByte

Statuses == {"Accepted", "InterfaceUnavailable", "MessageTooLarge", "RadioRejected"}

VARIABLES mtu, size, radioStarted,  \* what the call finds
          status,                   \* "Calling", "Sending", then the result
          count,                    \* uint8_t fragmentCount
          index,                    \* uint8_t index
          frame,                    \* header of the last fragment accepted
          sentBytes                 \* payload bytes the radio has accepted

vars == <<mtu, size, radioStarted, status, count, index, frame, sentBytes>>

NoFrame == [idx |-> 0, cnt |-> 0, chunk |-> 0, bytes |-> 0, size |-> 0]

Chunk == FragmentPayloadBytes(mtu)

Init ==
    /\ mtu \in Mtu
    /\ size \in Size
    /\ radioStarted \in BOOLEAN
    /\ status = "Calling"
    /\ count = 0
    /\ index = 0
    /\ frame = NoFrame
    /\ sentBytes = 0

\* Broken variant of Check: no limit on a count that the index cannot reach.
CheckNoCountLimit ==
    /\ status = "Calling"
    /\ radioStarted /\ Chunk # 0 /\ size <= MaxMessageBytes
    /\ status' = "Sending"
    /\ count' = FragmentCount(size, Chunk)
    /\ UNCHANGED <<mtu, size, radioStarted, index, frame, sentBytes>>

\* The checks in front of the loop, in the order of the code.
Check ==
    /\ status = "Calling"
    /\ IF ~radioStarted \/ Chunk = 0
       THEN status' = "InterfaceUnavailable" /\ count' = count
       ELSE IF size > MaxMessageBytes \/ FragmentCount(size, Chunk) > MaxByte
       THEN status' = "MessageTooLarge" /\ count' = count
       ELSE /\ status' = "Sending"
            /\ count' = FragmentCount(size, Chunk) % (MaxByte + 1)
    /\ UNCHANGED <<mtu, size, radioStarted, index, frame, sentBytes>>

Header(i) ==
    [ idx   |-> i,
      cnt   |-> count,
      chunk |-> Chunk,
      bytes |-> FragmentBytes(size, Chunk, i),
      size  |-> WireHeaderBytes + FragmentBytes(size, Chunk, i) ]

\* One turn of the loop whose fragment the radio accepts.
SendFragment ==
    /\ status = "Sending"
    /\ index < count
    /\ frame' = Header(index)
    /\ sentBytes' = sentBytes + Header(index).bytes
    /\ index' = (index + 1) % (MaxByte + 1)
    /\ UNCHANGED <<mtu, size, radioStarted, status, count>>

\* The radio rejects a fragment: the rest of the message is not offered.
Reject ==
    /\ status = "Sending"
    /\ index < count
    /\ status' = "RadioRejected"
    /\ UNCHANGED <<mtu, size, radioStarted, count, index, frame, sentBytes>>

Finish ==
    /\ status = "Sending"
    /\ index >= count
    /\ status' = "Accepted"
    /\ UNCHANGED <<mtu, size, radioStarted, count, index, frame, sentBytes>>

Next == Check \/ SendFragment \/ Reject \/ Finish

\* The call runs on one thread and nothing in it waits.
Fairness == WF_vars(Next)

Spec == Init /\ [][Next]_vars /\ Fairness

-----------------------------------------------------------------------------
TypeOK ==
    /\ mtu \in Mtu
    /\ size \in Size
    /\ radioStarted \in BOOLEAN
    /\ status \in {"Calling", "Sending"} \union Statuses
    /\ count \in Byte
    /\ index \in Byte
    /\ frame \in [idx : Byte, cnt : Byte, chunk : Byte, bytes : Byte, size : Nat]
    /\ sentBytes \in Nat

\* Every packet offered to a radio fits its MTU, and a receiver decodes it:
\* no truncation to uint8_t on the way into the header loses a value.
FramesAreWellFormed ==
    frame # NoFrame => DecodeHeader(frame) /\ frame.size <= mtu

\* When SendVia says Accepted, the radio has been given every byte of the
\* payload once, and the size Complete computes from the last fragment's
\* header is the size the caller passed.
AcceptedMeansWhole ==
    status = "Accepted" =>
        /\ sentBytes = size
        /\ frame.idx = frame.cnt - 1
        /\ CompletedBytes(frame.cnt, frame.chunk, frame.bytes) = size

\* Only the last fragment is short: the receiver places fragment i at
\* i * chunk, so a short one before it would leave a hole in the message.
OnlyLastIsShort ==
    frame # NoFrame /\ frame.bytes < frame.chunk => frame.idx = frame.cnt - 1

\* The call returns: the uint8_t index reaches the uint8_t count.
Returns == <>(status \in Statuses)

\* A message that leaves room for one more fragment under the limit does fit
\* the receiver's buffer, which is made of whole chunks.
RoomForAChunkFits ==
    status = "Accepted" /\ size + Chunk <= MaxMessageBytes =>
        Allocation(count, Chunk) <= MaxMessageBytes

\* A message whose send was accepted is one a receiver with the same bounds
\* makes room for (FindOrCreateReassembly's check of the same limit).
AcceptedFitsReceiver ==
    status = "Accepted" => Allocation(count, Chunk) <= MaxMessageBytes
=============================================================================
