---------------------------- MODULE RadioFraming ----------------------------
(***************************************************************************)
(* The wire format of RadioTransport and the size arithmetic on both sides *)
(* of it: what SendVia puts in a fragment's header, which packets          *)
(* DecodeHeader accepts, and what the receiver computes from the header.   *)
(* It has no state.                                                        *)
(***************************************************************************)
EXTENDS Naturals

CONSTANTS WireHeaderBytes,   \* bytes of the header in front of each fragment
          MaxMessageBytes,   \* ESPRESSIO_RADIO_MAX_MESSAGE_BYTES
          MaxByte            \* the largest value of a uint8_t

ASSUME FramingAssumption ==
    /\ WireHeaderBytes \in Nat
    /\ MaxMessageBytes \in Nat
    /\ MaxByte \in Nat \ {0}

Least(a, b) == IF a <= b THEN a ELSE b

(***************************************************************************)
(* Sender.                                                                 *)
(***************************************************************************)

\* Payload bytes of a fragment on a radio of this MTU; 0 if none fits.
FragmentPayloadBytes(mtu) ==
    IF mtu <= WireHeaderBytes THEN 0 ELSE Least(MaxByte, mtu - WireHeaderBytes)

\* Broken variants of FragmentCount: rounded down; with a closing fragment.
FragmentCountDown(size, chunk) == IF size < chunk THEN 1 ELSE size \div chunk
FragmentCountClosed(size, chunk) == (size + chunk - 1) \div chunk + 1

\* Fragments of a payload of `size` bytes; an empty message takes one.
FragmentCount(size, chunk) ==
    IF size = 0 THEN 1 ELSE (size + chunk - 1) \div chunk

\* Broken variant of FragmentBytes: all that is left.
FragmentBytesAll(size, chunk, index) ==
    IF size > index * chunk THEN size - index * chunk ELSE 0

\* Payload bytes of fragment `index`.
FragmentBytes(size, chunk, index) ==
    LET offset    == index * chunk
        remaining == IF size > offset THEN size - offset ELSE 0
    IN  Least(chunk, remaining)

\* Fragment `index` of the message `key`, its content `data` of `size` bytes.
Fragment(key, data, size, chunk, hop, index) ==
    [ key   |-> key,
      idx   |-> index,
      cnt   |-> FragmentCount(size, chunk),
      chunk |-> chunk,
      bytes |-> FragmentBytes(size, chunk, index),
      hop   |-> hop,
      size  |-> WireHeaderBytes + FragmentBytes(size, chunk, index),
      data  |-> data ]

Fragments(key, data, size, chunk, hop) ==
    {Fragment(key, data, size, chunk, hop, i) : i \in 0 .. FragmentCount(size, chunk) - 1}

(***************************************************************************)
(* Receiver.  h has the header's fields idx, cnt, chunk and bytes, and the *)
(* size the radio reported for the packet.                                 *)
(***************************************************************************)
DecodeHeader(h) ==
    /\ h.size >= WireHeaderBytes
    /\ h.cnt # 0
    /\ h.idx < h.cnt
    /\ h.chunk # 0
    /\ h.bytes <= h.chunk
    /\ WireHeaderBytes + h.bytes = h.size

\* Bytes the receiver reserves for a message of cnt fragments.
Allocation(cnt, chunk) == cnt * chunk

\* Bytes of a complete message, from the length of its last fragment.
CompletedBytes(cnt, chunk, last) ==
    IF cnt = 0 THEN 0 ELSE (cnt - 1) * chunk + last
=============================================================================
