----------------------------- MODULE PacketProc -----------------------------
(***************************************************************************)
(* packet_proc.c: a producer process fills packets that a consumer process *)
(* reads in place.  Only packet indices travel, through two rings in       *)
(* shared memory: the free ring (consumer to producer) and the ready ring  *)
(* (producer to consumer).  A step accesses shared memory once, except the *)
(* busy-wait tests, whose two conditions only the waiting side can undo.   *)
(* A packet's payload is the number of the packet in the file.             *)
(***************************************************************************)
EXTENDS Integers, Sequences

CONSTANTS BufferSize,  \* BUFFER_SIZE
          Expected,    \* EXPECTED_PACKET_COUNT
          PayloadSum,  \* the sum of the bytes of DUMMY_DATA, every packet's payload
          Modulus      \* 2^32, the range of the ring counters

SizeAssumption == /\ BufferSize \in Nat \ {0} /\ Expected \in Nat /\ PayloadSum \in Nat
                  /\ Modulus \in Nat /\ Modulus % (2 * BufferSize) = 0
                  /\ Modulus > BufferSize

VARIABLES free_ring, ready_ring,   \* ringbuf_t
          packet_buf,              \* the packets, by index
          ppc, packet_idx, curr,   \* producer: location, packet in hand, packets read so far
          cpc, current, packet_count, checksum
                                   \* consumer: location, packet in hand, what it processed

rings == <<free_ring, ready_ring>>
producer == <<ppc, packet_idx, curr>>
consumer == <<cpc, current, packet_count, checksum>>
vars == <<rings, packet_buf, producer, consumer>>

Indices == 0 .. BufferSize - 1
Counters == 0 .. Modulus - 1
Rings == [head : Counters, tail : Counters, buffer : [Indices -> Indices]]
Locations == {"wait", "take", "advance", "packet", "store", "publish", "done"}

TypeOK == /\ free_ring \in Rings /\ ready_ring \in Rings
          /\ packet_buf \in [Indices -> -1 .. Expected - 1]
          /\ ppc \in Locations \cup {"start", "failed"} /\ cpc \in Locations \cup {"joined"}
          /\ packet_idx \in Indices /\ current \in Indices
          /\ curr \in 0 .. Expected /\ packet_count \in 0 .. Expected
          /\ checksum \in Nat

Init == /\ ready_ring = [head |-> 0, tail |-> 0, buffer |-> [i \in Indices |-> 0]]
        /\ free_ring = [head |-> BufferSize, tail |-> 0, buffer |-> [i \in Indices |-> i]]
        /\ packet_buf = [i \in Indices |-> -1]
        /\ ppc = "start" /\ packet_idx = 0 /\ curr = 0
        /\ cpc = "wait" /\ current = 0 /\ packet_count = 0 /\ checksum = 0

\* tail ^ BUFFER_SIZE, for a power of two.
Mirror(c) == IF (c \div BufferSize) % 2 = 0 THEN c + BufferSize ELSE c - BufferSize
ring_is_full(rb) == rb.head = Mirror(rb.tail)
ring_is_empty(rb) == rb.head = rb.tail

Inc(c) == (c + 1) % Modulus
Masked(c) == c % BufferSize
AtTail(rb) == rb.buffer[Masked(rb.tail)]
MutantAdvance(rb) == rb
Advance(rb) == [rb EXCEPT !.tail = Inc(@)]
Store(rb, i) == [rb EXCEPT !.buffer[Masked(rb.head)] = i]
MutantPublish(rb) == [rb EXCEPT !.head = Inc(Inc(@))]
Publish(rb) == [rb EXCEPT !.head = Inc(@)]
-----------------------------------------------------------------------------
\* The child: fstat and mmap of the file may fail, which ends the process.
ProducerStart == /\ ppc = "start" /\ ppc' \in {"wait", "failed"}
                 /\ UNCHANGED <<rings, packet_buf, packet_idx, curr, consumer>>

ProducerWait == /\ ppc = "wait"
                /\ \/ curr = Expected /\ ppc' = "done"
                   \/ /\ curr < Expected
                      /\ ~ring_is_empty(free_ring) /\ ~ring_is_full(ready_ring)
                      /\ ppc' = "take"
                /\ UNCHANGED <<rings, packet_buf, packet_idx, curr, consumer>>

ProducerTake == /\ ppc = "take" /\ ppc' = "advance"
                /\ packet_idx' = AtTail(free_ring)
                /\ UNCHANGED <<rings, packet_buf, curr, consumer>>

ProducerAdvance == /\ ppc = "advance" /\ ppc' = "packet"
                   /\ free_ring' = Advance(free_ring)
                   /\ UNCHANGED <<ready_ring, packet_buf, packet_idx, curr, consumer>>

\* The n-th payload of the file goes into packet i; a packet that was never
\* filled is -1.
read_next_packet_from_file(n, i) == [packet_buf EXCEPT ![i] = n]
ProducerFill == /\ ppc = "packet" /\ ppc' = "store"
                /\ packet_buf' = read_next_packet_from_file(curr, packet_idx)
                /\ curr' = curr + 1
                /\ UNCHANGED <<rings, packet_idx, consumer>>

ProducerStore == /\ ppc = "store" /\ ppc' = "publish"
                 /\ ready_ring' = Store(ready_ring, packet_idx)
                 /\ UNCHANGED <<free_ring, packet_buf, packet_idx, curr, consumer>>

ProducerPublish == /\ ppc = "publish" /\ ppc' = "wait"
                   /\ ready_ring' = Publish(ready_ring)
                   /\ UNCHANGED <<free_ring, packet_buf, packet_idx, curr, consumer>>

\* The parent.
ConsumerWait == /\ cpc = "wait"
                /\ \/ packet_count = Expected /\ cpc' = "done"
                   \/ /\ packet_count < Expected
                      /\ ~ring_is_empty(ready_ring) /\ ~ring_is_full(free_ring)
                      /\ cpc' = "take"
                /\ UNCHANGED <<rings, packet_buf, current, packet_count, checksum, producer>>

ConsumerTake == /\ cpc = "take" /\ cpc' = "advance"
                /\ current' = AtTail(ready_ring)
                /\ UNCHANGED <<rings, packet_buf, packet_count, checksum, producer>>

ConsumerAdvance == /\ cpc = "advance" /\ cpc' = "packet"
                   /\ ready_ring' = Advance(ready_ring)
                   /\ UNCHANGED <<free_ring, packet_buf, current, packet_count, checksum, producer>>

process_packet(p, sum) == IF p = -1 THEN sum ELSE sum + PayloadSum
calc_expected_checksum == PayloadSum * Expected

ConsumerProcess == /\ cpc = "packet" /\ cpc' = "store"
                   /\ checksum' = process_packet(packet_buf[current], checksum)
                   /\ packet_count' = packet_count + 1
                   /\ UNCHANGED <<rings, packet_buf, current, producer>>

ConsumerStore == /\ cpc = "store" /\ cpc' = "publish"
                 /\ free_ring' = Store(free_ring, current)
                 /\ UNCHANGED <<ready_ring, packet_buf, current, packet_count, checksum, producer>>

ConsumerPublish == /\ cpc = "publish" /\ cpc' = "wait"
                   /\ free_ring' = Publish(free_ring)
                   /\ UNCHANGED <<ready_ring, packet_buf, current, packet_count, checksum, producer>>

\* waitpid returns once the child has exited.
ConsumerJoin == /\ cpc = "done" /\ ppc \in {"done", "failed"} /\ cpc' = "joined"
                /\ UNCHANGED <<rings, packet_buf, current, packet_count, checksum, producer>>

Producer == ProducerStart \/ ProducerWait \/ ProducerTake \/ ProducerAdvance
              \/ ProducerFill \/ ProducerStore \/ ProducerPublish
Consumer == ConsumerWait \/ ConsumerTake \/ ConsumerAdvance \/ ConsumerProcess
              \/ ConsumerStore \/ ConsumerPublish \/ ConsumerJoin

Next == Producer \/ Consumer

Spec == Init /\ [][Next]_vars
FairSpec == Spec /\ WF_vars(Producer) /\ WF_vars(Consumer)
-----------------------------------------------------------------------------
Occupancy(rb) == (rb.head - rb.tail) % Modulus
Queued(rb) == [i \in 1 .. Occupancy(rb) |-> rb.buffer[Masked((rb.tail + i - 1) % Modulus)]]
InHand(pc, i) == IF pc \in {"packet", "store", "publish"} THEN <<i>> ELSE <<>>

Owners == Queued(free_ring) \o Queued(ready_ring)
            \o InHand(ppc, packet_idx) \o InHand(cpc, current)

\* Every packet has exactly one owner: one of the rings, the producer or the
\* consumer.  Nobody writes a packet somebody else reads, no index is lost, and
\* no ring ever holds more than BUFFER_SIZE indices.
OneOwner == Len(Owners) = BufferSize /\ \A i \in Indices : \E n \in 1 .. BufferSize : Owners[n] = i

\* The consumer processes the packets of the file once each, in order.
InFileOrder == cpc = "packet" => packet_buf[current] = packet_count

\* What the parent prints as actual is what it prints as expected.
ChecksumMatches == cpc = "joined" => checksum = calc_expected_checksum
=============================================================================
