------------------------------ MODULE FuzzInput ------------------------------
(***************************************************************************)
(* One fuzzer input: a flags byte and a payload, which the multipacket flag *)
(* frames into packets with a two-byte length each.  Three programs read    *)
(* it: fuzzServer (fuzzer.c) sends it to the lighttpd in its own process,   *)
(* send-test-case.py replays a saved one, normalize-corpus-flags.py         *)
(* rewrites a corpus.  They share no code, and have to agree.               *)
(*                                                                          *)
(* The peer of fuzzServer is the event loop of lighttpd, in another thread: *)
(* a send or a wait for an answer may fail at any moment.                   *)
(***************************************************************************)
EXTENDS Integers, Sequences, SequencesExt

CONSTANTS
    Inputs,      \* the inputs libFuzzer may generate: sequences of bytes
    MaxPackets,  \* FUZZ_MAX_PACKET_COUNT
    Invalid      \* what a parser answers to malformed framing

ASSUME InputsAssumption == Inputs \subseteq Seq(0..255)
ASSUME MaxPacketsAssumption == MaxPackets \in Nat \ {0}
ASSUME InvalidAssumption == Invalid \notin Seq(Seq(0..255))

VARIABLES
    pc,      \* where the callback is
    input,   \* data and size
    offset,  \* of the next byte to send, in the payload
    half,    \* the second half of a fragmented packet, still to be sent
    sent,    \* the arguments of the send calls, the last one as far as it went
    logged   \* the input is in the test-case log

vars == <<pc, input, offset, half, sent, logged>>

-----------------------------------------------------------------------------
(* The format *)

Flags(d)      == Head(d)
Fragmented(d) == Flags(d) % 2 = 1
Multipacket(d) == (Flags(d) \div 2) % 2 = 1
Waits(d)      == (Flags(d) \div 4) % 2 = 1

\* The big-endian length at offset o of p.
LengthAt(p, o) == 256 * p[o + 1] + p[o + 2]

\* Mutant: the two bytes of the length are not taken off what is left.
ValidMultipacketLoose(p) ==
    LET valid[at \in (0..(Len(p) + 2)) \X (0..MaxPackets)] ==
            LET o == at[1]
                count == at[2]
            IN IF o >= Len(p)
               THEN count > 0
               ELSE /\ Len(p) - o >= 2
                    /\ LengthAt(p, o) # 0
                    /\ LengthAt(p, o) <= Len(p) - o
                    /\ count < MaxPackets
                    /\ valid[<<o + 2 + LengthAt(p, o), count + 1>>]
    IN valid[<<0, 0>>]

\* fuzzValidMultipacketData, and valid_multipacket of the corpus normalizer:
\* the walk at an offset, after some packets.
ValidMultipacket(p) ==
    LET valid[at \in (0..Len(p)) \X (0..MaxPackets)] ==
            LET o == at[1]
                count == at[2]
            IN IF o = Len(p)
               THEN count > 0
               ELSE /\ Len(p) - o >= 2
                    /\ LengthAt(p, o) # 0
                    /\ LengthAt(p, o) <= Len(p) - (o + 2)
                    /\ count < MaxPackets
                    /\ valid[<<o + 2 + LengthAt(p, o), count + 1>>]
    IN valid[<<0, 0>>]

\* multipacket: the framed payload of some packets.
Frame(packets) ==
    FlattenSeq([i \in 1..Len(packets) |->
        <<Len(packets[i]) \div 256, Len(packets[i]) % 256>> \o packets[i]])

\* Mutant: one packet fewer is accepted.
FuzzerPacketsStrict(d) ==
    LET packets[o \in 1..Len(d)] ==
            IF o = Len(d)
            THEN <<>>
            ELSE IF \/ Len(d) - o < 2
                    \/ LengthAt(d, o) = 0
                    \/ o + 2 + LengthAt(d, o) > Len(d)
            THEN Invalid
            ELSE LET end  == o + 2 + LengthAt(d, o)
                     rest == packets[end]
                 IN IF rest = Invalid THEN Invalid
                    ELSE <<SubSeq(d, o + 3, end)>> \o rest
        all == packets[1]
    IN IF d = <<>> THEN Invalid
       ELSE IF ~Multipacket(d) THEN <<Tail(d)>>
       ELSE IF all = Invalid THEN Invalid
       ELSE IF Len(all) \in 1..(MaxPackets - 1) THEN all ELSE Invalid

\* fuzzer_packets of send-test-case.py, Invalid when it raises ValueError.
FuzzerPackets(d) ==
    LET packets[o \in 1..Len(d)] ==
            IF o = Len(d)
            THEN <<>>
            ELSE IF \/ Len(d) - o < 2
                    \/ LengthAt(d, o) = 0
                    \/ o + 2 + LengthAt(d, o) > Len(d)
            THEN Invalid
            ELSE LET end  == o + 2 + LengthAt(d, o)
                     rest == packets[end]
                 IN IF rest = Invalid THEN Invalid
                    ELSE <<SubSeq(d, o + 3, end)>> \o rest
        all == packets[1]
    IN IF d = <<>> THEN Invalid
       ELSE IF ~Multipacket(d) THEN <<Tail(d)>>
       ELSE IF all = Invalid THEN Invalid
       ELSE IF Len(all) \in 1..MaxPackets THEN all ELSE Invalid

\* The sendall calls of send-test-case.py --fuzzer-input.
ReplaySends(d) ==
    LET split(p) ==
            IF Fragmented(d) /\ Len(p) > 1
            THEN <<SubSeq(p, 1, Len(p) \div 2),
                   SubSeq(p, Len(p) \div 2 + 1, Len(p))>>
            ELSE <<p>>
        packets == FuzzerPackets(d)
    IN IF packets = Invalid THEN Invalid
       ELSE FlattenSeq([i \in 1..Len(packets) |-> split(packets[i])])

\* Mutant: the framing is not looked at.
NormalizeFlagsOnly(d) ==
    IF d = <<>> THEN d ELSE IF Flags(d) > 7 THEN <<0>> \o d ELSE d

\* normalize: a leading byte that is no flags byte, or promises framing that
\* is not there, becomes data.
Normalize(d) ==
    IF d = <<>> THEN d
    ELSE IF Flags(d) > 7 \/ (Multipacket(d) /\ ~ValidMultipacket(Tail(d)))
    THEN <<0>> \o d
    ELSE d

-----------------------------------------------------------------------------
(* The callback *)

Payload == Tail(input)

Init ==
    /\ pc = "idle"
    /\ input = <<>>
    /\ offset = 0
    /\ half = <<>>
    /\ sent = <<>>
    /\ logged = FALSE

\* libFuzzer calls fuzzServer.
Enter(d) ==
    /\ pc = "idle"
    /\ pc' = "entered"
    /\ input' = d
    /\ UNCHANGED <<offset, half, sent, logged>>

\* Empty and malformed inputs never reach the target, and neither does any
\* when the connection is refused.
Connect ==
    /\ pc = "entered"
    /\ \/ pc' = "closed"
       \/ /\ input # <<>>
          /\ Multipacket(input) => ValidMultipacket(Payload)
          /\ pc' = "connected"
    /\ UNCHANGED <<input, offset, half, sent, logged>>

LogInput ==
    /\ pc = "connected"
    /\ logged' = TRUE
    /\ pc' = "send"
    /\ UNCHANGED <<input, offset, half, sent>>

\* sendAll: all of p, or an error after a part of it.
SendAll(p, next) ==
    \/ /\ sent' = Append(sent, p)
       /\ pc' = next
    \/ \E k \in 0..(Len(p) - 1) :
          /\ sent' = Append(sent, SubSeq(p, 1, k))
          /\ pc' = "settle"

\* Where the callback is after a packet that ends at offset o.
After(o) ==
    IF ~Multipacket(input) \/ o >= Len(Payload) THEN "final"
    ELSE IF Waits(input) THEN "answer" ELSE "send"

\* Mutant: the halves of an odd packet are cut one byte later.
SendPacketRoundsUp ==
    LET first == IF Multipacket(input) THEN offset + 2 ELSE 0
        size  == IF Multipacket(input) THEN LengthAt(Payload, offset)
                                       ELSE Len(Payload)
        packet == SubSeq(Payload, first + 1, first + size)
        split == (size + 1) \div 2
    IN
    /\ pc = "send"
    /\ offset' = first + size
    /\ \/ /\ Fragmented(input) /\ size >= 2
          /\ half' = SubSeq(packet, split + 1, size)
          /\ SendAll(SubSeq(packet, 1, split), "half")
       \/ /\ ~Fragmented(input) \/ size < 2
          /\ half' = <<>>
          /\ SendAll(packet, After(first + size))
    /\ UNCHANGED <<input, logged>>

\* sendPacket, for the next packet or for the whole payload.
SendPacket ==
    LET first == IF Multipacket(input) THEN offset + 2 ELSE 0
        size  == IF Multipacket(input) THEN LengthAt(Payload, offset)
                                       ELSE Len(Payload)
        packet == SubSeq(Payload, first + 1, first + size)
        split == size \div 2
    IN
    /\ pc = "send"
    /\ offset' = first + size
    /\ \/ /\ Fragmented(input) /\ size >= 2
          /\ half' = SubSeq(packet, split + 1, size)
          /\ SendAll(SubSeq(packet, 1, split), "half")
       \/ /\ ~Fragmented(input) \/ size < 2
          /\ half' = <<>>
          /\ SendAll(packet, After(first + size))
    /\ UNCHANGED <<input, logged>>

SendHalf ==
    /\ pc = "half"
    /\ half' = <<>>
    /\ SendAll(half, After(offset))
    /\ UNCHANGED <<input, offset, logged>>

\* readSomeResponse between packets: a timeout or an EOF ends the exchange.
ReadAnswer ==
    /\ pc = "answer"
    /\ pc' \in {"send", "settle"}
    /\ UNCHANGED <<input, offset, half, sent, logged>>

\* The last answer does not matter.
ReadFinal ==
    /\ pc = "final"
    /\ pc' = "settle"
    /\ UNCHANGED <<input, offset, half, sent, logged>>

Close ==
    /\ pc = "settle"
    /\ pc' = "closed"
    /\ UNCHANGED <<input, offset, half, sent, logged>>

\* The callback returns 0, whatever happened.
Return ==
    /\ pc = "closed"
    /\ pc' = "idle"
    /\ input' = <<>>
    /\ offset' = 0
    /\ half' = <<>>
    /\ sent' = <<>>
    /\ logged' = FALSE

Callback ==
    \/ Connect \/ LogInput \/ SendPacket \/ SendHalf \/ ReadAnswer
    \/ ReadFinal \/ Close \/ Return

Next == Callback \/ \E d \in Inputs : Enter(d)

Spec == Init /\ [][Next]_vars

-----------------------------------------------------------------------------
(* Properties *)

\* The send loop does not check the framing again: it never reads a length or
\* a packet beyond the end of the input, because fuzzValidMultipacketData has
\* walked the same boundaries (fuzzer.c, sendMultipacketData).
InBounds ==
    pc = "send" /\ Multipacket(input) =>
        /\ offset + 2 <= Len(Payload)
        /\ offset + 2 + LengthAt(Payload, offset) <= Len(Payload)
        /\ LengthAt(Payload, offset) > 0

\* What the fuzzer sends is what send-test-case.py replays: the same packets
\* cut at the same places, up to where an error or a missing answer ended the
\* exchange, and all of it when nothing did; and nothing is sent that was not
\* logged first (fuzzer.c, fuzzServer; send-test-case.py, main).
Replayed ==
    /\ sent # <<>> =>
          LET replay == ReplaySends(input) IN
          /\ logged
          /\ replay # Invalid
          /\ Len(sent) <= Len(replay)
          /\ \A i \in 1..(Len(sent) - 1) : sent[i] = replay[i]
          /\ IsPrefix(sent[Len(sent)], replay[Len(sent)])
    /\ pc = "final" => sent = ReplaySends(input)

\* The inputs fuzzServer connects for are those send-test-case.py accepts; it
\* takes a framed one apart into what multipacket() put together (fuzzer.c,
\* send-test-case.py and normalize-corpus-flags.py).
FramingAgrees ==
    /\ pc = "connected" => FuzzerPackets(input) # Invalid
    /\ pc = "entered" /\ input # <<>> /\ FuzzerPackets(input) # Invalid =>
          /\ Multipacket(input) => ValidMultipacket(Payload)
          /\ Multipacket(input) => Frame(FuzzerPackets(input)) = Payload

\* An input of the normalized corpus is never one that fuzzServer rejects
\* without a connection, normalizing it again changes nothing, and an input
\* it changes is sent whole (normalize-corpus-flags.py, normalize).
NormalizedRuns ==
    pc = "entered" /\ input # <<>> =>
        LET d == Normalize(input) IN
        /\ FuzzerPackets(d) # Invalid
        /\ Normalize(d) = d
        /\ d # input => FuzzerPackets(d) = <<input>>

=============================================================================
