------------------------------- MODULE Codec --------------------------------
(***************************************************************************)
(* The framing of the binary protocol (src/protocol/codec.rs and            *)
(* packet.rs) over a byte stream that arrives in pieces.  A sequence of     *)
(* numbers stands for bytes; of the header, each of the three fields of     *)
(* four bytes is one of them.  The Framed of tokio-util, which both ends    *)
(* use (src/conn.rs), is external.                                          *)
(***************************************************************************)
EXTENDS Naturals, Sequences, FiniteSets

CONSTANTS
    ArgCount,      \* [packet types -> their number of arguments]
    Packets,       \* the packets this side is asked to send
    Alien,         \* byte sequences of a peer that does not keep to the protocol
    MaxPayload,    \* max_payload_size
    MaxSent        \* bound: packets sent

NUL == 0
Req == 1
Res == 2
HeaderLen == 3     \* 12 bytes in the code
Types == DOMAIN ArgCount

ASSUME CodecAssumption ==
    /\ Types \subseteq Nat /\ \A t \in Types : ArgCount[t] \in Nat
    /\ Packets \subseteq [magic : {Req, Res}, ptype : Types, args : Seq(Seq(Nat))]
    /\ \A p \in Packets : \A i \in 1 .. Len(p.args) - 1 : \A k \in DOMAIN p.args[i] :
          p.args[i][k] # NUL   \* names, handles, numbers: see README
    /\ \A bytes \in Alien : bytes \in Seq(Nat)
    /\ MaxPayload \in Nat /\ MaxSent \in Nat

VARIABLES
    wire,      \* bytes written and not yet read
    closed,    \* the sender's end is closed
    buffer,    \* `src`, the bytes read and not yet decoded
    got,       \* the packets received
    status,    \* "open", "ended", or the error the receiver got
    accepted,  \* history: the packets the encoder took, before any alien bytes
    spoilt     \* history: alien bytes were sent

vars == <<wire, closed, buffer, got, status, accepted, spoilt>>

-----------------------------------------------------------------------------
(* The encoder.                                                            *)

\* The arguments with a NUL between them.
Body(args) ==
    LET joined[i \in 0 .. Len(args)] ==
            IF i = 0 THEN <<>>
            ELSE joined[i - 1] \o (IF i = 1 THEN <<>> ELSE <<NUL>>) \o args[i]
    IN  joined[Len(args)]

\* Mutated form of Refuses: the length is not checked.
Refuses_WrongCount(p) == Len(p.args) # ArgCount[p.ptype]

\* encode returns WrongArgCount or PayloadTooLarge.
Refuses(p) ==
    \/ Len(p.args) # ArgCount[p.ptype]
    \/ Len(Body(p.args)) > MaxPayload

\* Mutated form of Encoded: the length leaves the separators out.
Encoded_ArgsOnly(p) ==
    <<p.magic, p.ptype, Len(Body(p.args)) - (Len(p.args) - (IF p.args = <<>> THEN 0 ELSE 1))>>
    \o Body(p.args)

Encoded(p) == <<p.magic, p.ptype, Len(Body(p.args))>> \o Body(p.args)

-----------------------------------------------------------------------------
(* The decoder.                                                            *)

\* Where the k-th NUL of a payload is; 0 for k = 0.
NulAt(payload, k) ==
    IF k = 0 THEN 0
    ELSE CHOOSE i \in DOMAIN payload :
            /\ payload[i] = NUL
            /\ Cardinality({j \in 1 .. i : payload[j] = NUL}) = k

\* split_args: all arguments but the last end at a NUL. It fails when a payload
\* that should be empty is not, and when a separator is missing.
Malformed(ptype, payload) ==
    IF ArgCount[ptype] = 0
    THEN payload # <<>>
    ELSE Cardinality({i \in DOMAIN payload : payload[i] = NUL}) < ArgCount[ptype] - 1

\* Mutated form of SplitArgs: the last argument ends at a NUL as well.
SplitArgs_EachAtNul(ptype, payload) ==
    LET n == ArgCount[ptype]
        nuls == Cardinality({i \in DOMAIN payload : payload[i] = NUL})
    IN  [k \in 1 .. n |-> SubSeq(payload, NulAt(payload, k - 1) + 1,
                                 IF k <= nuls THEN NulAt(payload, k) - 1 ELSE Len(payload))]

\* Mutated form of SplitArgs: one argument too few.
SplitArgs_OneLess(ptype, payload) ==
    [k \in 1 .. ArgCount[ptype] - 1 |->
        SubSeq(payload, NulAt(payload, k - 1) + 1, NulAt(payload, k) - 1)]

SplitArgs(ptype, payload) ==
    LET n == ArgCount[ptype]
    IN  [k \in 1 .. n |-> SubSeq(payload, NulAt(payload, k - 1) + 1,
                                 IF k < n THEN NulAt(payload, k) - 1 ELSE Len(payload))]

\* What decode finds wrong with the header, once there is one.
HeaderError(src) ==
    IF Len(src) < HeaderLen             THEN "none"
    ELSE IF src[1] \notin {Req, Res}    THEN "bad_magic"
    ELSE IF src[2] \notin Types         THEN "unknown_packet_type"
    ELSE IF src[3] > MaxPayload         THEN "payload_too_large"
    ELSE                                     "none"

\* Mutated form of Complete: it takes a byte more.
Complete_Late(src) == Len(src) > HeaderLen /\ Len(src) > HeaderLen + src[3]

\* A whole packet is there.
Complete(src) == Len(src) >= HeaderLen /\ Len(src) >= HeaderLen + src[3]

Payload(src) == SubSeq(src, HeaderLen + 1, HeaderLen + src[3])
Rest(src) == SubSeq(src, HeaderLen + src[3] + 1, Len(src))

\* A peer that does not keep to the protocol sends a frame the decoder refuses;
\* any other frame is a packet.
ASSUME AlienAssumption ==
    \A bytes \in Alien :
        \/ HeaderError(bytes) # "none"
        \/ /\ Len(bytes) >= HeaderLen /\ Len(bytes) >= HeaderLen + bytes[3]
           /\ Malformed(bytes[2], Payload(bytes))

-----------------------------------------------------------------------------
Init ==
    /\ wire = <<>> /\ closed = FALSE
    /\ buffer = <<>> /\ got = <<>> /\ status = "open"
    /\ accepted = <<>> /\ spoilt = FALSE

\* Connection::send. A packet the encoder refuses leaves the stream as it was.
Send(p) ==
    /\ ~closed /\ ~spoilt /\ Len(accepted) < MaxSent
    /\ ~Refuses(p)
    /\ wire' = wire \o Encoded(p)
    /\ accepted' = Append(accepted, p)
    /\ UNCHANGED <<closed, buffer, got, status, spoilt>>

SendAlien(bytes) ==
    /\ ~closed /\ ~spoilt
    /\ wire' = wire \o bytes
    /\ spoilt' = TRUE
    /\ UNCHANGED <<closed, buffer, got, status, accepted>>

\* The connection ends; what was written may be cut short.
Close ==
    /\ ~closed
    /\ closed' = TRUE
    /\ \E n \in 0 .. Len(wire) : wire' = SubSeq(wire, 1, n)
    /\ UNCHANGED <<buffer, got, status, accepted, spoilt>>

\* Framed reads some bytes, having decoded what it could.
Read ==
    /\ status = "open" /\ HeaderError(buffer) = "none" /\ ~Complete(buffer)
    /\ \E n \in 1 .. Len(wire) :
         /\ buffer' = buffer \o SubSeq(wire, 1, n)
         /\ wire' = SubSeq(wire, n + 1, Len(wire))
    /\ UNCHANGED <<closed, got, status, accepted, spoilt>>

\* recv returns the end of the stream, or an error if it ends within a packet.
ReadEnd ==
    /\ status = "open" /\ HeaderError(buffer) = "none" /\ ~Complete(buffer)
    /\ closed /\ wire = <<>>
    /\ status' = IF buffer = <<>> THEN "ended" ELSE "io_error"
    /\ UNCHANGED <<wire, closed, buffer, got, accepted, spoilt>>

\* decode returns a packet.
Decode ==
    /\ status = "open" /\ HeaderError(buffer) = "none" /\ Complete(buffer)
    /\ ~Malformed(buffer[2], Payload(buffer))
    /\ got' = Append(got, [magic |-> buffer[1], ptype |-> buffer[2],
                           args |-> SplitArgs(buffer[2], Payload(buffer))])
    /\ buffer' = Rest(buffer)
    /\ UNCHANGED <<wire, closed, status, accepted, spoilt>>

\* decode returns an error; the receiver gives the connection up.
DecodeFails ==
    /\ status = "open"
    /\ \/ /\ HeaderError(buffer) # "none"
          /\ status' = HeaderError(buffer)
          /\ UNCHANGED buffer
       \/ /\ HeaderError(buffer) = "none" /\ Complete(buffer)
          /\ Malformed(buffer[2], Payload(buffer))
          /\ status' = "malformed_body"
          /\ buffer' = Rest(buffer)
    /\ UNCHANGED <<wire, closed, got, accepted, spoilt>>

Next == \/ \E p \in Packets : Send(p)
        \/ \E bytes \in Alien : SendAlien(bytes)
        \/ Close \/ Read \/ ReadEnd \/ Decode \/ DecodeFails

Spec == Init /\ [][Next]_vars

\* The receiver goes on reading.
FairSpec == Spec /\ WF_vars(Read) /\ WF_vars(Decode)

-----------------------------------------------------------------------------
(* Correctness.                                                            *)

\* Every variable holds a value of its kind; a packet received has the number of
\* arguments of its type.
TypeOK ==
    /\ wire \in Seq(Nat) /\ buffer \in Seq(Nat)
    /\ closed \in BOOLEAN /\ spoilt \in BOOLEAN
    /\ status \in {"open", "ended", "io_error", "bad_magic", "unknown_packet_type",
                   "payload_too_large", "malformed_body"}
    /\ accepted \in Seq(Packets)
    /\ \A i \in DOMAIN got : got[i].args \in [1 .. ArgCount[got[i].ptype] -> Seq(Nat)]

\* What is received is what was sent, packet by packet and argument by argument,
\* however the stream was cut into pieces and whatever follows (decode, split_args).
ReceivedAsSent ==
    /\ Len(got) <= Len(accepted)
    /\ \A i \in DOMAIN got : got[i] = accepted[i]

\* What one end encodes the other decodes: an error is the work of an alien peer, or
\* of a connection cut within a packet (the cap is the same in encode and decode).
ErrorsAreForeign ==
    /\ status \notin {"open", "ended"} => spoilt \/ closed
    /\ status \notin {"open", "ended", "io_error"} => spoilt

\* Every packet the encoder took is received in the end, however late its last byte
\* comes, and without one more (decode: src.len() < HEADER_LEN + len).
AllArrive ==
    \A n \in 1 .. MaxSent : Len(accepted) = n ~> Len(got) >= n \/ spoilt \/ closed

=============================================================================
