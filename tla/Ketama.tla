------------------------------- MODULE Ketama -------------------------------
(***************************************************************************)
(* The consistent-hash ring (src/client/ketama.rs).  A ring is the sequence *)
(* of the servers that own its points, in the order of the points; what     *)
(* MD5 makes of a server or of a unique id is external, so a unique id is   *)
(* the position of the first point at or after its hash.                    *)
(*                                                                         *)
(* `Ring::select` tests servers one after the other until one is healthy,  *)
(* and which server it tests next depends only on those tested before: the  *)
(* operators below say in which order.                                      *)
(***************************************************************************)
EXTENDS Naturals, Sequences

\* The server at position i of the ring, wrapping past its end.
At(ring, i) == ring[((i - 1) % Len(ring)) + 1]

Least(S) == CHOOSE i \in S : \A j \in S : i <= j

\* libgearman's after_con: the first other server past the FIRST point of `failed`;
\* none, the empty set, if there is no other.
NextAfter(ring, failed) ==
    LET first == Least({i \in DOMAIN ring : ring[i] = failed})
        others == {k \in DOMAIN ring : At(ring, first + k) # failed}
    IN  IF others = {} THEN {} ELSE {At(ring, first + Least(others))}

Tried(chain) == {chain[i] : i \in DOMAIN chain}

\* The servers tried along the chain, until there is no next one or the next
\* one was tried before.
Chain(ring, home) ==
    LET chain[k \in 0 .. Len(ring)] ==
            IF k = 0
            THEN <<At(ring, home)>>
            ELSE LET before == chain[k - 1]
                     next == NextAfter(ring, before[Len(before)]) \ Tried(before)
                 IN  IF next = {} THEN before
                                  ELSE Append(before, CHOOSE s \in next : TRUE)
    IN  chain[Len(ring)]

\* Mutated form of RingOrder: the chain alone.
RingOrder_ChainOnly(ring, home) == Chain(ring, home)

\* The order in which `select` tests the servers: the chain, then the whole
\* ring from the hash on.
RingOrder(ring, home) ==
    Chain(ring, home) \o [i \in DOMAIN ring |-> At(ring, home + i - 1)]

=============================================================================
