------------------------------- MODULE MCCodec ------------------------------
(* An instance of Codec for TLC: packet types without, with one and with two *)
(* arguments, a last argument that may hold NULs, payloads up to and beyond  *)
(* the cap, and one alien frame for each error of the decoder.               *)
EXTENDS Codec, TLC

NoArgs == 1
OneArg == 2
TwoArgs == 3
SomeCounts == NoArgs :> 0 @@ OneArg :> 1 @@ TwoArgs :> 2

Names == {<<>>, <<7>>}
Opaque == {<<>>, <<7>>, <<NUL>>, <<NUL, 7>>, <<7, 7, NUL>>}

Frame(t, args) == [magic |-> Req, ptype |-> t, args |-> args]
SomePackets ==
    {Frame(NoArgs, <<>>), [Frame(NoArgs, <<>>) EXCEPT !.magic = Res], Frame(TwoArgs, <<<<7>>>>)}
    \cup {Frame(OneArg, <<a>>) : a \in Opaque}
    \cup {Frame(TwoArgs, <<a, b>>) : a \in Names, b \in Opaque}

SomeAlien == {<<9, NoArgs, 0>>, <<Req, 9, 0>>, <<Req, OneArg, MaxPayload + 1>>,
              <<Res, NoArgs, 1, 7>>, <<Res, TwoArgs, 1, 7>>}
=============================================================================
