------------------------- MODULE HandleSubscribers -------------------------
(***************************************************************************)
(* The subscribers of one job handle on one client connection              *)
(* (`HandleSubscribers`, src/client/mod.rs), as pure operators.            *)
(*                                                                         *)
(* `slots` is the Vec of senders, in the order of the JOB_CREATED answers  *)
(* that added them; a sender stands for the request whose event stream it  *)
(* feeds, and NoRequest for the `None` left behind by a pruned sender.     *)
(* `cursor` counts from 0, as in the code: the next copy of an event goes  *)
(* to slots[cursor + 1].                                                   *)
(*                                                                         *)
(* A handle with no entry in `job_events` is the value Default: the code   *)
(* removes an entry exactly when its last slot goes, and delivering to a   *)
(* missing entry or to one without slots does the same nothing.            *)
(***************************************************************************)
EXTENDS Naturals, Sequences

CONSTANT NoRequest   \* a slot whose sender was released

Default == [slots |-> <<>>, cursor |-> 0]

Add(subs, sender) == [subs EXCEPT !.slots = Append(@, sender)]

\* Vec::swap_remove: the last element takes the place of the removed one.
SwapRemove(s, i) ==
    [k \in 1 .. Len(s) - 1 |-> IF k = i THEN s[Len(s)] ELSE s[k]]

\* The cursor as `deliver` reads it, after its bounds check.
InBounds(cursor, slots) == IF cursor >= Len(slots) THEN 0 ELSE cursor

\* The index of the slot the next copy goes to; there is one unless no slot is left.
NextSlot(subs) == InBounds(subs.cursor, subs.slots) + 1

\* Who receives the next copy: a sender, or NoRequest if its slot was pruned.
Receiver(subs) ==
    IF subs.slots = <<>> THEN NoRequest ELSE subs.slots[NextSlot(subs)]

\* Mutated forms of Deliver and Prune, each a bug the code's comments warn of.
Deliver_NoRetire(subs, terminal) ==
    LET at == NextSlot(subs)
    IN  IF subs.slots = <<>> THEN subs
        ELSE [subs EXCEPT !.cursor = InBounds(at, subs.slots)]

Deliver_FirstOnly(subs, terminal) ==
    IF subs.slots = <<>> THEN subs
    ELSE IF terminal THEN [slots |-> SwapRemove(subs.slots, 1), cursor |-> 0]
    ELSE subs

Deliver_CursorKept(subs, terminal) ==
    LET at == NextSlot(subs)
    IN  IF subs.slots = <<>> THEN subs
        ELSE IF terminal
             THEN [slots |-> SwapRemove(subs.slots, at), cursor |-> at]
             ELSE [subs EXCEPT !.cursor = at]

Deliver(subs, terminal) ==
    LET at == NextSlot(subs)
        slots == IF terminal THEN SwapRemove(subs.slots, at) ELSE subs.slots
        cursor == IF terminal THEN at - 1 ELSE at
    IN  IF subs.slots = <<>>
        THEN subs
        ELSE [slots |-> slots, cursor |-> InBounds(cursor, slots)]

Prune_Removes(subs, closed) ==
    [subs EXCEPT !.slots = SelectSeq(@, LAMBDA sender : sender \notin closed)]

\* prune_closed_subscribers, on one handle: the senders whose stream is gone
\* are released and their slots kept.
Prune(subs, closed) ==
    [subs EXCEPT !.slots =
        [k \in DOMAIN @ |-> IF @[k] \in closed THEN NoRequest ELSE @[k]]]

=============================================================================
