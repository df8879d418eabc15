--------------------------- MODULE StreamChannel ---------------------------
(***************************************************************************)
(* What a thread queue promises for each of its streams, whatever the      *)
(* other streams do: the items come out in the order they went in, each    *)
(* one once; the receiver is told of the end only when the sender is done  *)
(* and nothing is left, and at most once; only the receiver's own wish to  *)
(* end the stream drops anything.                                          *)
(***************************************************************************)
EXTENDS Sequences

CONSTANT Items
VARIABLES buf, sender, receiver

chan == <<buf, sender, receiver>>

ChannelInit == buf = <<>> /\ sender = "open" /\ receiver = "open"

Put ==
    /\ sender = "open" /\ receiver = "open"
    /\ \E x \in Items : buf' = Append(buf, x)
    /\ UNCHANGED <<sender, receiver>>

Get ==
    /\ buf # <<>> /\ receiver = "open"
    /\ buf' = Tail(buf)
    /\ UNCHANGED <<sender, receiver>>

Close ==
    /\ sender = "open" /\ sender' = "closed"
    /\ UNCHANGED <<buf, receiver>>

End ==
    /\ sender = "closed" /\ buf = <<>> /\ receiver = "open"
    /\ receiver' = "ended"
    /\ UNCHANGED <<buf, sender>>

Leave ==
    /\ receiver = "open" /\ receiver' = "gone"
    /\ buf' = <<>>
    /\ UNCHANGED sender

ChannelSpec == ChannelInit /\ [][Put \/ Get \/ Close \/ End \/ Leave]_chan
=============================================================================
