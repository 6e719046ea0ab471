--------------------------- MODULE MCChannelNotify ---------------------------
(* The playlist of a channel is replaced or deleted, while a new channel takes it
   in, or the channel drops it, or is deleted. *)
EXTENDS ChannelNotify, TLC
CONSTANTS r1, r2, c1, c2, p1

MCOps ==
    (r1 :> {[do |-> "write playlist", of |-> p1], [do |-> "delete playlist", of |-> p1]})
 @@ (r2 :> {[do |-> "write channel", of |-> c1, members |-> {p1}],
            [do |-> "write channel", of |-> c2, members |-> {}],
            [do |-> "delete channel", of |-> c2]})

MCStart == c2 :> {p1}

Symmetry == Permutations(Clients)
=============================================================================
