--------------------------- MODULE BoundedChannels ---------------------------
(***************************************************************************)
(* What a channel with slack promises (lib/channel.h, ch_newl): messages   *)
(* arrive once each and in the order sent, and a send is over only when    *)
(* all but slack of the messages sent have been received.  Without slack   *)
(* sender and receiver meet.                                               *)
(***************************************************************************)
EXTENDS Integers, Sequences, SequencesExt

CONSTANT Chan
VARIABLES slack, in, done, out   \* per channel: messages offered, sends that are over, messages received
bcvars == <<slack, in, done, out>>

Within(c) == /\ IsPrefix(out'[c], in'[c])
             /\ done'[c] \in (Len(in'[c]) - 1)..Len(in'[c])
             /\ done'[c] <= Len(out'[c]) + slack[c]

Init == /\ in = [c \in Chan |-> <<>>] /\ out = [c \in Chan |-> <<>>]
        /\ done = [c \in Chan |-> 0]

\* At most one message is offered, one send ends, one message arrives, all
\* on one channel.
Step(c) == /\ Within(c) /\ UNCHANGED slack
           /\ IsPrefix(in[c], in'[c])  /\ Len(in'[c]) <= Len(in[c]) + 1
           /\ IsPrefix(out[c], out'[c]) /\ Len(out'[c]) <= Len(out[c]) + 1
           /\ done'[c] \in done[c]..(done[c] + 1)
           /\ \A d \in Chan \ {c} : in'[d] = in[d] /\ out'[d] = out[d] /\ done'[d] = done[d]

Next == \E c \in Chan : Step(c)
Spec == Init /\ [][Next]_bcvars
=============================================================================
