-------------------------- MODULE MC_TcpclSessTerm --------------------------
(***************************************************************************)
(* Walks through every SESS_TERM message over the given octets and every   *)
(* length at which its encoding may be cut.                                *)
(***************************************************************************)
EXTENDS TcpclSessTerm

VARIABLES stm, cut


Init == stm \in Messages /\ cut = 3

\* Take the next message, complete.
NextMessage == \E m \in Messages : stm' = m /\ cut' = 3

\* Cut the current message's encoding one octet shorter.
Truncate == cut > 0 /\ cut' = cut - 1 /\ UNCHANGED stm

Spec == Init /\ [][NextMessage \/ Truncate]_<<stm, cut>>

\* MarshalBinary and UnmarshalBinary are inverse, and a truncated SESS_TERM
\* is refused.
SessTermRoundTrip == SessTermCodecCorrect(stm, cut)
=============================================================================
