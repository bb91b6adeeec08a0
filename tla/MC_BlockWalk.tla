---------------------------- MODULE MC_BlockWalk ----------------------------
(***************************************************************************)
(* Enumerates every canonical-block sequence of up to MaxBlocks blocks, one *)
(* appended block per step, and checks the receive loop against the        *)
(* reference on each of them.                                              *)
(***************************************************************************)
EXTENDS BlockWalk

CONSTANT MaxBlocks

VARIABLE bs


Init == bs = <<>>

\* Append one more block to the input.
Grow == Len(bs) < MaxBlocks /\ \E cb \in Block : bs' = Append(bs, cb)

\* Start over with an empty block list once the bound is reached.
Restart == Len(bs) = MaxBlocks /\ bs' = <<>>

Next == Grow \/ Restart

Spec == Init /\ [][Next]_bs

\* The reverse walk of Core.receive removes exactly the unknown blocks that
\* request removal, reports exactly the visited unknown blocks that request
\* a report, and stops at the highest unknown block requesting deletion.
ReverseWalkCorrect == WalkMatchesReference(bs)
=============================================================================
