------------------------------ MODULE BlockWalk ------------------------------
(***************************************************************************)
(* The loop of Core.receive (src/unnamed/part_000, lines 57-89) that walks *)
(* a received bundle's canonical blocks from the highest index down and    *)
(* handles every block of an unknown type by its block control flags:      *)
(* report it, delete the whole bundle, or excise the block.  A block is    *)
(* abstracted to its four relevant bits.                                   *)
(***************************************************************************)
EXTENDS Naturals, Sequences, SequencesExt

\* A canonical block as far as the walk tells blocks apart: is the block
\* type known (isKnownBlockType), and the three block control flags
\* StatusReportBlock, DeleteBundle and RemoveBlock.
Block == [known : BOOLEAN, report : BOOLEAN, delete : BOOLEAN, remove : BOOLEAN]

\* One iteration of the loop body at index i.  The state st holds the
\* remaining blocks, the number of ReceivedBundle/BlockUnintelligible status
\* reports sent so far, and whether bundleDeletion was called (the loop then
\* returns at once).
WalkStep(st, i) ==
    LET cb == st.blocks[i] IN
    IF cb.known THEN st
    ELSE LET reported == st.reports + (IF cb.report THEN 1 ELSE 0) IN
         IF cb.delete
         THEN [st EXCEPT !.reports = reported, !.deleted = TRUE]
         ELSE [st EXCEPT !.reports = reported,
                         !.blocks = IF cb.remove THEN RemoveAt(st.blocks, i)
                                                 ELSE st.blocks]

\* for i := len(CanonicalBlocks) - 1; i >= 0; i-- { ... } with the early
\* return after bundleDeletion.
RECURSIVE WalkFrom(_, _)
WalkFrom(st, i) ==
    IF i = 0 \/ st.deleted THEN st
    ELSE WalkFrom(WalkStep(st, i), i - 1)

\* A loop that walks upwards instead: after an excision at i the block that
\* moved into slot i is skipped.  Kept to show that the reference check below
\* tells the two orders apart.
RECURSIVE WalkUpFrom(_, _)
WalkUpFrom(st, i) ==
    IF i > Len(st.blocks) \/ st.deleted THEN st
    ELSE WalkUpFrom(WalkStep(st, i), i + 1)

ReceiveWalkUpwards(blocks) ==
    WalkUpFrom([blocks |-> blocks, reports |-> 0, deleted |-> FALSE], 1)

ReceiveWalk(blocks) ==
    WalkFrom([blocks |-> blocks, reports |-> 0, deleted |-> FALSE], Len(blocks))

-----------------------------------------------------------------------------
(* Reference: what the walk is meant to compute, stated without a loop.    *)
(* The spec (section 4.5, receive step 4) asks for the reverse order so    *)
(* that in-place removals do not shift unvisited entries.                  *)
(***************************************************************************)
Unknown(cb) == ~cb.known

\* Indices of unknown blocks that request deletion of the bundle.
DeleteIdx(blocks) == {i \in 1..Len(blocks) : Unknown(blocks[i]) /\ blocks[i].delete}

\* The walk stops at the highest such index; everything above it is visited.
Visited(blocks) ==
    IF DeleteIdx(blocks) = {} THEN 1..Len(blocks)
    ELSE {i \in 1..Len(blocks) : i >= Max(DeleteIdx(blocks))}

RefReports(blocks) ==
    Cardinality({i \in Visited(blocks) : Unknown(blocks[i]) /\ blocks[i].report})

RefKept(blocks) ==
    SelectSeq(blocks, LAMBDA cb : ~(Unknown(cb) /\ cb.remove))

\* The loop agrees with the reference on a bundle's canonical blocks bs:
\* the same number of BlockUnintelligible reports, the same deletion
\* decision, and, when the bundle survives, exactly the unknown blocks
\* flagged "remove" excised and every other block kept in order.
WalkMatchesReference(bs) ==
    LET r == ReceiveWalk(bs) IN
    /\ r.deleted = (DeleteIdx(bs) # {})
    /\ r.reports = RefReports(bs)
    /\ ~r.deleted => r.blocks = RefKept(bs)
=============================================================================
