------------------------------ MODULE IdKeeper ------------------------------
(***************************************************************************)
(* The start of Core.transmit (src/unnamed/part_000 lines 18-24):          *)
(* c.idKeeper.update(bp.Bundle), AddConstraint(DispatchPending) and        *)
(* store.Push, called concurrently by every goroutine that originates a    *)
(* bundle: agents through SendBundle, and every pipeline stage that emits  *)
(* a status report (a report is a bundle sent through transmit, spec       *)
(* section 4.6).  What follows the Push is the dispatching modelled in     *)
(* Processing.                                                             *)
(*                                                                         *)
(* The IdKeeper's code is not part of the repository's sources; it is     *)
(* modelled from spec section 4.2: a map from source endpoint to the       *)
(* highest sequence issued, and update assigns the next sequence if and    *)
(* only if the bundle's sequence collides with one already seen.  The      *)
(* spec gives the map no lock (it names one for the store and the sender   *)
(* registry only), so update reads the map and writes it in two steps.  A  *)
(* Go map accessed that way is a data race: the outcome is either a lost   *)
(* update or the runtime's fatal "concurrent map writes" error.            *)
(***************************************************************************)
EXTENDS Integers, Sequences, Functions, TLC

CONSTANTS
    Procs,      \* goroutines calling transmit
    Script,     \* Script[p]: the bundles p transmits, as [src, time]
    Sources,    \* source endpoints of bundles originated here
    Times       \* creation times (DTN seconds) of those bundles

\* The sequence number of a new bundle: NewCreationTimestamp(t, 0).
InitialSeq == 0

\* No entry for a source in the IdKeeper's map.
Absent == -1

ASSUME Script \in [Procs -> Seq([src : Sources, time : Times])]

VARIABLES
    highest,   \* highest[src]: highest sequence issued for src, or Absent
    pc,        \* pc[p]: "idle", "write" (map read), "push" (update done)
    next,      \* next[p]: index of p's current transmit in Script[p]
    read,      \* read[p]: highest[src] as p's update read it
    seq,       \* seq[p]: the sequence of p's bundle after update
    store,     \* store[id]: the goroutine and call whose pack is stored at id
    pushed,    \* the identities transmit pushed, in order
    fatal      \* the Go runtime aborted on concurrent map access

vars == <<highest, pc, next, read, seq, store, pushed, fatal>>

\* The bundle p is transmitting.
Cur(p) == Script[p][next[p]]

\* The store's key: the bundle identity (source, creation time, sequence);
\* the fragment fields are zero for these unfragmented bundles.
Identity(p) == [src |-> Cur(p).src, time |-> Cur(p).time, seq |-> seq[p]]

\* IdKeeper.update: a sequence collides if it is not above the highest one
\* issued for the source; a colliding bundle gets the next sequence.
Collides(h, s) == h # Absent /\ s <= h

Updated(h, s) == IF Collides(h, s) THEN h + 1 ELSE s

\* Some other goroutine is inside update.
OtherUpdating(p) == \E q \in Procs \ {p} : pc[q] = "write"

Init ==
    /\ highest = [s \in Sources |-> Absent]
    /\ pc = [p \in Procs |-> "idle"]
    /\ next = [p \in Procs |-> 1]
    /\ read = [p \in Procs |-> Absent]
    /\ seq = [p \in Procs |-> InitialSeq]
    /\ store = << >>
    /\ pushed = << >>
    /\ fatal = FALSE

\* transmit, idKeeper.update first half: look up the source in the map.
UpdateRead(p) ==
    /\ ~fatal
    /\ pc[p] = "idle"
    /\ next[p] <= Len(Script[p])
    /\ read' = [read EXCEPT ![p] = highest[Cur(p).src]]
    /\ seq' = [seq EXCEPT ![p] = InitialSeq]
    /\ pc' = [pc EXCEPT ![p] = "write"]
    /\ UNCHANGED <<highest, next, store, pushed, fatal>>

\* idKeeper.update second half: set the bundle's sequence and record it as
\* the source's highest, from what was read.  While another goroutine is
\* inside update the runtime may instead abort the process.
UpdateWrite(p) ==
    LET s == Updated(read[p], seq[p]) IN
    /\ ~fatal
    /\ pc[p] = "write"
    /\ \/ /\ seq' = [seq EXCEPT ![p] = s]
          /\ highest' = [highest EXCEPT ![Cur(p).src] = s]
          /\ pc' = [pc EXCEPT ![p] = "push"]
          /\ UNCHANGED fatal
       \/ /\ OtherUpdating(p)
          /\ fatal' = TRUE
          /\ UNCHANGED <<seq, highest, pc>>
    /\ UNCHANGED <<next, read, store, pushed>>

\* bp.AddConstraint(DispatchPending); c.store.Push(bp): upsert by identity,
\* the last writer wins.  The call goes on to dispatching (Processing).
PushPack(p) ==
    /\ ~fatal
    /\ pc[p] = "push"
    /\ store' = (Identity(p) :> <<p, next[p]>>) @@ store
    /\ pushed' = Append(pushed, Identity(p))
    /\ pc' = [pc EXCEPT ![p] = "idle"]
    /\ next' = [next EXCEPT ![p] = @ + 1]
    /\ UNCHANGED <<highest, read, seq, fatal>>

\* All transmits are done, or the process aborted.
Done ==
    /\ fatal \/ \A p \in Procs : pc[p] = "idle" /\ next[p] > Len(Script[p])
    /\ UNCHANGED vars

Next ==
    \/ \E p \in Procs : UpdateRead(p) \/ UpdateWrite(p) \/ PushPack(p)
    \/ Done

Spec == Init /\ [][Next]_vars
-----------------------------------------------------------------------------
\* Spec section 8, identity-uniqueness after IdKeeper: every bundle that
\* transmit pushes has an identity no earlier transmit pushed, so no Push
\* of a locally originated bundle overwrites another one's pack in the
\* store (Store.Push is an upsert by identity).
IdentitiesUnique == IsInjective(pushed)
=============================================================================
