--------------------------- MODULE BundleLifecycle ---------------------------
(***************************************************************************)
(* What the processing pipeline promises about each bundle it stores      *)
(* (spec section 2, item 7): a bundle becomes known with dispatch pending, *)
(* moves on to forwarding or straight to a terminal state, a forwarded     *)
(* bundle ends delivered/deleted or contraindicated, and a contraindicated *)
(* bundle can still be released by a delivery report.  Nothing ever moves  *)
(* backwards.  Several bundles may move in one step: handling a status     *)
(* report releases its subject while the report itself is delivered.       *)
(***************************************************************************)
CONSTANT Bundles

VARIABLE phase

Phases == {"unknown", "dispatch", "forward", "contraindicated", "done"}

\* The forward moves of a single bundle.
Moves ==
    { <<"unknown", "dispatch">>,
      <<"dispatch", "forward">>, <<"dispatch", "done">>,
      <<"forward", "contraindicated">>, <<"forward", "done">>,
      <<"contraindicated", "done">> }

Init == phase = [b \in Bundles |-> "unknown"]

\* Some bundles each make one forward move; the others stay where they are.
Next ==
    /\ phase' # phase
    /\ \A b \in Bundles :
        phase'[b] = phase[b] \/ <<phase[b], phase'[b]>> \in Moves

Spec == Init /\ [][Next]_phase
=============================================================================
