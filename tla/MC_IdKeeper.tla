---------------------------- MODULE MC_IdKeeper ----------------------------
(***************************************************************************)
(* An agent sends two bundles created in the same second while a pipeline *)
(* stage on another goroutine emits a status report from the same node.   *)
(***************************************************************************)
EXTENDS IdKeeper

MCScript ==
    [p \in Procs |->
        IF p = "agent" THEN << [src |-> "self", time |-> 1], [src |-> "self", time |-> 1] >>
        ELSE << [src |-> "self", time |-> 1] >>]
=============================================================================
