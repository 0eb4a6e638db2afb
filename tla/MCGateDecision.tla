--------------------------- MODULE MCGateDecision ---------------------------
(* Instances of GateDecision for TLC. *)
EXTENDS GateDecision, TLC

Read(p, d, rev, tag) == [plate |-> p, direction |-> d, review |-> rev, tagged |-> tag]

(* Clean readings of every plate, both ways, without a device id. *)
CleanPayload == { Read(p, d, FALSE, FALSE) : p \in Plate, d \in {"IN", "OUT"} }

(* Clean readings, and readings that need review. *)
ReviewPayload == CleanPayload \cup { Read(p, d, TRUE, FALSE) : p \in Plate, d \in {"IN", "OUT"} }
AnyPayload == ReviewPayload \cup { Read(NoPlate, "IN", TRUE, FALSE) }

(* Readings by clients that name their device. *)
TaggedPayload == { Read(p, d, FALSE, TRUE) : p \in Plate, d \in {"IN", "OUT"} }

AllRuleActions == {"deny", "refer_to_guard", "allow_with_warning"}

Symmetry == Permutations(Request) \cup Permutations(Event)
=============================================================================
