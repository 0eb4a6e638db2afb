----------------------------- MODULE MCGateAgent -----------------------------
(* Instances of GateAgent for TLC. *)
EXTENDS GateAgent, TLC

Passages == { [plate |-> p, direction |-> d, review |-> FALSE] : p \in Plate, d \in {"IN", "OUT"} }
Entries  == { [plate |-> p, direction |-> "IN", review |-> FALSE] : p \in Plate }

(* Passages, and one that nobody can read. *)
AnyPassage == Passages \cup { [plate |-> NoPlate, direction |-> "IN", review |-> TRUE] }

(* What the backend knows of the plates: all are welcome. *)
Welcome    == [allowed |-> Plate, left |-> [p \in Plate |-> 9], restricted |-> {}]
OneSnapshot  == {Welcome}

Symmetry == Permutations(Event \ Malformed) \cup Permutations(Handler) \cup Permutations(Uploader)
=============================================================================
