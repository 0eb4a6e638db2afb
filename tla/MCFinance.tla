------------------------------ MODULE MCFinance ------------------------------
(***************************************************************************)
(* An instance of Finance for TLC, with two parts that do not meet:        *)
(*   race    up to three requests at once over one session, one payment    *)
(*           reference and small amounts, any of which may die midway;     *)
(*   serial  one request at a time, none of which dies, over two sessions, *)
(*           two references and larger amounts.                            *)
(***************************************************************************)
EXTENDS FinanceHistory, TLC

CONSTANTS FirstSession, FirstReference

VARIABLE part

(* One plate, and violations that cost two. *)
OnePlate == [x \in Session \cup Violation |-> CHOOSE p \in Plate : TRUE]
Two == [v \in Violation |-> 2]

Symmetry == Permutations(Request)

PartInit == HistInit /\ part \in {"race", "serial"}

(* Only the first session and reference; amounts of one and two. *)
Racing ==
  /\ \A s \in Session \ {FirstSession} : session[s] = None
  /\ \A r \in Request :
       /\ tx[r].on \notin (Session \cup Reference) \ {FirstSession, FirstReference}
       /\ tx[r].amount <= 2
  /\ \A a \in Adjustment : adjustment[a].amount <= 1

(* One request at a time; amounts of one and three, waivers of two. *)
Queued ==
  /\ Apart
  /\ \A r \in Request : pc[r] # "failed" /\ (tx[r].kind \in {"pay", "exit"} => tx[r].amount # 2)
  /\ \A a \in Adjustment : adjustment[a].amount # 1

PartNext ==
  /\ HistNext
  /\ part' = part
  /\ IF part = "race" THEN Racing' ELSE Queued'

PartSpec == PartInit /\ [][PartNext]_<<HistVars, part>>
=============================================================================
