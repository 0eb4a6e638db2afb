------------------------------- MODULE Finance -------------------------------
(***************************************************************************)
(* The money of the parking: payments, exits, adjustments, violations and  *)
(* appeals, which share the rows of table charges (modules finance,        *)
(* violations and ops of the backend, and the exit branch of the gate      *)
(* decision).                                                              *)
(*                                                                         *)
(* As in GateDecision a request is a transaction at READ COMMITTED, and    *)
(* its steps are what it does between points at which another gets in.     *)
(* Handlers read a row, change the object in memory and leave the writing  *)
(* to SQLAlchemy.  The next query flushes the change before it runs: from  *)
(* there on the request holds the lock of that row, and reads what others  *)
(* committed before.  What it reads after its last flush it writes back    *)
(* at the commit, whatever happened to the row in between.  Only changed   *)
(* columns are written.                                                    *)
(***************************************************************************)
EXTENDS Integers, FiniteSets, FiniteSetsExt

CONSTANTS
  Request,       (* Calls of the handlers, each runs once.  A request names *)
                 (* the payment or the charge it creates.                   *)
  Plate, NoPlate,
  Session,       (* Parking sessions.                                       *)
  Violation,
  PlateOf,       (* The plate of a session or a violation.                  *)
  Penalty,       (* The penalty of a violation's type.                      *)
  Appeal,
  Adjustment,
  Reference,     (* Reference numbers of payments.                          *)
  Amounts,       (* Amounts of payments and of parking.                     *)
  Waivers,       (* Amounts of adjustments.                                 *)
  MaxInFlight,   (* Requests in progress at the same time.                  *)
  MayFail        (* Whether a request may die before it answers.            *)

None == "NONE"
Kinds == {"pay", "exit", "approve", "confirm", "cancel", "review"}
ChargeStatus == {"UNPAID", "PAID", "VOIDED"}
ViolationStatus == {"REGISTERED", "CONFIRMED", "CANCELLED", "ACTIVE"}

ASSUME FinanceAssumption ==
  /\ None \notin Session \cup Violation \cup Reference \cup Appeal \cup Adjustment \cup Request
  /\ Session \cap Violation = {}
  /\ NoPlate \notin Plate
  /\ PlateOf \in [Session \cup Violation -> Plate]
  /\ Penalty \in [Violation -> Nat]
  /\ Amounts \subseteq Nat
  /\ Waivers \subseteq Int
  /\ IsFiniteSet(Request) /\ IsFiniteSet(Adjustment)
  /\ MaxInFlight \in Nat \ {0}
  /\ MayFail \in BOOLEAN

VARIABLES
  charge,      (* Of the request that made it: what it is for, the amount,  *)
               (* paid_amount and the status, NONE if there is no such row. *)
  payment,     (* Of the request that made it: reference, plate, amount.    *)
  alloc,       (* payment_allocations: what of a payment went to a charge.  *)
  session,     (* NONE, OPEN, or once closed its payment_status.            *)
  violation,   (* The status of each violation.                             *)
  appeal,      (* Its violation and its status.                             *)
  adjustment,  (* Its charge, amount and status.                            *)
  pc,          (* Where each request is: it has asked, holds the row of an  *)
               (* appeal, or is ready to commit.                            *)
  tx           (* Its local variables, pending writes and locked rows.      *)

tables == <<charge, payment, alloc, session, violation, appeal, adjustment>>
vars == <<tables, pc, tx>>

Subject == Session \cup Violation
NoCharge == [about |-> None, amount |-> 0, paid |-> 0, status |-> None]
NoPayment == [ref |-> None, plate |-> NoPlate, amount |-> 0]
Nothing == [x \in Request |-> 0]

(* A transaction: paid has the new paid_amount of the charges in touched,  *)
(* marks their new status or NONE; share is what a payment gives to each   *)
(* charge, or an exit takes from each payment.                             *)
Blank == [kind |-> None, on |-> None, plate |-> NoPlate, amount |-> 0, share |-> Nothing,
          touched |-> {}, paid |-> Nothing, marks |-> [c \in Request |-> None],
          adds |-> FALSE, target |-> None, result |-> None, rows |-> {}]

Init ==
  /\ charge = [r \in Request |-> NoCharge]
  /\ payment = [r \in Request |-> NoPayment]
  /\ alloc = [p \in Request |-> Nothing]
  /\ session = [s \in Session |-> None]
  /\ violation = [v \in Violation |-> None]
  /\ appeal = [a \in Appeal |-> [violation |-> None, status |-> None]]
  /\ adjustment = [a \in Adjustment |-> [charge |-> None, amount |-> 0, status |-> None]]
  /\ pc = [r \in Request |-> "idle"]
  /\ tx = [r \in Request |-> Blank]

-----------------------------------------------------------------------------
(***************************************************************************)
(* Requests and their transactions.                                        *)
(***************************************************************************)
Busy == { r \in Request : pc[r] \in {"asked", "appeal", "ready"} }

Begin(r, t) ==
  /\ pc[r] = "idle"
  /\ Cardinality(Busy) < MaxInFlight
  /\ pc' = [pc EXCEPT ![r] = "asked"]
  /\ tx' = [tx EXCEPT ![r] = t]
  /\ UNCHANGED tables

(* The locks of a request, taken when it flushes a changed or a new row.   *)
Free(r, row) == \A q \in Request \ {r} : row \notin tx[q].rows

Flush(r, row, step, t) ==
  /\ Free(r, row)
  /\ pc' = [pc EXCEPT ![r] = step]
  /\ tx' = [tx EXCEPT ![r] = [t EXCEPT !.rows = @ \cup {row}]]
  /\ UNCHANGED tables

(* Mutant of Rest: the connection goes back with its locks. *)
RestHolding(r) == [Blank EXCEPT !.rows = tx[r].rows]

Rest(r) == Blank

Ends(r) ==
  /\ pc' = [pc EXCEPT ![r] = "done"]
  /\ tx' = [tx EXCEPT ![r] = Rest(r)]

Asked(r, kind) == pc[r] = "asked" /\ tx[r].kind = kind
Ready(r, kind) == pc[r] = "ready" /\ tx[r].kind = kind

(* The charges as the unit of work leaves them: a charge written back by r *)
(* gets the values r has computed from what it read.                       *)
Written(r) ==
  [c \in Request |->
    [charge[c] EXCEPT !.paid = IF c \in tx[r].touched THEN tx[r].paid[c] ELSE @,
                      !.status = IF tx[r].marks[c] # None THEN tx[r].marks[c] ELSE @]]

Outstanding(c) == IF charge[c].paid < charge[c].amount THEN charge[c].amount - charge[c].paid ELSE 0

SumOf(f, S) == MapThenSumSet(LAMBDA x : f[x], S)
Total(f) == SumOf(f, Request)
Least(a, b) == IF a < b THEN a ELSE b

(* share fills the capacities one after the other, in some order, until    *)
(* the amount is used up.                                                  *)
Fills(share, capacity, amount) ==
  /\ \A x \in Request : share[x] <= capacity[x]
  /\ Total(share) = Least(amount, Total(capacity))
  /\ Cardinality({ x \in Request : 0 < share[x] /\ share[x] < capacity[x] }) <= 1

-----------------------------------------------------------------------------
(***************************************************************************)
(* POST /payments.                                                         *)
(***************************************************************************)
Paid(ref) == \E p \in Request : payment[p].ref = ref

Pay(r, ref, plate, amount) ==
  /\ amount > 0
  /\ Begin(r, [Blank EXCEPT !.kind = "pay", !.on = ref, !.plate = plate, !.amount = amount])

(* The reference is known: the answer is the payment made before.  So it   *)
(* is if the unique index finds it at the flush.                           *)
PaymentKnown(r) ==
  /\ Asked(r, "pay")
  /\ Paid(tx[r].on)
  /\ Ends(r)
  /\ UNCHANGED tables

(* UNPAID charges of the plate, or of everyone; parking comes first.       *)
Payable(plate) ==
  { c \in Request : /\ charge[c].status = "UNPAID"
                    /\ plate = NoPlate \/ PlateOf[charge[c].about] = plate }

ParkingFirst(share, due) ==
  \A c, d \in Request :
    charge[c].about \in Session /\ charge[d].about \in Violation /\ share[d] > 0 => share[c] = due[c]

Allocate(t, share, due) ==
  [t EXCEPT !.share = share,
            !.touched = { c \in Request : share[c] > 0 },
            !.paid = [c \in Request |-> charge[c].paid + share[c]],
            !.marks = [c \in Request |-> IF share[c] > 0 /\ share[c] = due[c] THEN "PAID" ELSE None]]

(* Mutant of Unique: the reference has no unique index. *)
NotUnique(ref) == TRUE

Unique(ref) == ~Paid(ref)

InsertPayment(r) ==
  LET t == tx[r]
      due == [c \in Request |-> IF c \in Payable(t.plate) THEN Outstanding(c) ELSE 0] IN
  /\ Asked(r, "pay")
  /\ Unique(t.on)
  /\ \E share \in [Request -> 0..t.amount] :
       /\ Fills(share, due, t.amount)
       /\ t.plate # NoPlate => ParkingFirst(share, due)
       /\ Flush(r, t.on, "ready", Allocate(t, share, due))

CommitPayment(r) ==
  /\ Ready(r, "pay")
  /\ payment' = [payment EXCEPT ![r] = [ref |-> tx[r].on, plate |-> tx[r].plate, amount |-> tx[r].amount]]
  /\ alloc' = [alloc EXCEPT ![r] = tx[r].share]
  /\ charge' = Written(r)
  /\ Ends(r)
  /\ UNCHANGED <<session, violation, appeal, adjustment>>

-----------------------------------------------------------------------------
(***************************************************************************)
(* The exit of a vehicle: close_session_amounts, settle_exit.              *)
(***************************************************************************)
(* An entry; a plate has one open session.                                 *)
Enter(s) ==
  /\ session[s] = None
  /\ \A o \in Session : session[o] = "OPEN" => PlateOf[o] # PlateOf[s]
  /\ session' = [session EXCEPT ![s] = "OPEN"]
  /\ UNCHANGED <<charge, payment, alloc, violation, appeal, adjustment, pc, tx>>

(* What the tariff makes of the duration is a choice.                      *)
Exit(r, s, amount) ==
  /\ session[s] = "OPEN"
  /\ Begin(r, [Blank EXCEPT !.kind = "exit", !.on = s, !.amount = amount])

(* Mutant of Credit: what earlier exits took of a payment is forgotten. *)
WholePayment(p) == payment[p].amount

Credit(p) == payment[p].amount - Total(alloc[p])

(* The query of the tariff flushes the session.  Payments of the plate     *)
(* within the grace period give what is left of them to the new charge.    *)
SettleExit(r) ==
  LET t == tx[r]
      own == { p \in Request : payment[p].plate = PlateOf[t.on] } IN
  /\ Asked(r, "exit")
  /\ \E recent \in SUBSET own, share \in [Request -> 0..t.amount] :
       /\ Fills(share, [p \in Request |-> IF p \in recent /\ Credit(p) > 0 THEN Credit(p) ELSE 0], t.amount)
       /\ Flush(r, t.on, "ready", [t EXCEPT !.share = share])

CommitExit(r) ==
  LET t == tx[r] IN
  /\ Ready(r, "exit")
  /\ \E taken \in 0..t.amount :
       LET settled == IF taken < t.amount THEN "UNPAID" ELSE "PAID" IN
       /\ taken = Total(t.share)
       /\ charge' = IF t.amount = 0 THEN charge
                    ELSE [charge EXCEPT ![r] = [about |-> t.on, amount |-> t.amount, paid |-> taken,
                                                status |-> settled]]
       /\ session' = [session EXCEPT ![t.on] = IF t.amount = 0 THEN "FREE" ELSE settled]
  /\ alloc' = [p \in Request |-> [alloc[p] EXCEPT ![r] = t.share[p]]]
  /\ Ends(r)
  /\ UNCHANGED <<payment, violation, appeal, adjustment>>

-----------------------------------------------------------------------------
(***************************************************************************)
(* Financial adjustments.                                                  *)
(***************************************************************************)
Adjust(a, c, amount) ==
  /\ adjustment[a].status = None
  /\ charge[c].status # None
  /\ adjustment' = [adjustment EXCEPT ![a] = [charge |-> c, amount |-> amount, status |-> "PENDING"]]
  /\ UNCHANGED <<charge, payment, alloc, session, violation, appeal, pc, tx>>

(* A settled adjustment is refused; so may be one's own, by the policy.    *)
Approve(r, a) ==
  /\ adjustment[a].status = "PENDING"
  /\ Begin(r, [Blank EXCEPT !.kind = "approve", !.on = a])

(* The query of the charge flushes the adjustment. *)

(* Mutant of Credited: the credit is not capped by the amount. *)
Uncapped(c, amount) == charge[c].paid + amount

Credited(c, amount) == Least(charge[c].amount, charge[c].paid + amount)

CreditCharge(r) ==
  LET t == tx[r]
      c == adjustment[t.on].charge
      paid == Credited(c, adjustment[t.on].amount) IN
  /\ Asked(r, "approve")
  /\ Flush(r, t.on, "ready",
       IF charge[c].status # "UNPAID" THEN t
       ELSE [t EXCEPT !.touched = {c}, !.paid[c] = paid,
                      !.marks[c] = IF paid < charge[c].amount THEN None ELSE "PAID"])

CommitApproval(r) ==
  /\ Ready(r, "approve")
  /\ adjustment' = [adjustment EXCEPT ![tx[r].on].status = "APPROVED"]
  /\ charge' = Written(r)
  /\ Ends(r)
  /\ UNCHANGED <<payment, alloc, session, violation, appeal>>

-----------------------------------------------------------------------------
(***************************************************************************)
(* Violations.                                                             *)
(***************************************************************************)
Enrol(v, status) ==
  /\ violation[v] = None
  /\ violation' = [violation EXCEPT ![v] = status]
  /\ UNCHANGED <<charge, payment, alloc, session, appeal, adjustment, pc, tx>>

(* POST /violations; a client_ref sent again is answered as a duplicate.   *)
Register(v) == Enrol(v, "REGISTERED")

(* /ops/fine registers a violation as ACTIVE, a status no transition leads *)
(* away from, and keeps no amount of it.                                   *)
Fine(v) == Enrol(v, "ACTIVE")

(* Mutant of Transitions: a cancelled violation can be confirmed after all. *)
TransitionsBack(status) ==
  CASE status \in {"REGISTERED", "CANCELLED"} -> {"CONFIRMED", "CANCELLED"}
    [] status = "CONFIRMED"  -> {"CANCELLED"}
    [] OTHER -> {}

(* VIOLATION_TRANSITIONS. *)
Transitions(status) ==
  CASE status = "REGISTERED" -> {"CONFIRMED", "CANCELLED"}
    [] status = "CONFIRMED"  -> {"CANCELLED"}
    [] OTHER -> {}

(* The charges of a violation. *)
Of(v) == { c \in Request : charge[c].about = v }

Confirm(r, v) ==
  /\ "CONFIRMED" \in Transitions(violation[v])
  /\ Begin(r, [Blank EXCEPT !.kind = "confirm", !.on = v, !.target = v])

(* The query of the charge flushes the violation first. *)

(* Mutant of Charges: the violation is charged again. *)
ChargesAnyway(v) == Penalty[v] > 0

Charges(v) == Of(v) = {} /\ Penalty[v] > 0

LockToConfirm(r) ==
  /\ Asked(r, "confirm")
  /\ Flush(r, tx[r].on, "ready", [tx[r] EXCEPT !.adds = Charges(tx[r].on)])

CommitConfirm(r) ==
  LET v == tx[r].target IN
  /\ Ready(r, "confirm")
  /\ violation' = [violation EXCEPT ![v] = "CONFIRMED"]
  /\ charge' = IF tx[r].adds
               THEN [charge EXCEPT ![r] = [about |-> v, amount |-> Penalty[v], paid |-> 0, status |-> "UNPAID"]]
               ELSE charge
  /\ Ends(r)
  /\ UNCHANGED <<payment, alloc, session, appeal, adjustment>>

(* Cancelling voids the charge of the violation, unless it is paid.        *)
Cancel(r, v) ==
  /\ "CANCELLED" \in Transitions(violation[v])
  /\ Begin(r, [Blank EXCEPT !.kind = "cancel", !.on = v, !.target = v])

(* _void_unpaid_charge: the charge as the request reads it, once it holds  *)
(* the violation.                                                          *)
First(v) == IF Of(v) = {} THEN {None} ELSE Of(v)

(* Mutant of Voids: a charge that has been paid in part is left alone. *)
VoidsUntouched(c) == charge[c].status = "UNPAID" /\ charge[c].paid = 0

Voids(c) == charge[c].status = "UNPAID"

LockToCancel(r) ==
  /\ Asked(r, "cancel") \/ pc[r] = "appeal"
  /\ \E c \in First(tx[r].target) :
       Flush(r, tx[r].target, "ready",
             IF c = None \/ ~Voids(c) THEN tx[r] ELSE [tx[r] EXCEPT !.marks[c] = "VOIDED"])

CommitCancel(r) ==
  /\ Ready(r, "cancel")
  /\ violation' = [violation EXCEPT ![tx[r].target] = "CANCELLED"]
  /\ charge' = Written(r)
  /\ Ends(r)
  /\ UNCHANGED <<payment, alloc, session, appeal, adjustment>>

(***************************************************************************)
(* Appeals.  An appeal filed while its violation is being cancelled        *)
(* decides nothing, so the check and the insertion are one step.           *)
(***************************************************************************)
Cancellable == {"REGISTERED", "CONFIRMED"}

Submit(a, v) ==
  /\ appeal[a].status = None
  /\ violation[v] \in {"REGISTERED", "CONFIRMED"}
  /\ appeal' = [appeal EXCEPT ![a] = [violation |-> v, status |-> "SUBMITTED"]]
  /\ UNCHANGED <<charge, payment, alloc, session, violation, adjustment, pc, tx>>

Review(r, a, result) ==
  /\ appeal[a].status = "SUBMITTED"
  /\ Begin(r, [Blank EXCEPT !.kind = "review", !.on = a, !.result = result])

(* An accepted appeal cancels its violation; the query of the violation    *)
(* flushes the appeal, the query of the charge then flushes the violation. *)
LockAppeal(r) ==
  LET v == appeal[tx[r].on].violation IN
  /\ Asked(r, "review")
  /\ IF tx[r].result = "ACCEPTED" /\ violation[v] \in Cancellable
     THEN Flush(r, tx[r].on, "appeal", [tx[r] EXCEPT !.target = v])
     ELSE Flush(r, tx[r].on, "ready", tx[r])

CommitReview(r) ==
  LET t == tx[r] IN
  /\ Ready(r, "review")
  /\ appeal' = [appeal EXCEPT ![t.on].status = t.result]
  /\ violation' = [v \in Violation |-> IF v = t.target THEN "CANCELLED" ELSE violation[v]]
  /\ charge' = Written(r)
  /\ Ends(r)
  /\ UNCHANGED <<payment, alloc, session, adjustment>>

-----------------------------------------------------------------------------
(* A request dies, or its client goes away: its transaction is rolled back. *)
Fail(r) ==
  /\ MayFail
  /\ r \in Busy
  /\ pc' = [pc EXCEPT ![r] = "failed"]
  /\ tx' = [tx EXCEPT ![r] = Blank]
  /\ UNCHANGED tables

Ask(r) ==
  \/ \E ref \in Reference, p \in Plate \cup {NoPlate}, n \in Amounts : Pay(r, ref, p, n)
  \/ \E s \in Session, n \in Amounts : Exit(r, s, n)
  \/ \E a \in Adjustment : Approve(r, a)
  \/ \E v \in Violation : Confirm(r, v) \/ Cancel(r, v)
  \/ \E a \in Appeal, d \in {"ACCEPTED", "REJECTED"} : Review(r, a, d)

Work(r) ==
  \/ PaymentKnown(r) \/ InsertPayment(r) \/ CommitPayment(r)
  \/ SettleExit(r) \/ CommitExit(r)
  \/ CreditCharge(r) \/ CommitApproval(r)
  \/ LockToConfirm(r) \/ CommitConfirm(r)
  \/ LockToCancel(r) \/ CommitCancel(r)
  \/ LockAppeal(r) \/ CommitReview(r)

Next ==
  \/ \E r \in Request : Ask(r) \/ Work(r) \/ Fail(r)
  \/ \E s \in Session : Enter(s)
  \/ \E v \in Violation : Register(v) \/ Fine(v)
  \/ \E a \in Appeal, v \in Violation : Submit(a, v)
  \/ \E a \in Adjustment, c \in Request, n \in Waivers : Adjust(a, c, n)

Spec == Init /\ [][Next]_vars

-----------------------------------------------------------------------------
(***************************************************************************)
(* Correctness.                                                            *)
(***************************************************************************)
ChargeRow == [about : Subject \cup {None}, amount : Nat, paid : Int, status : ChargeStatus \cup {None}]
PaymentRow == [ref : Reference \cup {None}, plate : Plate \cup {NoPlate}, amount : Nat]
AppealRow == [violation : Violation \cup {None}, status : {None, "SUBMITTED", "ACCEPTED", "REJECTED"}]
AdjustmentRow == [charge : Request \cup {None}, amount : Int, status : {None, "PENDING", "APPROVED"}]
Transaction ==
  [kind : Kinds \cup {None},
   on : Reference \cup Session \cup Adjustment \cup Violation \cup Appeal \cup {None},
   plate : Plate \cup {NoPlate}, amount : Nat, share : [Request -> Nat],
   touched : SUBSET Request, paid : [Request -> Int],
   marks : [Request -> {"PAID", "VOIDED", None}], adds : BOOLEAN,
   target : Violation \cup {None}, result : {"ACCEPTED", "REJECTED", None},
   rows : SUBSET (Reference \cup Session \cup Adjustment \cup Violation \cup Appeal)]

(* The type invariant; a request at rest holds no row and has no writes.   *)
TypeOK ==
  /\ charge \in [Request -> ChargeRow]
  /\ payment \in [Request -> PaymentRow]
  /\ alloc \in [Request -> [Request -> Nat]]
  /\ session \in [Session -> {None, "OPEN", "FREE", "UNPAID", "PAID"}]
  /\ violation \in [Violation -> ViolationStatus \cup {None}]
  /\ appeal \in [Appeal -> AppealRow]
  /\ adjustment \in [Adjustment -> AdjustmentRow]
  /\ pc \in [Request -> {"idle", "asked", "appeal", "ready", "done", "failed"}]
  /\ tx \in [Request -> Transaction]
  /\ \A r \in Request \ Busy : tx[r] = Blank

(* However many operators confirm a violation at once, it is charged once: *)
(* the second finds the charge, because its own flush has waited for the   *)
(* first to commit.                                                        *)
OneChargePerViolation == \A v \in Violation : Cardinality(Of(v)) <= 1

(* A cancelled violation leaves no debt, whether it is cancelled or an     *)
(* appeal is accepted, and whatever is confirmed, paid or waived meanwhile. *)
CancelledOwesNothing ==
  \A v \in Violation : violation[v] = "CANCELLED" =>
    \A c \in Of(v) : charge[c].status # "UNPAID"

(* A payment sent again, even at the same time, is recorded once.          *)
OnePaymentPerReference ==
  \A p, q \in Request : payment[p].ref = payment[q].ref /\ payment[p].ref # None => p = q

(* The exits of one session, however many run at once, do not take more    *)
(* from a payment than it has left.                                        *)
Settles(s) == { c \in Request : charge[c].about \in Violation \cup {s} }

CreditSpentOnce ==
  \A p \in Request, s \in Session :
    payment[p].ref # None => SumOf(alloc[p], Settles(s)) <= payment[p].amount

(* What holds of requests that do not overlap (see FinanceHistory), and    *)
(* only of those: the amounts read are written back without a lock.        *)
Received(c) == Total([p \in Request |-> alloc[p][c]])
Waiving(c) == { a \in Adjustment : adjustment[a].charge = c /\ adjustment[a].status = "APPROVED" }
Waived(c) == SumOf([a \in Adjustment |-> adjustment[a].amount], Waiving(c))

(* paid_amount is what payments and waivers have given to the charge, at   *)
(* most its amount; it is PAID exactly when nothing is outstanding, and    *)
(* whoever has left as PAID owes nothing for the stay.                     *)
BooksBalance ==
  \A c \in Request : charge[c].status # None =>
    /\ Received(c) <= charge[c].paid
    /\ charge[c].paid <= Least(charge[c].amount, Received(c) + Waived(c))
    /\ charge[c].status = "PAID" <=> Outstanding(c) = 0
    /\ \A s \in Session : charge[c].about = s /\ session[s] = "PAID" => charge[c].status = "PAID"

(* No payment gives more than it is worth, when it is made and at the exits *)
(* that use what is left of it.                                            *)
PaymentsCovered == \A p \in Request : Total(alloc[p]) <= payment[p].amount

(* Amounts paid, waived and outstanding agree, and no payment gives more   *)
(* than it is worth.                                                       *)
BooksAgree == BooksBalance /\ PaymentsCovered

(* A confirmed violation with a penalty has a charge that is not void.     *)
ConfirmedIsCharged ==
  \A v \in Violation : violation[v] = "CONFIRMED" /\ Penalty[v] > 0 =>
    \E c \in Of(v) : charge[c].amount = Penalty[v] /\ charge[c].status # "VOIDED"

(* An accepted appeal has cancelled its violation, for good.               *)
AcceptedMeansCancelled ==
  \A a \in Appeal : appeal[a].status = "ACCEPTED" => violation[appeal[a].violation] = "CANCELLED"

(* The books follow the verdicts.                                          *)
VerdictsBooked == ConfirmedIsCharged /\ AcceptedMeansCancelled

(* VIOLATION_TRANSITIONS knows no way out of CANCELLED.                    *)
CancelledIsTerminal ==
  [][\A v \in Violation : violation[v] = "CANCELLED" => violation'[v] = "CANCELLED"]_vars
=============================================================================
