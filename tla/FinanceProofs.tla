---------------------------- MODULE FinanceProofs ----------------------------
(***************************************************************************)
(* Theorems about Finance, for every value of its constants: any number of *)
(* requests, sessions, violations, appeals, payments and adjustments; and  *)
(* about the price of a stay (Tariff), for every policy, hour and length.  *)
(***************************************************************************)
EXTENDS FinanceHistory, Tariff, FiniteSetTheorems, WellFoundedInduction, TLAPS

-----------------------------------------------------------------------------
(***************************************************************************)
(* The invariant.                                                          *)
(***************************************************************************)
(* What a request of each kind is about, and the rows that must exist      *)
(* because the request has seen them.                                      *)
KindTrue(t, step) ==
  /\ t.kind = "pay" => t.on \in Reference
  /\ t.kind = "exit" => t.on \in Session
  /\ t.kind = "approve" => t.on \in Adjustment /\ adjustment[t.on].status # None
  /\ t.kind \in {"confirm", "cancel"} => t.on = t.target /\ t.target \in Violation
  /\ t.kind = "review" => /\ t.on \in Appeal /\ appeal[t.on].status # None
                          /\ t.result # None
                          /\ step = "asked" => t.target = None
  /\ t.kind \in {"pay", "exit", "approve"} => t.target = None
  /\ step = "appeal" => t.kind = "review" /\ t.target \in Violation

RequestsTrue ==
  /\ \A a \in Appeal : appeal[a].status # None => appeal[a].violation \in Violation
  /\ \A a \in Adjustment : adjustment[a].status # None => adjustment[a].charge \in Request
  /\ \A r \in Request : KindTrue(tx[r], pc[r])

(* No two requests hold one row, and a request that is about to change a   *)
(* violation or to record a payment holds the row or the reference.        *)
LocksHeld ==
  /\ \A q, r \in Request : q # r => tx[q].rows \cap tx[r].rows = {}
  /\ \A r \in Request : pc[r] = "ready" =>
       /\ tx[r].target # None => tx[r].target \in tx[r].rows
       /\ tx[r].kind = "pay" => tx[r].on \in tx[r].rows

(* What a request has read of the charges of its violation, or of the      *)
(* payments with its reference, still holds when it commits.               *)
ReadTrue(t) ==
  /\ t.kind = "confirm" /\ t.adds => Of(t.target) = {}
  /\ t.kind \in {"cancel", "review"} /\ t.target # None =>
       \A c \in Of(t.target) : charge[c].status = "UNPAID" => t.marks[c] = "VOIDED"
  /\ t.kind = "pay" => ~Paid(t.on)

ReadsHold == \A r \in Request : pc[r] = "ready" => ReadTrue(tx[r])

OneEach ==
  \A c, d \in Request : charge[c].about \in Violation /\ charge[c].about = charge[d].about => c = d

Inv == /\ TypeOK /\ RequestsTrue /\ LocksHeld /\ ReadsHold
       /\ OneEach /\ CancelledOwesNothing /\ OnePaymentPerReference

-----------------------------------------------------------------------------
(***************************************************************************)
(* Type correctness.                                                       *)
(***************************************************************************)
Moving == {"asked", "appeal", "ready"}
Steps == {"idle", "asked", "appeal", "ready", "done", "failed"}

TablesType ==
  /\ charge \in [Request -> ChargeRow]
  /\ payment \in [Request -> PaymentRow]
  /\ alloc \in [Request -> [Request -> Nat]]
  /\ session \in [Session -> {None, "OPEN", "FREE", "UNPAID", "PAID"}]
  /\ violation \in [Violation -> ViolationStatus \cup {None}]
  /\ appeal \in [Appeal -> AppealRow]
  /\ adjustment \in [Adjustment -> AdjustmentRow]

RequestsType ==
  /\ pc \in [Request -> Steps]
  /\ tx \in [Request -> Transaction]
  /\ \A r \in Request : pc[r] \notin Moving => tx[r] = Blank

LEMMA TypeParts == TypeOK <=> TablesType /\ RequestsType
BY DEF TypeOK, TablesType, RequestsType, Busy, Moving, Steps

LEMMA TypePartsNext == TablesType' /\ RequestsType' => TypeOK'
BY DEF TypeOK, TablesType, RequestsType, Busy, Moving, Steps

LEMMA BlankType == Blank \in Transaction
BY DEF Blank, Transaction, Nothing, None, Kinds

(* A request moves on with a well-typed transaction, or ends with none.    *)
LEMMA MovesType ==
  ASSUME RequestsType, NEW r \in Request, NEW step \in Moving, NEW t \in Transaction,
         pc' = [pc EXCEPT ![r] = step], tx' = [tx EXCEPT ![r] = t]
  PROVE  RequestsType'
BY DEF RequestsType, Moving, Steps

LEMMA EndsType ==
  ASSUME RequestsType, NEW r \in Request, NEW step \in {"done", "failed"},
         pc' = [pc EXCEPT ![r] = step], tx' = [tx EXCEPT ![r] = Blank]
  PROVE  RequestsType'
BY BlankType DEF RequestsType, Moving, Steps

LEMMA WrittenType ==
  ASSUME TypeOK, NEW r \in Request
  PROVE  Written(r) \in [Request -> ChargeRow]
<1> SUFFICES ASSUME NEW c \in Request
             PROVE  [charge[c] EXCEPT !.paid = IF c \in tx[r].touched THEN tx[r].paid[c] ELSE @,
                                      !.status = IF tx[r].marks[c] # None THEN tx[r].marks[c] ELSE @]
                    \in ChargeRow
  BY DEF Written
<1>1. charge[c] \in ChargeRow /\ tx[r] \in Transaction
  BY DEF TypeOK
<1>2. tx[r].paid[c] \in Int /\ tx[r].marks[c] \in {"PAID", "VOIDED", None}
  BY <1>1 DEF Transaction
<1> QED BY <1>1, <1>2 DEF ChargeRow, ChargeStatus

(* The steps that commit.                                                  *)
LEMMA CommitsType ==
  ASSUME TypeOK, RequestsTrue, NEW r \in Request,
         CommitPayment(r) \/ CommitExit(r) \/ CommitApproval(r) \/ CommitConfirm(r)
           \/ CommitCancel(r) \/ CommitReview(r)
  PROVE  TypeOK'
<1> USE FinanceAssumption
<1>0. /\ TablesType /\ RequestsType
      /\ tx[r] \in Transaction
      /\ Written(r) \in [Request -> ChargeRow]
  BY TypeParts, WrittenType DEF TypeOK
<1>1. RequestsType'
  BY <1>0, EndsType DEF CommitPayment, CommitExit, CommitApproval, CommitConfirm, CommitCancel,
                        CommitReview, Ends, Rest
<1>2. CASE CommitPayment(r)
  <2>1. [ref |-> tx[r].on, plate |-> tx[r].plate, amount |-> tx[r].amount] \in PaymentRow
    BY <1>0, <1>2 DEF CommitPayment, Ready, RequestsTrue, KindTrue, Transaction, PaymentRow
  <2>2. tx[r].share \in [Request -> Nat]
    BY <1>0 DEF Transaction
  <2> QED BY <1>0, <1>1, <1>2, <2>1, <2>2, TypePartsNext DEF CommitPayment, TablesType
<1>3. CASE CommitExit(r)
  <2>1. tx[r].on \in Session /\ tx[r].share \in [Request -> Nat] /\ tx[r].amount \in Nat
    BY <1>0, <1>3 DEF CommitExit, Ready, RequestsTrue, KindTrue, Transaction
  <2>2. PICK taken \in 0..tx[r].amount :
          LET settled == IF taken < tx[r].amount THEN "UNPAID" ELSE "PAID" IN
          /\ charge' = IF tx[r].amount = 0 THEN charge
                       ELSE [charge EXCEPT ![r] = [about |-> tx[r].on, amount |-> tx[r].amount,
                                                   paid |-> taken, status |-> settled]]
          /\ session' = [session EXCEPT ![tx[r].on] = IF tx[r].amount = 0 THEN "FREE" ELSE settled]
    BY <1>3 DEF CommitExit
  <2>3. \A status \in {"UNPAID", "PAID"} :
          [about |-> tx[r].on, amount |-> tx[r].amount, paid |-> taken, status |-> status] \in ChargeRow
    BY <2>1 DEF ChargeRow, Subject, ChargeStatus
  <2>4. charge' \in [Request -> ChargeRow] /\ session' \in [Session -> {None, "OPEN", "FREE", "UNPAID", "PAID"}]
    BY <1>0, <2>1, <2>2, <2>3 DEF TablesType
  <2>5. alloc' \in [Request -> [Request -> Nat]]
    BY <1>0, <1>3, <2>1 DEF CommitExit, TablesType
  <2> QED BY <1>0, <1>1, <1>3, <2>4, <2>5, TypePartsNext DEF CommitExit, TablesType
<1>4. CASE CommitApproval(r)
  <2>1. tx[r].on \in Adjustment
    BY <1>4 DEF CommitApproval, Ready, RequestsTrue, KindTrue
  <2>2. [adjustment[tx[r].on] EXCEPT !.status = "APPROVED"]
          \in AdjustmentRow
    <3>1. adjustment[tx[r].on] \in AdjustmentRow
      BY <1>0, <2>1 DEF TablesType
    <3> QED BY <3>1 DEF AdjustmentRow
  <2>3. adjustment' \in [Adjustment -> AdjustmentRow]
    BY <1>0, <1>4, <2>1, <2>2 DEF CommitApproval, TablesType
  <2> QED BY <1>0, <1>1, <1>4, <2>3, TypePartsNext DEF CommitApproval, TablesType
<1>5. CASE CommitConfirm(r)
  <2>1. tx[r].target \in Violation
    BY <1>5 DEF CommitConfirm, Ready, RequestsTrue, KindTrue
  <2>2. [about |-> tx[r].target, amount |-> Penalty[tx[r].target], paid |-> 0, status |-> "UNPAID"] \in ChargeRow
    BY <2>1 DEF ChargeRow, Subject, ChargeStatus
  <2> QED BY <1>0, <1>1, <1>5, <2>2, TypePartsNext DEF CommitConfirm, TablesType, ViolationStatus
<1>6. CASE CommitCancel(r)
  BY <1>0, <1>1, <1>6, TypePartsNext DEF CommitCancel, TablesType, ViolationStatus
<1>7. CASE CommitReview(r)
  <2>1. tx[r].result \in {"ACCEPTED", "REJECTED", None}
    BY <1>0 DEF Transaction
  <2>2. violation' \in [Violation -> ViolationStatus \cup {None}]
    BY <1>0, <1>7 DEF CommitReview, TablesType, ViolationStatus
  <2>3. tx[r].on \in Appeal
    BY <1>7 DEF CommitReview, Ready, RequestsTrue, KindTrue
  <2>4. [appeal[tx[r].on] EXCEPT !.status = tx[r].result]
          \in AppealRow
    <3>1. appeal[tx[r].on] \in AppealRow
      BY <1>0, <2>3 DEF TablesType
    <3> QED BY <2>1, <3>1 DEF AppealRow
  <2>5. appeal' \in [Appeal -> AppealRow]
    BY <1>0, <1>7, <2>3, <2>4 DEF CommitReview, TablesType
  <2> QED BY <1>0, <1>1, <1>7, <2>2, <2>5, TypePartsNext DEF CommitReview, TablesType
<1> QED BY <1>2, <1>3, <1>4, <1>5, <1>6, <1>7

(* The steps of operators, and those that end a request without a write.   *)
LEMMA OthersType ==
  ASSUME TypeOK,
         \/ \E r \in Request : PaymentKnown(r) \/ Fail(r)
         \/ \E s \in Session : Enter(s)
         \/ \E v \in Violation : Register(v) \/ Fine(v)
         \/ \E a \in Appeal, v \in Violation : Submit(a, v)
         \/ \E a \in Adjustment, c \in Request, n \in Waivers : Adjust(a, c, n)
  PROVE  TypeOK'
<1> USE FinanceAssumption
<1>0. TablesType /\ RequestsType
  BY TypeParts
<1>1. ASSUME NEW r \in Request, PaymentKnown(r) \/ Fail(r)
      PROVE  TypeOK'
  BY <1>0, <1>1, EndsType, TypePartsNext DEF PaymentKnown, Fail, Ends, Rest, tables, TablesType
<1>2. ASSUME NEW s \in Session, Enter(s)
      PROVE  TypeOK'
  BY <1>0, <1>2, TypePartsNext DEF Enter, TablesType, RequestsType
<1>3. ASSUME NEW v \in Violation, Register(v) \/ Fine(v)
      PROVE  TypeOK'
  BY <1>0, <1>3, TypePartsNext DEF Register, Fine, Enrol, TablesType, RequestsType, ViolationStatus
<1>4. ASSUME NEW a \in Appeal, NEW v \in Violation, Submit(a, v)
      PROVE  TypeOK'
  BY <1>0, <1>4, TypePartsNext DEF Submit, TablesType, RequestsType, AppealRow
<1>5. ASSUME NEW a \in Adjustment, NEW c \in Request, NEW n \in Waivers, Adjust(a, c, n)
      PROVE  TypeOK'
  BY <1>0, <1>5, TypePartsNext DEF Adjust, TablesType, RequestsType, AdjustmentRow
<1> QED BY <1>1, <1>2, <1>3, <1>4, <1>5

-----------------------------------------------------------------------------
(***************************************************************************)
(* Requests are what they seem.                                            *)
(***************************************************************************)
(* A step of one request, which takes no appeal and no adjustment away.    *)
LEMMA KindMoves ==
  ASSUME TypeOK, RequestsTrue, NEW r \in Request, NEW step, NEW t,
         pc' = [pc EXCEPT ![r] = step], tx' = [tx EXCEPT ![r] = t],
         KindTrue(t, step), UNCHANGED <<appeal, adjustment>>
  PROVE  RequestsTrue'
BY DEF TypeOK, RequestsTrue, KindTrue

LEMMA KindEnds ==
  ASSUME TypeOK, RequestsTrue, NEW r \in Request, NEW step \in {"done", "failed"},
         pc' = [pc EXCEPT ![r] = step], tx' = [tx EXCEPT ![r] = Blank],
         \A a \in Appeal : appeal[a].status # None =>
           appeal'[a].status # None /\ appeal'[a].violation = appeal[a].violation,
         \A a \in Appeal : appeal[a].status = None => appeal'[a].status = None,
         \A a \in Adjustment : adjustment[a].status # None =>
           adjustment'[a].status # None /\ adjustment'[a].charge = adjustment[a].charge,
         \A a \in Adjustment : adjustment[a].status = None => adjustment'[a].status = None
  PROVE  RequestsTrue'
<1>1. \A q \in Request : pc'[q] = IF q = r THEN step ELSE pc[q]
  BY DEF TypeOK
<1>2. \A q \in Request : tx'[q] = IF q = r THEN Blank ELSE tx[q]
  BY DEF TypeOK
<1>3. KindTrue(Blank, step)'
  BY DEF KindTrue, Blank, None
<1>4. ASSUME NEW q \in Request, q # r
      PROVE  KindTrue(tx[q], pc[q])'
  BY <1>1, <1>2, <1>4 DEF RequestsTrue, KindTrue
<1> QED BY <1>1, <1>2, <1>3, <1>4 DEF RequestsTrue

(* The steps that begin a request.                                         *)
Fresh(t) == t.touched = {} /\ \A c \in Request : t.marks[c] = None
Begun(r, t) == Begin(r, t) /\ t.rows = {} /\ Fresh(t) /\ KindTrue(t, "asked")

LEMMA AskForm ==
  ASSUME Inv, NEW r \in Request, Ask(r)
  PROVE  \E t \in Transaction : Begun(r, t)
<1> USE FinanceAssumption, BlankType
<1>1. ASSUME NEW ref \in Reference, NEW p \in Plate \cup {NoPlate}, NEW n \in Amounts, Pay(r, ref, p, n)
      PROVE  \E t \in Transaction : Begun(r, t)
  <2> DEFINE t == [Blank EXCEPT !.kind = "pay", !.on = ref, !.plate = p, !.amount = n]
  <2>1. t \in Transaction /\ t.rows = {} /\ Fresh(t) /\ KindTrue(t, "asked")
    BY DEF Fresh, Transaction, Kinds, KindTrue, Blank, None
  <2> QED BY <1>1, <2>1 DEF Pay, Begun
<1>2. ASSUME NEW s \in Session, NEW n \in Amounts, Exit(r, s, n)
      PROVE  \E t \in Transaction : Begun(r, t)
  <2> DEFINE t == [Blank EXCEPT !.kind = "exit", !.on = s, !.amount = n]
  <2>1. t \in Transaction /\ t.rows = {} /\ Fresh(t) /\ KindTrue(t, "asked")
    BY DEF Fresh, Transaction, Kinds, KindTrue, Blank, None
  <2> QED BY <1>2, <2>1 DEF Exit, Begun
<1>3. ASSUME NEW a \in Adjustment, Approve(r, a)
      PROVE  \E t \in Transaction : Begun(r, t)
  <2> DEFINE t == [Blank EXCEPT !.kind = "approve", !.on = a]
  <2>1. t \in Transaction /\ t.rows = {} /\ Fresh(t)
    BY DEF Fresh, Transaction, Kinds, Blank
  <2>2. KindTrue(t, "asked")
    BY <1>3 DEF Approve, KindTrue, Blank, None
  <2> QED BY <1>3, <2>1, <2>2 DEF Approve, Begun
<1>4. ASSUME NEW v \in Violation, Confirm(r, v) \/ Cancel(r, v)
      PROVE  \E t \in Transaction : Begun(r, t)
  <2> DEFINE t(kind) == [Blank EXCEPT !.kind = kind, !.on = v, !.target = v]
  <2>1. \A kind \in {"confirm", "cancel"} :
          t(kind) \in Transaction /\ t(kind).rows = {} /\ KindTrue(t(kind), "asked")
    BY DEF Transaction, Kinds, KindTrue, Blank, None
  <2>2. \A kind \in {"confirm", "cancel"} : Fresh(t(kind))
    BY DEF Fresh, Blank
  <2> QED BY <1>4, <2>1, <2>2 DEF Confirm, Cancel, Begun
<1>5. ASSUME NEW a \in Appeal, NEW d \in {"ACCEPTED", "REJECTED"}, Review(r, a, d)
      PROVE  \E t \in Transaction : Begun(r, t)
  <2> DEFINE t == [Blank EXCEPT !.kind = "review", !.on = a, !.result = d]
  <2>1. t \in Transaction /\ t.rows = {} /\ Fresh(t)
    BY DEF Fresh, Transaction, Kinds, Blank
  <2>2. KindTrue(t, "asked")
    BY <1>5 DEF Review, KindTrue, Blank, None
  <2> QED BY <1>5, <2>1, <2>2 DEF Review, Begun
<1> QED BY <1>1, <1>2, <1>3, <1>4, <1>5 DEF Ask

(***************************************************************************)
(* The steps that flush: what they have in common.                         *)
(***************************************************************************)
Rows == Reference \cup Session \cup Adjustment \cup Violation \cup Appeal

Flushes(r) == \/ InsertPayment(r) \/ SettleExit(r) \/ CreditCharge(r)
              \/ LockToConfirm(r) \/ LockToCancel(r) \/ LockAppeal(r)

(* The request locks one more row; if it is ready then, it holds what it   *)
(* is going to change, and has just read what it relies on.                *)
Flushed(r, row, step, t) ==
  /\ Flush(r, row, step, t)
  /\ t.rows = tx[r].rows /\ t.kind = tx[r].kind /\ t.on = tx[r].on
  /\ KindTrue(t, step)
  /\ step = "ready" => /\ t.target # None => t.target = row
                       /\ t.kind = "pay" => t.on = row
                       /\ ReadTrue(t)

LEMMA FlushForm ==
  ASSUME Inv, NEW r \in Request, Flushes(r)
  PROVE  \E row \in Rows, step \in {"appeal", "ready"}, t \in Transaction : Flushed(r, row, step, t)
<1> USE FinanceAssumption
<1> USE DEF Rows
<1>0. /\ tx[r] \in Transaction /\ charge \in [Request -> ChargeRow] /\ tx[r].amount \in Nat
      /\ KindTrue(tx[r], pc[r])
  BY DEF Inv, TypeOK, Transaction, RequestsTrue
<1>1. CASE InsertPayment(r)
  <2> DEFINE due == [c \in Request |-> IF c \in Payable(tx[r].plate) THEN Outstanding(c) ELSE 0]
  <2>1. PICK share \in [Request -> 0..tx[r].amount] :
               Flush(r, tx[r].on, "ready", Allocate(tx[r], share, due))
    BY <1>1 DEF InsertPayment
  <2>2. tx[r].on \in Reference /\ tx[r].kind = "pay" /\ tx[r].target = None /\ ~Paid(tx[r].on)
    BY <1>0, <1>1 DEF InsertPayment, Asked, KindTrue, Unique
  <2>3. [c \in Request |-> charge[c].paid + share[c]] \in [Request -> Int]
    BY <1>0 DEF ChargeRow
  <2>4. /\ { c \in Request : share[c] > 0 } \in SUBSET Request
        /\ [c \in Request |-> IF share[c] > 0 /\ share[c] = due[c] THEN "PAID" ELSE None]
              \in [Request -> {"PAID", "VOIDED", None}]
        /\ share \in [Request -> Nat]
    BY <1>0
  <2> HIDE DEF due
  <2> DEFINE t == Allocate(tx[r], share, due)
  <2>5. t \in Transaction
    BY <1>0, <2>3, <2>4 DEF Allocate, Transaction
  <2>6. t.kind = "pay" /\ t.on = tx[r].on /\ t.target = None /\ t.rows = tx[r].rows
    BY <1>0, <2>2 DEF Allocate, Transaction
  <2> HIDE DEF t
  <2>7. KindTrue(t, "ready") /\ ReadTrue(t)
    BY <2>2, <2>6 DEF KindTrue, ReadTrue
  <2> QED BY <2>1, <2>2, <2>5, <2>6, <2>7 DEF Flushed, t
<1>2. CASE SettleExit(r)
  <2>1. PICK share \in [Request -> 0..tx[r].amount] :
               Flush(r, tx[r].on, "ready", [tx[r] EXCEPT !.share = share])
    BY <1>2 DEF SettleExit
  <2>2. tx[r].on \in Session /\ tx[r].kind = "exit" /\ tx[r].target = None
    BY <1>0, <1>2 DEF SettleExit, Asked, KindTrue
  <2> DEFINE t == [tx[r] EXCEPT !.share = share]
  <2>3. /\ t \in Transaction
        /\ t.kind = "exit" /\ t.on = tx[r].on /\ t.target = None /\ t.rows = tx[r].rows
    BY <1>0, <2>2 DEF Transaction
  <2> HIDE DEF t
  <2>4. KindTrue(t, "ready") /\ ReadTrue(t)
    BY <2>2, <2>3 DEF KindTrue, ReadTrue
  <2> QED BY <2>1, <2>2, <2>3, <2>4 DEF Flushed, t
<1>3. CASE CreditCharge(r)
  <2> DEFINE c == adjustment[tx[r].on].charge
             paid == Credited(c, adjustment[tx[r].on].amount)
             t == IF charge[c].status # "UNPAID" THEN tx[r]
                  ELSE [tx[r] EXCEPT !.touched = {c}, !.paid[c] = paid,
                                     !.marks[c] = IF paid < charge[c].amount THEN None ELSE "PAID"]
  <2>1. /\ tx[r].on \in Adjustment /\ c \in Request /\ adjustment[tx[r].on].status # None
        /\ tx[r].kind = "approve" /\ tx[r].target = None
    BY <1>0, <1>3 DEF CreditCharge, Asked, Inv, RequestsTrue, KindTrue
  <2>2. adjustment[tx[r].on].amount \in Int /\ charge[c].amount \in Int /\ charge[c].paid \in Int
    BY <1>0, <2>1 DEF Inv, TypeOK, ChargeRow, AdjustmentRow
  <2>3. paid \in Int
    BY <2>2 DEF Credited, Least
  <2>4. Flush(r, tx[r].on, "ready", t)
    BY <1>3 DEF CreditCharge
  <2> HIDE DEF c, paid
  <2>5. t \in Transaction
    <3>1. /\ [tx[r].paid EXCEPT ![c] = paid] \in [Request -> Int]
          /\ [tx[r].marks EXCEPT ![c] = IF paid < charge[c].amount THEN None ELSE "PAID"]
                \in [Request -> {"PAID", "VOIDED", None}]
      BY <1>0, <2>1, <2>3 DEF Transaction
    <3>2. CASE charge[c].status = "UNPAID"
      <4>1. t = [tx[r] EXCEPT !.touched = {c}, !.paid[c] = paid,
                              !.marks[c] = IF paid < charge[c].amount THEN None ELSE "PAID"]
        BY <3>2
      <4> HIDE DEF t
      <4> QED BY <1>0, <2>1, <2>3, <3>1, <4>1 DEF Transaction
    <3>3. CASE charge[c].status # "UNPAID"
      BY <1>0, <3>3
    <3> QED BY <3>2, <3>3
  <2>6. t.kind = "approve" /\ t.on = tx[r].on /\ t.target = None /\ t.rows = tx[r].rows
    BY <1>0, <2>1 DEF Transaction
  <2> HIDE DEF t
  <2>7. KindTrue(t, "ready") /\ ReadTrue(t)
    BY <2>1, <2>6 DEF KindTrue, ReadTrue
  <2> QED BY <2>1, <2>4, <2>5, <2>6, <2>7 DEF Flushed
<1>4. CASE LockToConfirm(r)
  <2>1. tx[r].on \in Violation /\ tx[r].kind = "confirm" /\ tx[r].target = tx[r].on
    BY <1>0, <1>4 DEF LockToConfirm, Asked, KindTrue
  <2> DEFINE t == [tx[r] EXCEPT !.adds = Charges(tx[r].on)]
  <2>2. /\ t \in Transaction
        /\ t.kind = "confirm" /\ t.on = tx[r].on /\ t.target = tx[r].on /\ t.rows = tx[r].rows
        /\ t.adds => Of(tx[r].on) = {}
    BY <1>0, <2>1 DEF Transaction, Charges
  <2>3. Flush(r, tx[r].on, "ready", t)
    BY <1>4 DEF LockToConfirm
  <2> HIDE DEF t
  <2>4. KindTrue(t, "ready") /\ ReadTrue(t)
    BY <2>1, <2>2 DEF KindTrue, ReadTrue
  <2> QED BY <2>1, <2>2, <2>3, <2>4 DEF Flushed
<1>5. CASE LockToCancel(r)
  <2>1. tx[r].target \in Violation /\ tx[r].kind \in {"cancel", "review"} /\ KindTrue(tx[r], "ready")
    BY <1>0, <1>5 DEF LockToCancel, Asked, KindTrue
  <2>2. PICK c \in First(tx[r].target) :
          Flush(r, tx[r].target, "ready",
                IF c = None \/ ~Voids(c) THEN tx[r] ELSE [tx[r] EXCEPT !.marks[c] = "VOIDED"])
    BY <1>5 DEF LockToCancel
  <2> DEFINE t == IF c = None \/ ~Voids(c) THEN tx[r] ELSE [tx[r] EXCEPT !.marks[c] = "VOIDED"]
  <2>3. c \in Request \cup {None}
    BY <2>2 DEF First, Of
  <2>4. /\ t \in Transaction
        /\ t.kind = tx[r].kind /\ t.on = tx[r].on /\ t.target = tx[r].target /\ t.rows = tx[r].rows
        /\ t.result = tx[r].result
    BY <1>0, <2>3 DEF Transaction
  <2>5. \A d \in Of(t.target) : charge[d].status = "UNPAID" => t.marks[d] = "VOIDED"
    <3> SUFFICES ASSUME NEW d \in Of(tx[r].target), charge[d].status = "UNPAID"
                 PROVE  t.marks[d] = "VOIDED"
      BY <2>4
    <3>1. c = d /\ d \in Request
      BY <2>1, <2>2 DEF First, Of, Inv, OneEach
    <3> QED BY <1>0, <3>1 DEF Voids, Transaction
  <2> HIDE DEF t
  <2>6. KindTrue(t, "ready")
    BY <2>1, <2>4 DEF KindTrue
  <2>7. ReadTrue(t)
    BY <2>1, <2>4, <2>5 DEF ReadTrue
  <2>8. Flush(r, tx[r].target, "ready", t)
    BY <2>2 DEF t
  <2> QED BY <2>1, <2>4, <2>6, <2>7, <2>8 DEF Flushed
<1>6. CASE LockAppeal(r)
  <2> DEFINE v == appeal[tx[r].on].violation
             t == [tx[r] EXCEPT !.target = v]
  <2>1. /\ tx[r].on \in Appeal /\ v \in Violation /\ appeal[tx[r].on].status # None
        /\ tx[r].kind = "review" /\ tx[r].result # None /\ tx[r].target = None
    BY <1>0, <1>6 DEF LockAppeal, Asked, Inv, RequestsTrue, KindTrue
  <2>2. /\ t \in Transaction
        /\ t.kind = "review" /\ t.on = tx[r].on /\ t.target = v /\ t.rows = tx[r].rows
        /\ t.result = tx[r].result
    BY <1>0, <2>1 DEF Transaction
  <2> HIDE DEF t, v
  <2>3. KindTrue(t, "appeal") /\ KindTrue(tx[r], "ready") /\ ReadTrue(tx[r])
    BY <2>1, <2>2 DEF KindTrue, ReadTrue
  <2>4. Flush(r, tx[r].on, "appeal", t) \/ Flush(r, tx[r].on, "ready", tx[r])
    BY <1>6 DEF LockAppeal, t, v
  <2> QED BY <1>0, <2>1, <2>2, <2>3, <2>4 DEF Flushed
<1> QED BY <1>1, <1>2, <1>3, <1>4, <1>5, <1>6 DEF Flushes

(* A step that leaves the tables alone and moves one request on, to a      *)
(* transaction u: a request that begins, or that flushes.                  *)
LEMMA MoveInv ==
  ASSUME Inv, NEW r \in Request, NEW step \in Moving, NEW u \in Transaction,
         pc' = [pc EXCEPT ![r] = step], tx' = [tx EXCEPT ![r] = u], UNCHANGED tables,
         KindTrue(u, step),
         \A q \in Request \ {r} : tx[q].rows \cap u.rows = {},
         step = "ready" => /\ u.target # None => u.target \in u.rows
                           /\ u.kind = "pay" => u.on \in u.rows
                           /\ ReadTrue(u)
  PROVE  Inv'
<1>1. \A q \in Request : pc'[q] = IF q = r THEN step ELSE pc[q]
  BY DEF Inv, TypeOK
<1>2. \A q \in Request : tx'[q] = IF q = r THEN u ELSE tx[q]
  BY DEF Inv, TypeOK
<1>3. TypeOK'
  BY MovesType, TypeParts, TypePartsNext DEF Inv, tables, TablesType
<1>4. RequestsTrue'
  BY KindMoves DEF Inv, tables
<1>5. LocksHeld'
  BY <1>1, <1>2 DEF Inv, LocksHeld
<1>6. \A t : ReadTrue(t) => ReadTrue(t)'
  BY DEF ReadTrue, Of, Paid, tables
<1>7. ReadsHold'
  <2>1. ASSUME NEW q \in Request, pc'[q] = "ready"
        PROVE  ReadTrue(tx'[q])
    BY <1>1, <1>2, <2>1 DEF Inv, ReadsHold
  <2> QED BY <1>6, <2>1 DEF ReadsHold, ReadTrue, Of, Paid, tables
<1>8. OneEach' /\ CancelledOwesNothing' /\ OnePaymentPerReference'
  BY DEF Inv, OneEach, CancelledOwesNothing, OnePaymentPerReference, Of, tables
<1> QED BY <1>3, <1>4, <1>5, <1>7, <1>8 DEF Inv

LEMMA FlushInv ==
  ASSUME Inv, NEW r \in Request, Flushes(r)
  PROVE  Inv'
<1>1. PICK row \in Rows, step \in {"appeal", "ready"}, t \in Transaction : Flushed(r, row, step, t)
  BY FlushForm
<1>u. PICK u \in Transaction : u = [t EXCEPT !.rows = @ \cup {row}]
  BY <1>1 DEF Transaction, Rows
<1>2. /\ u.rows = tx[r].rows \cup {row}
      /\ u.kind = t.kind /\ u.on = t.on /\ u.target = t.target /\ u.result = t.result
      /\ u.adds = t.adds /\ u.marks = t.marks
  BY <1>u, <1>1 DEF Flushed, Transaction
<1>3. pc' = [pc EXCEPT ![r] = step] /\ tx' = [tx EXCEPT ![r] = u] /\ UNCHANGED tables
  BY <1>u, <1>1 DEF Flushed, Flush
<1>4. \A q \in Request \ {r} : row \notin tx[q].rows /\ tx[q].rows \cap tx[r].rows = {}
  BY <1>1 DEF Flushed, Flush, Free, Inv, LocksHeld
<1>5. KindTrue(u, step)
  BY <1>1, <1>2 DEF Flushed, KindTrue
<1>6. step = "ready" => /\ u.target # None => u.target \in u.rows
                        /\ u.kind = "pay" => u.on \in u.rows
                        /\ ReadTrue(u)
  BY <1>1, <1>2 DEF Flushed, ReadTrue
<1>7. \A q \in Request \ {r} : tx[q].rows \cap u.rows = {}
  BY <1>2, <1>4
<1>8. step \in Moving
  BY DEF Moving
<1> QED BY <1>2, <1>3, <1>5, <1>6, <1>7, <1>8, MoveInv

LEMMA AskInv ==
  ASSUME Inv, NEW r \in Request, Ask(r)
  PROVE  Inv'
<1>1. PICK t \in Transaction : Begun(r, t)
  BY AskForm
<1>2. pc' = [pc EXCEPT ![r] = "asked"] /\ tx' = [tx EXCEPT ![r] = t] /\ UNCHANGED tables
  BY <1>1 DEF Begun, Begin
<1> QED BY <1>1, <1>2, MoveInv DEF Begun, Moving

(***************************************************************************)
(* The steps that commit, and the rest.                                    *)
(***************************************************************************)
Commits(r) == \/ CommitPayment(r) \/ CommitExit(r) \/ CommitApproval(r)
              \/ CommitConfirm(r) \/ CommitCancel(r) \/ CommitReview(r)

(* What a commit may do to a charge: settle or void it, or make it, for a  *)
(* session or for the violation that is confirmed.                         *)
Kept(c) == /\ charge'[c].about = charge[c].about
           /\ charge'[c].status = "UNPAID" => charge[c].status = "UNPAID"

LEMMA WrittenKeeps ==
  ASSUME TypeOK, NEW r \in Request, charge' = Written(r), NEW c \in Request
  PROVE  Kept(c) /\ (charge'[c].status = "UNPAID" => tx[r].marks[c] = None)
<1>1. charge[c] \in ChargeRow /\ tx[r] \in Transaction
  BY DEF TypeOK
<1>2. tx[r].marks[c] \in {"PAID", "VOIDED", None}
  BY <1>1 DEF Transaction
<1>3. charge'[c] = [charge[c] EXCEPT !.paid = IF c \in tx[r].touched THEN tx[r].paid[c] ELSE @,
                                     !.status = IF tx[r].marks[c] # None THEN tx[r].marks[c] ELSE @]
  BY DEF Written
<1> QED BY <1>1, <1>2, <1>3 DEF ChargeRow, Kept, None

LEMMA ChargesAfter ==
  ASSUME Inv, NEW r \in Request, Commits(r), NEW c \in Request
  PROVE  \/ Kept(c)
         \/ charge'[c].about \in Session
         \/ /\ CommitConfirm(r) /\ c = r /\ tx[r].adds
            /\ charge'[c].about = tx[r].target
<1> USE FinanceAssumption
<1>1. CASE charge' = Written(r)
  BY <1>1, WrittenKeeps DEF Inv
<1>2. CASE CommitExit(r)
  <2>1. tx[r].on \in Session
    BY <1>2 DEF CommitExit, Ready, Inv, RequestsTrue, KindTrue
  <2>2. charge'[c] = charge[c] \/ charge'[c].about = tx[r].on
    BY <1>2 DEF CommitExit, Inv, TypeOK
  <2> QED BY <2>1, <2>2 DEF Kept
<1>3. CASE CommitConfirm(r)
  <2>1. charge'[c] = charge[c] \/ (c = r /\ tx[r].adds /\ charge'[c].about = tx[r].target)
    BY <1>3 DEF CommitConfirm, Inv, TypeOK
  <2> QED BY <1>3, <2>1 DEF Kept
<1> QED BY <1>1, <1>2, <1>3 DEF Commits, CommitPayment, CommitApproval, CommitCancel, CommitReview

LEMMA CommitRequests ==
  ASSUME Inv, NEW r \in Request, Commits(r)
  PROVE  RequestsTrue'
<1>1. pc' = [pc EXCEPT ![r] = "done"] /\ tx' = [tx EXCEPT ![r] = Blank]
  BY DEF Commits, CommitPayment, CommitExit, CommitApproval, CommitConfirm, CommitCancel,
         CommitReview, Ends, Rest
<1>2. CASE CommitApproval(r)
  <2>1. tx[r].on \in Adjustment /\ adjustment[tx[r].on].status # None
    BY <1>2 DEF CommitApproval, Ready, Inv, RequestsTrue, KindTrue
  <2>2. \A a \in Adjustment : /\ adjustment'[a].status = None <=> adjustment[a].status = None
                              /\ adjustment'[a].charge = adjustment[a].charge
    BY <1>2, <2>1 DEF CommitApproval, Inv, TypeOK, AdjustmentRow, None
  <2> QED BY <1>1, <1>2, <2>2, KindEnds DEF CommitApproval, Inv
<1>3. CASE CommitReview(r)
  <2>1. tx[r].on \in Appeal /\ appeal[tx[r].on].status # None /\ tx[r].result # None
    BY <1>3 DEF CommitReview, Ready, Inv, RequestsTrue, KindTrue
  <2>2. \A a \in Appeal : /\ appeal'[a].status = None <=> appeal[a].status = None
                          /\ appeal'[a].violation = appeal[a].violation
    BY <1>3, <2>1 DEF CommitReview, Inv, TypeOK, AppealRow
  <2> QED BY <1>1, <1>3, <2>2, KindEnds DEF CommitReview, Inv
<1>4. CASE UNCHANGED <<appeal, adjustment>>
  BY <1>1, <1>4, KindEnds DEF Inv
<1> QED BY <1>2, <1>3, <1>4 DEF Commits, CommitPayment, CommitExit, CommitConfirm, CommitCancel

(* The request that commits has not undone what the others have read: it   *)
(* would hold a row that one of them holds.                                *)
LEMMA CommitReads ==
  ASSUME Inv, NEW r \in Request, Commits(r)
  PROVE  ReadsHold'
<1> USE FinanceAssumption
<1>1. \A q \in Request : pc'[q] = "ready" => q # r /\ tx'[q] = tx[q] /\ pc[q] = "ready"
  BY DEF Commits, CommitPayment, CommitExit, CommitApproval, CommitConfirm, CommitCancel,
         CommitReview, Ends, Inv, TypeOK
<1> SUFFICES ASSUME NEW q \in Request, q # r, tx'[q] = tx[q], pc[q] = "ready"
             PROVE  ReadTrue(tx[q])'
  BY <1>1 DEF ReadsHold, ReadTrue, Of, Paid
<1>2. ReadTrue(tx[q]) /\ tx[q].rows \cap tx[r].rows = {} /\ KindTrue(tx[q], "ready")
  BY DEF Inv, ReadsHold, LocksHeld, RequestsTrue
<1>3. tx[q].target # None => tx[q].target \in tx[q].rows
  BY DEF Inv, LocksHeld
<1>4. tx[q].target \in Violation \cup {None}
  BY DEF Inv, TypeOK, Transaction
(* The charges of its violation are those it has read.                     *)
<1>5. ASSUME NEW c \in Request, tx[q].target # None, charge'[c].about = tx[q].target
      PROVE  Kept(c)
  <2>1. CASE CommitConfirm(r)
    <3>1. pc[r] = "ready" /\ tx[r].target # None
      BY <2>1 DEF CommitConfirm, Ready, Inv, RequestsTrue, KindTrue
    <3>2. tx[r].target \in tx[r].rows
      BY <3>1 DEF Inv, LocksHeld
    <3> QED BY <1>2, <1>3, <1>4, <1>5, <3>2, ChargesAfter
  <2>2. CASE ~CommitConfirm(r)
    BY <1>4, <1>5, <2>2, ChargesAfter
  <2> QED BY <2>1, <2>2
<1>6. tx[q].kind = "confirm" /\ tx[q].adds => Of(tx[q].target)' = {}
  <2> SUFFICES ASSUME tx[q].kind = "confirm", tx[q].adds, NEW c \in Request,
                      charge'[c].about = tx[q].target
               PROVE  FALSE
    BY DEF Of
  <2>1. tx[q].target # None
    BY <1>2 DEF KindTrue
  <2> QED BY <1>2, <1>5, <2>1 DEF ReadTrue, Of, Kept
<1>7. tx[q].kind \in {"cancel", "review"} /\ tx[q].target # None =>
        \A c \in Of(tx[q].target)' : charge'[c].status = "UNPAID" => tx[q].marks[c] = "VOIDED"
  BY <1>2, <1>5 DEF ReadTrue, Of, Kept
<1>8. tx[q].kind = "pay" => ~Paid(tx[q].on)'
  <2> SUFFICES ASSUME tx[q].kind = "pay", NEW p \in Request, payment'[p].ref = tx[q].on
               PROVE  FALSE
    BY DEF Paid
  <2>1. tx[q].on \in tx[q].rows /\ payment[p].ref # tx[q].on
    BY <1>2 DEF ReadTrue, Paid, Inv, LocksHeld
  <2>2. CASE CommitPayment(r)
    <3>1. tx[r].on \in tx[r].rows
      BY <2>2 DEF CommitPayment, Ready, Inv, LocksHeld
    <3>2. payment'[p].ref \in {payment[p].ref, tx[r].on}
      BY <2>2 DEF CommitPayment, Inv, TypeOK
    <3> QED BY <1>2, <2>1, <3>1, <3>2
  <2>3. CASE UNCHANGED payment
    BY <2>1, <2>3
  <2> QED BY <2>2, <2>3 DEF Commits, CommitExit, CommitApproval, CommitConfirm, CommitCancel, CommitReview
<1> QED BY <1>6, <1>7, <1>8 DEF ReadTrue

LEMMA CommitOneEach ==
  ASSUME Inv, NEW r \in Request, Commits(r)
  PROVE  OneEach'
<1> USE FinanceAssumption
<1> SUFFICES ASSUME NEW c \in Request, NEW d \in Request,
                    charge'[c].about \in Violation, charge'[c].about = charge'[d].about
             PROVE  c = d
  BY DEF OneEach
(* If one of them is new, its violation had none.                          *)
<1>1. ASSUME CommitConfirm(r), tx[r].adds, NEW e \in Request, Kept(e)
      PROVE  charge'[e].about # tx[r].target
  BY <1>1 DEF CommitConfirm, Ready, Inv, ReadsHold, ReadTrue, Of, Kept
<1>2. CASE Kept(c) /\ Kept(d)
  BY <1>2 DEF Inv, OneEach, Kept
<1>3. CASE ~(Kept(c) /\ Kept(d))
  BY <1>1, <1>3, ChargesAfter
<1> QED BY <1>2, <1>3

LEMMA CommitCancelled ==
  ASSUME Inv, NEW r \in Request, Commits(r)
  PROVE  CancelledOwesNothing'
<1> USE FinanceAssumption
<1> SUFFICES ASSUME NEW v \in Violation, violation'[v] = "CANCELLED",
                    NEW c \in Request, charge'[c].about = v, charge'[c].status = "UNPAID"
             PROVE  FALSE
  BY DEF CancelledOwesNothing, Of
<1>1. CASE CommitConfirm(r)
  <2>1. v # tx[r].target /\ violation[v] = "CANCELLED"
    BY <1>1 DEF CommitConfirm, Inv, TypeOK
  <2>2. Kept(c)
    BY <1>1, <2>1, ChargesAfter
  <2> QED BY <2>1, <2>2 DEF Inv, CancelledOwesNothing, Of, Kept
<1>2. CASE ~CommitConfirm(r)
  <2>1. Kept(c)
    BY <1>2, ChargesAfter
  <2>2. CASE violation[v] = "CANCELLED"
    BY <2>1, <2>2 DEF Inv, CancelledOwesNothing, Of, Kept
  <2>3. CASE violation[v] # "CANCELLED"
    <3>1. v = tx[r].target /\ tx[r].kind \in {"cancel", "review"} /\ pc[r] = "ready" /\ charge' = Written(r)
      BY <1>2, <2>3 DEF Commits, CommitPayment, CommitExit, CommitApproval, CommitCancel, CommitReview,
                        Ready, Inv, TypeOK
    <3>2. tx[r].marks[c] = "VOIDED"
      BY <2>1, <3>1 DEF Inv, ReadsHold, ReadTrue, Of, Kept
    <3> QED BY <3>1, <3>2, WrittenKeeps DEF Inv, None
  <2> QED BY <2>2, <2>3
<1> QED BY <1>1, <1>2

LEMMA CommitPayments ==
  ASSUME Inv, NEW r \in Request, Commits(r)
  PROVE  OnePaymentPerReference'
<1>1. CASE CommitPayment(r)
  <2>1. \A p \in Request : payment[p].ref # tx[r].on
    BY <1>1 DEF CommitPayment, Ready, Inv, ReadsHold, ReadTrue, Paid
  <2>2. \A p \in Request : payment'[p].ref = IF p = r THEN tx[r].on ELSE payment[p].ref
    BY <1>1 DEF CommitPayment, Inv, TypeOK
  <2> QED BY <2>1, <2>2 DEF Inv, OnePaymentPerReference
<1>2. CASE UNCHANGED payment
  BY <1>2 DEF Inv, OnePaymentPerReference
<1> QED BY <1>1, <1>2 DEF Commits, CommitExit, CommitApproval, CommitConfirm, CommitCancel, CommitReview

(* A request that ends holds no rows. *)
LEMMA EndLocks ==
  ASSUME Inv, NEW r \in Request, NEW step \in {"done", "failed"},
         pc' = [pc EXCEPT ![r] = step], tx' = [tx EXCEPT ![r] = Blank]
  PROVE  LocksHeld'
<1>1. \A q \in Request : pc'[q] = (IF q = r THEN step ELSE pc[q]) /\ tx'[q] = (IF q = r THEN Blank ELSE tx[q])
  BY DEF Inv, TypeOK
<1>2. Blank.rows = {}
  BY DEF Blank
<1> QED BY <1>1, <1>2 DEF Inv, LocksHeld

LEMMA CommitInv ==
  ASSUME Inv, NEW r \in Request, Commits(r)
  PROVE  Inv'
<1>1. TypeOK'
  BY CommitsType DEF Inv, Commits
<1>2. LocksHeld'
  BY EndLocks DEF Commits, CommitPayment, CommitExit, CommitApproval, CommitConfirm, CommitCancel,
                  CommitReview, Ends, Rest
<1> QED BY <1>1, <1>2, CommitRequests, CommitReads, CommitOneEach, CommitCancelled, CommitPayments DEF Inv

(* A request that ends without a write. *)
LEMMA EndInv ==
  ASSUME Inv, NEW r \in Request, PaymentKnown(r) \/ Fail(r)
  PROVE  Inv'
<1>1. PICK step \in {"done", "failed"} :
        pc' = [pc EXCEPT ![r] = step] /\ tx' = [tx EXCEPT ![r] = Blank] /\ UNCHANGED tables
  BY DEF PaymentKnown, Fail, Ends, Rest, tables
<1>2. TypeOK'
  BY OthersType DEF Inv
<1>3. RequestsTrue'
  BY <1>1, KindEnds DEF Inv, tables
<1>4. LocksHeld'
  BY <1>1, EndLocks
<1>5. \A q \in Request : pc'[q] = "ready" => tx'[q] = tx[q] /\ pc[q] = "ready"
  BY <1>1 DEF Inv, TypeOK
<1>6. ReadsHold'
  BY <1>1, <1>5 DEF Inv, ReadsHold, ReadTrue, Of, Paid, tables
<1>7. OneEach' /\ CancelledOwesNothing' /\ OnePaymentPerReference'
  BY <1>1 DEF Inv, OneEach, CancelledOwesNothing, OnePaymentPerReference, Of, tables
<1> QED BY <1>2, <1>3, <1>4, <1>6, <1>7 DEF Inv

(* What operators do besides: the charges, the payments and the requests   *)
(* stay as they are.                                                       *)
Operators ==
  \/ \E s \in Session : Enter(s)
  \/ \E v \in Violation : Register(v) \/ Fine(v)
  \/ \E a \in Appeal, v \in Violation : Submit(a, v)
  \/ \E a \in Adjustment, c \in Request, n \in Waivers : Adjust(a, c, n)

LEMMA OperatorsInv ==
  ASSUME Inv, Operators
  PROVE  Inv'
<1>1. TypeOK' /\ UNCHANGED <<charge, payment, pc, tx>>
  BY OthersType DEF Operators, Inv, Enter, Register, Fine, Enrol, Submit, Adjust
<1>2. LocksHeld' /\ OneEach' /\ OnePaymentPerReference'
  BY <1>1 DEF Inv, LocksHeld, OneEach, OnePaymentPerReference
<1>3. ReadsHold'
  BY <1>1 DEF Inv, ReadsHold, ReadTrue, Of, Paid
<1>4. RequestsTrue'
  <2>1. \A a \in Appeal : \/ appeal'[a] = appeal[a]
                          \/ /\ appeal[a].status = None /\ appeal'[a].status # None
                             /\ appeal'[a].violation \in Violation
    BY DEF Operators, Enter, Register, Fine, Enrol, Submit, Adjust, Inv, TypeOK, None
  <2>2. \A a \in Adjustment : \/ adjustment'[a] = adjustment[a]
                              \/ /\ adjustment[a].status = None /\ adjustment'[a].status # None
                                 /\ adjustment'[a].charge \in Request
    BY DEF Operators, Enter, Register, Fine, Enrol, Submit, Adjust, Inv, TypeOK, None
  <2> QED BY <1>1, <2>1, <2>2 DEF Inv, RequestsTrue, KindTrue
<1>5. CancelledOwesNothing'
  <2>1. \A v \in Violation : violation'[v] = "CANCELLED" => violation[v] = "CANCELLED"
    BY DEF Operators, Enter, Register, Fine, Enrol, Submit, Adjust, Inv, TypeOK
  <2> QED BY <1>1, <2>1 DEF Inv, CancelledOwesNothing, Of
<1> QED BY <1>1, <1>2, <1>3, <1>4, <1>5 DEF Inv

LEMMA InitInv == Init => Inv
<1> SUFFICES ASSUME Init
             PROVE  Inv
  OBVIOUS
<1> USE FinanceAssumption
<1>1. \A r \in Request : tx[r] = Blank /\ pc[r] = "idle" /\ charge[r] = NoCharge /\ payment[r] = NoPayment
  BY DEF Init
<1>2. NoCharge \in ChargeRow /\ NoPayment \in PaymentRow /\ Nothing \in [Request -> Nat]
  BY DEF NoCharge, ChargeRow, NoPayment, PaymentRow, Nothing
<1>3. TypeOK
  BY <1>1, <1>2, BlankType DEF Init, TypeOK, AppealRow, AdjustmentRow
<1>4. KindTrue(Blank, "idle")
  BY DEF KindTrue, Blank, None
<1>5. RequestsTrue
  BY <1>1, <1>4 DEF Init, RequestsTrue
<1>6. LocksHeld /\ ReadsHold
  BY <1>1 DEF LocksHeld, ReadsHold, Blank
<1>7. OneEach /\ CancelledOwesNothing /\ OnePaymentPerReference
  BY <1>1 DEF Init, OneEach, CancelledOwesNothing, OnePaymentPerReference, NoCharge, NoPayment, None
<1> QED BY <1>3, <1>5, <1>6, <1>7 DEF Inv

LEMMA StepInv == Inv /\ [Next]_vars => Inv'
<1> SUFFICES ASSUME Inv, [Next]_vars
             PROVE  Inv'
  OBVIOUS
<1>1. ASSUME NEW r \in Request, Work(r)
      PROVE  Inv'
  BY <1>1, FlushInv, CommitInv, EndInv DEF Work, Flushes, Commits
<1>2. CASE UNCHANGED vars
  BY <1>2 DEF vars, tables, Inv, TypeOK, Busy, RequestsTrue, KindTrue, LocksHeld, ReadsHold, ReadTrue, Of,
              Paid, OneEach, CancelledOwesNothing, OnePaymentPerReference
<1> QED BY <1>1, <1>2, AskInv, EndInv, OperatorsInv DEF Next, Operators

(* Row locks and the order of reads and flushes keep all of it.            *)
THEOREM Invariance == Spec => []Inv
BY InitInv, StepInv, PTL DEF Spec

-----------------------------------------------------------------------------
(* The tables and the requests are well typed, and a request at rest has   *)
(* no pending writes and holds no rows.                                    *)
THEOREM TypeCorrect == Spec => []TypeOK
<1>1. Inv => TypeOK
  BY DEF Inv
<1> QED BY <1>1, Invariance, PTL

(* A violation has at most one charge, however many requests confirm it.   *)
THEOREM ChargedOnce == Spec => []OneChargePerViolation
<1>1. Inv => OneChargePerViolation
  <2> SUFFICES ASSUME Inv, NEW v \in Violation
               PROVE  Cardinality(Of(v)) <= 1
    BY DEF OneChargePerViolation
  <2>1. CASE Of(v) = {}
    BY <2>1, FS_EmptySet
  <2>2. CASE Of(v) # {}
    <3>1. PICK c \in Of(v) : TRUE
      BY <2>2
    <3>2. Of(v) = {c}
      BY <3>1 DEF Of, Inv, OneEach
    <3>3. Cardinality({c}) = 1
      BY FS_Singleton
    <3> QED BY <3>2, <3>3
  <2> QED BY <2>1, <2>2
<1> QED BY <1>1, Invariance, PTL

(* Whatever is confirmed, cancelled, appealed, paid or waived at the same  *)
(* time, no charge of a cancelled violation is open.                       *)
THEOREM CancelledIsSettled == Spec => []CancelledOwesNothing
<1>1. Inv => CancelledOwesNothing
  BY DEF Inv
<1> QED BY <1>1, Invariance, PTL

(* The unique index keeps a payment sent again from being recorded twice.  *)
THEOREM RecordedOnce == Spec => []OnePaymentPerReference
<1>1. Inv => OnePaymentPerReference
  BY DEF Inv
<1> QED BY <1>1, Invariance, PTL

-----------------------------------------------------------------------------
(***************************************************************************)
(* Sums over finite sets.  The library's induction takes an operator as a  *)
(* parameter; over subsets of a finite set it is stated with a set here.   *)
(***************************************************************************)
LEMMA NatSetInduction ==
  ASSUME NEW U, 0 \in U, \A n \in Nat : n \in U => n + 1 \in U
  PROVE  \A n \in Nat : n \in U
<1> SUFFICES ASSUME NEW m \in Nat, m \notin U
             PROVE  FALSE
  OBVIOUS
<1> DEFINE T == {n \in Nat : n \notin U}
<1>1. OpToRel(<, Nat) = {ss \in Nat \X Nat : ss[1] < ss[2]}
  BY Zenon DEF OpToRel
<1>2. PICK k \in T : \A l \in T : ~ (<<l, k>> \in OpToRel(<, Nat))
  <2>1. T \in SUBSET Nat /\ T # {}
    OBVIOUS
  <2> HIDE DEF T
  <2> QED BY <2>1, NatLessThanWellFounded, WFMin
<1>3. \A l \in T : ~ (l < k)
  BY <1>1, <1>2
<1>4. k # 0 /\ k - 1 \in Nat /\ k = (k - 1) + 1
  OBVIOUS
<1>5. k - 1 \in U
  BY <1>3, <1>4
<1> QED BY <1>4, <1>5

LEMMA SubsetInduction ==
  ASSUME NEW S, IsFiniteSet(S), NEW U, {} \in U,
         \A T \in SUBSET S : T # {} /\ (\A x \in T : T \ {x} \in U) => T \in U
  PROVE  \A T \in SUBSET S : T \in U
<1> DEFINE V == {n \in Nat : \A T \in SUBSET S : Cardinality(T) = n => T \in U}
<1>0. \A T \in SUBSET S : IsFiniteSet(T) /\ Cardinality(T) \in Nat
  BY FS_Subset, FS_CardinalityType
<1>1. 0 \in V
  BY <1>0, FS_EmptySet
<1>2. ASSUME NEW n \in Nat, n \in V
      PROVE  n + 1 \in V
  <2>1. ASSUME NEW T \in SUBSET S, Cardinality(T) = n + 1
        PROVE  T \in U
    <3>0. Cardinality({}) = 0
      BY FS_EmptySet
    <3>1. T # {}
      BY <1>2, <2>1, <3>0
    <3>2. ASSUME NEW x \in T
          PROVE  T \ {x} \in U
      <4>1. T \ {x} \in SUBSET S /\ Cardinality(T \ {x}) = n
        BY <1>0, <2>1, FS_RemoveElement
      <4> QED BY <1>2, <4>1
    <3> QED BY <3>1, <3>2
  <2> QED BY <2>1
<1>3. \A n \in Nat : n \in V
  <2> HIDE DEF V
  <2> QED BY <1>1, <1>2, NatSetInduction
<1> QED BY <1>0, <1>3

-----------------------------------------------------------------------------
Pick(s) == CHOOSE x \in s : TRUE
Recurses(f, g, s) == g[s] = IF s = {} THEN 0 ELSE f[Pick(s)] + g[s \ {Pick(s)}]
Sums(f, S, g) == g = [s \in SUBSET S |-> IF s = {} THEN 0 ELSE f[Pick(s)] + g[s \ {Pick(s)}]]
SumsOf(f, S) == CHOOSE g : Sums(f, S, g)

(* MapThenSumSet, unfolded.                                                *)
LEMMA SumIs == ASSUME NEW f, NEW S PROVE SumOf(f, S) = SumsOf(f, S)[S]
BY DEF SumOf, MapThenSumSet, MapThenFoldSet, Pick, Sums, SumsOf

LEMMA PickIn == ASSUME NEW s, s # {} PROVE Pick(s) \in s
BY DEF Pick

(* Two functions that recurse agree.                                       *)
LEMMA SumsAgree ==
  ASSUME NEW S, NEW T \in SUBSET S, IsFiniteSet(T), NEW f, NEW g, NEW h, Sums(f, S, g), Sums(f, T, h)
  PROVE  \A R \in SUBSET T : g[R] = h[R]
<1> DEFINE U == {R \in SUBSET T : g[R] = h[R]}
<1>1. \A R \in SUBSET T : Recurses(f, g, R) /\ Recurses(f, h, R)
  BY DEF Sums, Recurses
<1>2. {} \in U
  BY <1>1 DEF Recurses
<1>3. ASSUME NEW R \in SUBSET T, R # {}, \A x \in R : R \ {x} \in U
      PROVE  R \in U
  BY <1>1, <1>3, PickIn DEF Recurses
<1> HIDE DEF U
<1>4. \A R \in SUBSET T : R \in U
  BY <1>2, <1>3, SubsetInduction
<1> QED BY <1>4 DEF U

(* The function that recurses exists: it is put together from those of the *)
(* subsets of each size.                                                   *)
LEMMA SumsExist ==
  ASSUME NEW S, IsFiniteSet(S), NEW f, \A x \in S : f[x] \in Int
  PROVE  Sums(f, S, SumsOf(f, S)) /\ SumsOf(f, S) \in [SUBSET S -> Int]
<1> DEFINE V == {n \in Nat : \E g \in [SUBSET S -> Int] :
                   \A s \in SUBSET S : Cardinality(s) <= n => Recurses(f, g, s)}
<1>0. \A s \in SUBSET S : IsFiniteSet(s) /\ Cardinality(s) \in Nat
  BY FS_Subset, FS_CardinalityType
<1>1. 0 \in V
  <2> DEFINE g == [s \in SUBSET S |-> 0]
  <2>1. \A s \in SUBSET S : Cardinality(s) <= 0 => s = {}
    BY <1>0, FS_EmptySet
  <2>2. g \in [SUBSET S -> Int] /\ \A s \in SUBSET S : Cardinality(s) <= 0 => Recurses(f, g, s)
    BY <2>1 DEF Recurses
  <2> HIDE DEF g
  <2> QED BY <2>2
<1>2. ASSUME NEW n \in Nat, n \in V
      PROVE  n + 1 \in V
  <2>1. PICK g \in [SUBSET S -> Int] : \A s \in SUBSET S : Cardinality(s) <= n => Recurses(f, g, s)
    BY <1>2
  <2> DEFINE h == [s \in SUBSET S |-> IF Cardinality(s) <= n THEN g[s] ELSE f[Pick(s)] + g[s \ {Pick(s)}]]
  <2>2. ASSUME NEW s \in SUBSET S, s # {}
        PROVE  /\ Pick(s) \in S /\ f[Pick(s)] \in Int /\ s \ {Pick(s)} \in SUBSET S
               /\ Cardinality(s \ {Pick(s)}) = Cardinality(s) - 1
    BY <1>0, <2>2, PickIn, FS_RemoveElement
  <2>3. ASSUME NEW s \in SUBSET S
        PROVE  h[s] \in Int
    <3>1. CASE Cardinality(s) <= n
      BY <3>1
    <3>2. CASE ~(Cardinality(s) <= n)
      <4>0. 0 <= n
        BY <1>2
      <4>1. s # {}
        BY <3>2, <4>0, FS_EmptySet, Zenon
      <4> QED BY <2>2, <3>2, <4>1
    <3> QED BY <3>1, <3>2
  <2>4. ASSUME NEW s \in SUBSET S, Cardinality(s) <= n + 1
        PROVE  Recurses(f, h, s)
    <3>1. CASE s = {}
      <4>1. Cardinality(s) <= n
        BY <3>1, FS_EmptySet
      <4> QED BY <2>1, <3>1, <4>1 DEF Recurses
    <3>2. CASE s # {}
      <4>1. s \ {Pick(s)} \in SUBSET S /\ Cardinality(s \ {Pick(s)}) <= n
        BY <1>0, <2>2, <2>4, <3>2
      <4>2. h[s \ {Pick(s)}] = g[s \ {Pick(s)}]
        BY <4>1
      <4>3. h[s] = f[Pick(s)] + g[s \ {Pick(s)}]
        BY <2>1, <3>2 DEF Recurses
      <4> QED BY <3>2, <4>2, <4>3 DEF Recurses
    <3> QED BY <3>1, <3>2
  <2>5. h \in [SUBSET S -> Int]
    BY <2>3
  <2> HIDE DEF h
  <2> QED BY <2>4, <2>5
<1>3. \A n \in Nat : n \in V
  <2> HIDE DEF V
  <2> QED BY <1>1, <1>2, NatSetInduction
<1>4. PICK g \in [SUBSET S -> Int] :
        \A s \in SUBSET S : Cardinality(s) <= Cardinality(S) => Recurses(f, g, s)
  BY <1>0, <1>3
<1>5. \A s \in SUBSET S : Recurses(f, g, s)
  BY <1>0, <1>4, FS_Subset
<1>6. Sums(f, S, g)
  BY <1>5 DEF Sums, Recurses
<1>7. Sums(f, S, SumsOf(f, S))
  BY <1>6 DEF SumsOf
<1>8. \A R \in SUBSET S : SumsOf(f, S)[R] = g[R]
  BY <1>6, <1>7, SumsAgree
<1>9. SumsOf(f, S) = [s \in SUBSET S |-> SumsOf(f, S)[s]]
  BY <1>7 DEF Sums
<1>10. \A s \in SUBSET S : SumsOf(f, S)[s] \in Int
  BY <1>8
<1> HIDE DEF V
<1> QED BY <1>7, <1>9, <1>10

Numbers(f, S) == IsFiniteSet(S) /\ \A x \in S : f[x] \in Int

(* Sums recurse by the element that CHOOSE picks.                          *)
LEMMA SumRecurses ==
  ASSUME NEW S, NEW f, Numbers(f, S)
  PROVE  /\ \A T \in SUBSET S : SumOf(f, T) \in Int /\ Numbers(f, T)
         /\ SumOf(f, {}) = 0
         /\ \A T \in SUBSET S : T # {} => SumOf(f, T) = f[Pick(T)] + SumOf(f, T \ {Pick(T)})
<1>0. Sums(f, S, SumsOf(f, S)) /\ SumsOf(f, S) \in [SUBSET S -> Int]
  BY SumsExist DEF Numbers
<1>1. ASSUME NEW T \in SUBSET S
      PROVE  /\ Numbers(f, T)
             /\ SumOf(f, T) = SumsOf(f, S)[T]
  <2>1. Numbers(f, T)
    BY FS_Subset DEF Numbers
  <2>2. Sums(f, T, SumsOf(f, T))
    BY <2>1, SumsExist DEF Numbers
  <2>3. SumsOf(f, S)[T] = SumsOf(f, T)[T]
    BY <1>0, <2>1, <2>2, SumsAgree DEF Numbers
  <2> QED BY <2>1, <2>3, SumIs
<1>2. \A T \in SUBSET S : Recurses(f, SumsOf(f, S), T)
  BY <1>0 DEF Sums, Recurses
<1>3. \A T \in SUBSET S : T # {} => T \ {Pick(T)} \in SUBSET S
  OBVIOUS
<1> QED BY <1>0, <1>1, <1>2, <1>3 DEF Recurses

(* Any element can be taken out of a sum.                                  *)
LEMMA SumRemove ==
  ASSUME NEW S, NEW f, Numbers(f, S), NEW z \in S
  PROVE  SumOf(f, S) = f[z] + SumOf(f, S \ {z})
<1> DEFINE U == {T \in SUBSET S : \A x \in T : SumOf(f, T) = f[x] + SumOf(f, T \ {x})}
<1>1. {} \in U
  OBVIOUS
<1>2. ASSUME NEW T \in SUBSET S, T # {}, \A x \in T : T \ {x} \in U
      PROVE  T \in U
  <2> DEFINE c == Pick(T)
  <2>0. c \in T
    BY <1>2, PickIn
  <2>1. SumOf(f, T) = f[c] + SumOf(f, T \ {c})
    BY <1>2, SumRecurses
  <2> HIDE DEF c
  <2> SUFFICES ASSUME NEW x \in T, x # c
               PROVE  SumOf(f, T) = f[x] + SumOf(f, T \ {x})
    BY <2>1
  <2> DEFINE R == (T \ {c}) \ {x}
  <2>2. R = (T \ {x}) \ {c} /\ R \in SUBSET S
    OBVIOUS
  <2>3. SumOf(f, T \ {c}) = f[x] + SumOf(f, R) /\ SumOf(f, T \ {x}) = f[c] + SumOf(f, R)
    BY <1>2, <2>0, <2>2
  <2>4. f[x] \in Int /\ f[c] \in Int /\ SumOf(f, R) \in Int
    BY <2>0, <2>2, SumRecurses DEF Numbers
  <2> QED BY <2>1, <2>3, <2>4
<1> HIDE DEF U
<1>3. \A T \in SUBSET S : T \in U
  BY <1>1, <1>2, SubsetInduction DEF Numbers
<1> QED BY <1>3 DEF U

(* Sums of the same summands.                                              *)
LEMMA SumAgree ==
  ASSUME NEW S, NEW f, NEW g, Numbers(f, S), \A x \in S : g[x] = f[x]
  PROVE  SumOf(g, S) = SumOf(f, S)
<1> DEFINE U == {T \in SUBSET S : SumOf(g, T) = SumOf(f, T)}
<1>0. Numbers(g, S)
  BY DEF Numbers
<1>1. {} \in U
  BY <1>0, SumRecurses
<1>2. ASSUME NEW T \in SUBSET S, T # {}, \A x \in T : T \ {x} \in U
      PROVE  T \in U
  <2>1. Pick(T) \in T /\ SumOf(g, T \ {Pick(T)}) = SumOf(f, T \ {Pick(T)})
    BY <1>2, PickIn
  <2>2. /\ SumOf(f, T) = f[Pick(T)] + SumOf(f, T \ {Pick(T)})
        /\ SumOf(g, T) = g[Pick(T)] + SumOf(g, T \ {Pick(T)})
    BY <1>0, <1>2, SumRecurses
  <2> QED BY <2>1, <2>2
<1> HIDE DEF U
<1>3. \A T \in SUBSET S : T \in U
  BY <1>1, <1>2, SubsetInduction DEF Numbers
<1> QED BY <1>3 DEF U

(* Sums are monotonic.                                                     *)
LEMMA SumBelow ==
  ASSUME NEW S, NEW f, NEW g, Numbers(f, S), Numbers(g, S), \A x \in S : g[x] <= f[x]
  PROVE  SumOf(g, S) <= SumOf(f, S)
<1> DEFINE U == {T \in SUBSET S : SumOf(g, T) <= SumOf(f, T)}
<1>1. {} \in U
  BY SumRecurses
<1>2. ASSUME NEW T \in SUBSET S, T # {}, \A x \in T : T \ {x} \in U
      PROVE  T \in U
  <2>1. Pick(T) \in T /\ SumOf(g, T \ {Pick(T)}) <= SumOf(f, T \ {Pick(T)}) /\ T \ {Pick(T)} \in SUBSET S
    BY <1>2, PickIn
  <2>2. /\ SumOf(g, T \ {Pick(T)}) \in Int /\ SumOf(f, T \ {Pick(T)}) \in Int
        /\ g[Pick(T)] \in Int /\ f[Pick(T)] \in Int /\ g[Pick(T)] <= f[Pick(T)]
    BY <2>1, SumRecurses DEF Numbers
  <2>3. SumOf(f, T) = f[Pick(T)] + SumOf(f, T \ {Pick(T)}) /\ SumOf(g, T) = g[Pick(T)] + SumOf(g, T \ {Pick(T)})
    BY <1>2, SumRecurses
  <2> QED BY <2>1, <2>2, <2>3
<1> HIDE DEF U
<1>3. \A T \in SUBSET S : T \in U
  BY <1>1, <1>2, SubsetInduction DEF Numbers
<1> QED BY <1>3 DEF U

(* A part of a sum of naturals is no more than the sum.                    *)
LEMMA SumPart ==
  ASSUME NEW S, NEW T \in SUBSET S, NEW f, Numbers(f, S), \A x \in S : f[x] >= 0
  PROVE  SumOf(f, T) <= SumOf(f, S) /\ SumOf(f, T) >= 0
<1> DEFINE U == {R \in SUBSET S : SumOf(f, R \cap T) <= SumOf(f, R) /\ SumOf(f, R \cap T) >= 0}
<1>1. {} \in U
  BY SumRecurses
<1>2. ASSUME NEW R \in SUBSET S, R # {}, \A x \in R : R \ {x} \in U
      PROVE  R \in U
  <2>1. PICK c \in R : TRUE
    BY <1>2
  <2>2. /\ SumOf(f, (R \ {c}) \cap T) <= SumOf(f, R \ {c}) /\ SumOf(f, (R \ {c}) \cap T) >= 0
        /\ R \ {c} \in SUBSET S /\ (R \ {c}) \cap T \in SUBSET S /\ R \cap T \in SUBSET S
    BY <1>2, <2>1
  <2>3. f[c] \in Int /\ f[c] >= 0
    BY <2>1 DEF Numbers
  <2>4. /\ SumOf(f, R \ {c}) \in Int /\ SumOf(f, (R \ {c}) \cap T) \in Int
        /\ SumOf(f, R \cap T) \in Int /\ Numbers(f, R) /\ Numbers(f, R \cap T)
    BY <2>2, SumRecurses
  <2>5. SumOf(f, R) = f[c] + SumOf(f, R \ {c})
    BY <2>1, <2>4, SumRemove
  <2>6. CASE c \in T
    <3>0. c \in R \cap T
      BY <2>1, <2>6
    <3>1. SumOf(f, R \cap T) = f[c] + SumOf(f, (R \cap T) \ {c})
      BY <2>4, <3>0, SumRemove
    <3>2. (R \cap T) \ {c} = (R \ {c}) \cap T
      OBVIOUS
    <3>3. SumOf(f, R \cap T) = f[c] + SumOf(f, (R \ {c}) \cap T)
      BY <3>1, <3>2
    <3>4. SumOf(f, R \cap T) <= SumOf(f, R) /\ SumOf(f, R \cap T) >= 0
      BY <2>2, <2>3, <2>4, <2>5, <3>3
    <3> QED BY <3>4
  <2>7. CASE c \notin T
    <3>1. R \cap T = (R \ {c}) \cap T
      BY <2>7
    <3> QED BY <2>2, <2>3, <2>4, <2>5, <3>1
  <2> QED BY <2>6, <2>7
<1> HIDE DEF U
<1>3. \A R \in SUBSET S : R \in U
  BY <1>1, <1>2, SubsetInduction DEF Numbers
<1>4. S \cap T = T
  OBVIOUS
<1> QED BY <1>3, <1>4 DEF U

-----------------------------------------------------------------------------
(***************************************************************************)
(* What payments give and exits take.                                      *)
(***************************************************************************)
(* A sum over S, and over S2 after the summand of r was set, from nothing.  *)
LEMMA SumChange ==
  ASSUME NEW D, NEW f, NEW g, Numbers(f, D), Numbers(g, D), NEW r \in D, f[r] = 0,
         \A x \in D \ {r} : g[x] = f[x],
         NEW S \in SUBSET D, NEW S2 \in SUBSET D, S2 \ {r} = S \ {r}
  PROVE  SumOf(g, S2) = SumOf(f, S) + (IF r \in S2 THEN g[r] ELSE 0)
<1>1. SumOf(f, S) = SumOf(f, S \ {r})
  <2>1. CASE r \in S
    <3>1. Numbers(f, S) /\ SumOf(f, S \ {r}) \in Int
      BY SumRecurses
    <3>2. SumOf(f, S) = f[r] + SumOf(f, S \ {r})
      BY <2>1, <3>1, SumRemove
    <3> QED BY <3>1, <3>2
  <2>2. CASE r \notin S
    <3>1. S \ {r} = S
      BY <2>2
    <3> QED BY <3>1
  <2> QED BY <2>1, <2>2
<1>2. SumOf(g, S2 \ {r}) = SumOf(f, S \ {r})
  <2>1. Numbers(f, S \ {r})
    BY SumRecurses
  <2>2. \A x \in S \ {r} : g[x] = f[x]
    OBVIOUS
  <2> QED BY <2>1, <2>2, SumAgree
<1>3. SumOf(f, S) \in Int /\ g[r] \in Int /\ Numbers(g, S2)
  BY SumRecurses DEF Numbers
<1>4. CASE r \in S2
  <2>1. SumOf(g, S2) = g[r] + SumOf(g, S2 \ {r})
    BY <1>3, <1>4, SumRemove
  <2>2. SumOf(g, S2) = g[r] + SumOf(f, S)
    BY <1>1, <1>2, <2>1
  <2> QED BY <1>3, <1>4, <2>2
<1>5. CASE r \notin S2
  <2>1. S2 \ {r} = S2
    BY <1>5
  <2>2. SumOf(g, S2) = SumOf(f, S)
    BY <1>1, <1>2, <2>1
  <2> QED BY <1>3, <1>5, <2>2
<1> QED BY <1>4, <1>5

-----------------------------------------------------------------------------
(* What a request about to commit gives or takes. *)
SharesTrue(t) ==
  /\ t.kind = "pay" => /\ Total(t.share) <= t.amount
                       /\ \A c \in Request : t.share[c] > 0 => charge[c].status # None
  /\ t.kind = "exit" => /\ t.on \in t.rows
                        /\ \A p \in Request : t.share[p] <= t.amount
                        /\ \A p \in Request : t.share[p] > 0 => payment[p].ref # None
                        /\ \A p \in Request : payment[p].ref # None =>
                             t.share[p] + SumOf(alloc[p], Settles(t.on)) <= payment[p].amount

(* Rows come into being when their request commits; what has been given    *)
(* was given by a payment, to a charge.                                    *)
GivenTrue ==
  /\ \A r \in Request : pc[r] # "done" =>
       charge[r].status = None /\ charge[r].about = None /\ payment[r].ref = None
  /\ \A p \in Request : payment[p].plate # NoPlate => payment[p].ref # None
  /\ \A p, c \in Request : alloc[p][c] > 0 => charge[c].status # None /\ payment[p].ref # None
  /\ \A r, c \in Request : tx[r].marks[c] # None => charge[c].status # None

CreditInv ==
  /\ GivenTrue
  /\ \A r \in Request : pc[r] = "ready" => SharesTrue(tx[r])
  /\ CreditSpentOnce

(* What allocations add up to are sums of naturals.                        *)
LEMMA AllocNumbers ==
  ASSUME TypeOK
  PROVE  /\ \A p \in Request : Numbers(alloc[p], Request) /\ (\A c \in Request : alloc[p][c] >= 0)
         /\ \A r \in Request : Numbers(tx[r].share, Request) /\ (\A c \in Request : tx[r].share[c] >= 0)
<1>1. IsFiniteSet(Request)
  BY FinanceAssumption
<1>2. \A p \in Request : alloc[p] \in [Request -> Nat]
  BY DEF TypeOK
<1>3. \A r \in Request : tx[r].share \in [Request -> Nat]
  BY DEF TypeOK, Transaction
<1> QED BY <1>1, <1>2, <1>3 DEF Numbers

(* A step that leaves the tables alone keeps what was read. *)
LEMMA CreditStays ==
  ASSUME CreditInv, Inv, UNCHANGED <<charge, payment, alloc>>,
         \A q \in Request : pc'[q] = "ready" => SharesTrue(tx'[q]),
         \A q, c \in Request : tx'[q].marks[c] # None => charge[c].status # None,
         \A q \in Request : pc'[q] # "done" => pc[q] # "done"
  PROVE  CreditInv'
<1>1. \A s : Settles(s)' = Settles(s)
  BY DEF Settles
<1>2. \A t : SharesTrue(t) => SharesTrue(t)'
  BY <1>1 DEF SharesTrue
<1>3. GivenTrue' /\ CreditSpentOnce'
  BY <1>1 DEF CreditInv, GivenTrue, CreditSpentOnce
<1>4. ASSUME NEW q \in Request, pc'[q] = "ready"
      PROVE  SharesTrue(tx[q])'
  BY <1>1, <1>4 DEF SharesTrue
<1> QED BY <1>3, <1>4 DEF CreditInv

(* How a flush leaves the transaction. *)
LEMMA FlushKeeps ==
  ASSUME Inv, NEW r \in Request, Flushes(r)
  PROVE  /\ UNCHANGED tables
         /\ pc[r] \in {"asked", "appeal"} /\ pc'[r] \in {"appeal", "ready"}
         /\ tx'[r].kind = tx[r].kind /\ tx'[r].on = tx[r].on
         /\ \A q \in Request \ {r} : pc'[q] = pc[q] /\ tx'[q] = tx[q]
<1>1. PICK row \in Rows, step \in {"appeal", "ready"}, t \in Transaction : Flushed(r, row, step, t)
  BY FlushForm
<1>2. /\ pc' = [pc EXCEPT ![r] = step] /\ tx' = [tx EXCEPT ![r] = [t EXCEPT !.rows = @ \cup {row}]]
      /\ UNCHANGED tables /\ t.kind = tx[r].kind /\ t.on = tx[r].on
  BY <1>1 DEF Flushed, Flush
<1>3. pc \in [Request -> Steps] /\ tx \in [Request -> Transaction]
  BY DEF Inv, TypeOK, Steps
<1>4. pc[r] \in {"asked", "appeal"}
  BY DEF Flushes, InsertPayment, SettleExit, CreditCharge, LockToConfirm, LockToCancel, LockAppeal, Asked
<1> QED BY <1>2, <1>3, <1>4 DEF Transaction

(* What a payment gives are parts of debts, together at most its amount.   *)
LEMMA PayShares ==
  ASSUME Inv, NEW r \in Request, InsertPayment(r)
  PROVE  /\ tx'[r].kind = "pay" /\ Total(tx'[r].share) <= tx'[r].amount
         /\ \A c \in Request : tx'[r].share[c] > 0 => charge[c].status # None
<1> DEFINE due == [c \in Request |-> IF c \in Payable(tx[r].plate) THEN Outstanding(c) ELSE 0]
<1>0. /\ tx[r] \in Transaction /\ charge \in [Request -> ChargeRow] /\ tx \in [Request -> Transaction]
      /\ tx[r].amount \in Nat /\ tx[r].kind = "pay"
  BY DEF Inv, TypeOK, Transaction, InsertPayment, Asked
<1>1. PICK share \in [Request -> 0..tx[r].amount] :
        /\ Fills(share, due, tx[r].amount)
        /\ Flush(r, tx[r].on, "ready", Allocate(tx[r], share, due))
  BY DEF InsertPayment
<1>2. /\ tx'[r].share = share /\ tx'[r].amount = tx[r].amount /\ tx'[r].kind = "pay"
  BY <1>0, <1>1 DEF Flush, Allocate, Transaction
<1>3. \A c \in Request : due[c] \in Int /\ (due[c] > 0 => charge[c].status # None)
  <2>1. \A c \in Request : charge[c].paid \in Int /\ charge[c].amount \in Int
    BY <1>0 DEF ChargeRow
  <2> QED BY <2>1 DEF Payable, Outstanding, None
<1> HIDE DEF due
<1>4. Total(due) \in Int
  BY <1>3, FinanceAssumption, SumRecurses DEF Numbers, Total
<1>5. Total(share) <= tx[r].amount
  BY <1>0, <1>1, <1>4 DEF Fills, Least
<1>6. \A c \in Request : share[c] > 0 => charge[c].status # None
  <2>1. \A c \in Request : share[c] \in Int /\ share[c] <= due[c]
    BY <1>0, <1>1 DEF Fills
  <2> QED BY <1>3, <2>1
<1> QED BY <1>0, <1>2, <1>5, <1>6

(* An exit takes of a payment what it has left. *)
LEMMA ExitShares ==
  ASSUME Inv, CreditInv, NEW r \in Request, SettleExit(r)
  PROVE  /\ tx'[r].kind = "exit" /\ tx'[r].on \in tx'[r].rows
         /\ \A p \in Request : tx'[r].share[p] <= tx'[r].amount
         /\ \A p \in Request : tx'[r].share[p] > 0 => payment[p].ref # None
         /\ \A p \in Request : payment[p].ref # None =>
              tx'[r].share[p] + SumOf(alloc[p], Settles(tx'[r].on)) <= payment[p].amount
<1> DEFINE own == { p \in Request : payment[p].plate = PlateOf[tx[r].on] }
           left(recent) == [p \in Request |-> IF p \in recent /\ Credit(p) > 0 THEN Credit(p) ELSE 0]
<1>0. /\ tx[r] \in Transaction /\ tx \in [Request -> Transaction] /\ tx[r].amount \in Nat
      /\ tx[r].kind = "exit" /\ tx[r].on \in Session
  BY DEF Inv, TypeOK, Transaction, SettleExit, Asked, RequestsTrue, KindTrue
<1>1. PICK recent \in SUBSET own, share \in [Request -> 0..tx[r].amount] :
        /\ Fills(share, left(recent), tx[r].amount)
        /\ Flush(r, tx[r].on, "ready", [tx[r] EXCEPT !.share = share])
  BY DEF SettleExit
<1>2. /\ tx'[r].share = share /\ tx'[r].amount = tx[r].amount /\ tx'[r].on = tx[r].on /\ tx'[r].kind = "exit" /\ tx[r].on \in tx'[r].rows
  BY <1>0, <1>1 DEF Flush, Transaction
<1>3. \A p \in Request : share[p] \in Nat /\ share[p] <= left(recent)[p] /\ share[p] <= tx[r].amount
  BY <1>0, <1>1 DEF Fills
<1>4. ASSUME NEW p \in Request, share[p] > 0
      PROVE  payment[p].ref # None /\ share[p] <= payment[p].amount - Total(alloc[p])
  <2>1. p \in recent /\ share[p] <= Credit(p)
    BY <1>3, <1>4
  <2>2. payment[p].plate # NoPlate
    BY <1>0, <2>1, FinanceAssumption
  <2> QED BY <2>1, <2>2 DEF CreditInv, GivenTrue, Credit
<1>5. ASSUME NEW p \in Request, payment[p].ref # None
      PROVE  share[p] + SumOf(alloc[p], Settles(tx[r].on)) <= payment[p].amount
  <2>1. SumOf(alloc[p], Settles(tx[r].on)) <= payment[p].amount
    BY <1>0, <1>5 DEF CreditInv, CreditSpentOnce
  <2>2. /\ SumOf(alloc[p], Settles(tx[r].on)) \in Int /\ Total(alloc[p]) \in Int
        /\ SumOf(alloc[p], Settles(tx[r].on)) <= Total(alloc[p])
    <3>1. Settles(tx[r].on) \in SUBSET Request
      BY DEF Settles
    <3> QED BY <3>1, AllocNumbers, SumRecurses, SumPart DEF Inv, Total
  <2>3. payment[p].amount \in Int
    BY DEF Inv, TypeOK, PaymentRow
  <2>4. CASE share[p] > 0
    BY <1>3, <1>4, <2>2, <2>3, <2>4
  <2>5. CASE ~(share[p] > 0)
    BY <1>3, <2>1, <2>2, <2>5
  <2> QED BY <2>4, <2>5
<1> QED BY <1>2, <1>3, <1>4, <1>5

(* Only a charge that exists is marked. *)
LEMMA FlushMarks ==
  ASSUME Inv, CreditInv, NEW r \in Request, Flushes(r), NEW d \in Request
  PROVE  tx'[r].marks[d] # None => charge[d].status # None
<1>0. /\ tx[r] \in Transaction /\ tx \in [Request -> Transaction] /\ charge \in [Request -> ChargeRow]
      /\ tx[r].marks \in [Request -> {"PAID", "VOIDED", None}]
      /\ tx[r].marks[d] # None => charge[d].status # None
  BY DEF Inv, TypeOK, Transaction, CreditInv, GivenTrue
<1>1. CASE InsertPayment(r)
  <2> DEFINE due == [c \in Request |-> IF c \in Payable(tx[r].plate) THEN Outstanding(c) ELSE 0]
  <2>1. PICK share \in [Request -> 0..tx[r].amount] :
               Flush(r, tx[r].on, "ready", Allocate(tx[r], share, due))
    BY <1>1 DEF InsertPayment
  <2> HIDE DEF due
  <2>2. tx'[r].marks[d] # None => share[d] > 0
    BY <1>0, <2>1 DEF Flush, Allocate, Transaction
  <2>3. tx'[r].share = share
    BY <1>0, <2>1 DEF Flush, Allocate, Transaction
  <2> QED BY <1>1, <2>2, <2>3, PayShares
<1>2. CASE SettleExit(r)
  <2>1. tx'[r].marks = tx[r].marks
    BY <1>0, <1>2 DEF SettleExit, Flush, Transaction
  <2> QED BY <1>0, <2>1
<1>3. CASE CreditCharge(r)
  <2> DEFINE c == adjustment[tx[r].on].charge
             paid == Credited(c, adjustment[tx[r].on].amount)
             mark == IF paid < charge[c].amount THEN None ELSE "PAID"
             t == IF charge[c].status # "UNPAID" THEN tx[r]
                  ELSE [tx[r] EXCEPT !.touched = {c}, !.paid[c] = paid, !.marks[c] = mark]
  <2>1. c \in Request
    BY <1>3 DEF CreditCharge, Asked, Inv, RequestsTrue, KindTrue
  <2>2. Flush(r, tx[r].on, "ready", t)
    BY <1>3 DEF CreditCharge
  <2> HIDE DEF paid, c, mark
  <2>3. \/ t.marks = tx[r].marks
        \/ charge[c].status = "UNPAID" /\ t.marks = [tx[r].marks EXCEPT ![c] = mark]
    BY <1>0, <2>1 DEF Transaction
  <2>5. tx'[r] = [t EXCEPT !.rows = @ \cup {tx[r].on}]
    BY <1>0, <2>2 DEF Flush
  <2>6. tx'[r].marks = t.marks
    BY <1>0, <2>1, <2>5 DEF Transaction
  <2> QED BY <1>0, <2>1, <2>3, <2>6 DEF None
<1>4. CASE LockToConfirm(r)
  <2>1. tx'[r].marks = tx[r].marks
    BY <1>0, <1>4 DEF LockToConfirm, Flush, Transaction
  <2> QED BY <1>0, <2>1
<1>5. CASE LockToCancel(r)
  <2>1. PICK c \in First(tx[r].target) :
          Flush(r, tx[r].target, "ready",
                IF c = None \/ ~Voids(c) THEN tx[r] ELSE [tx[r] EXCEPT !.marks[c] = "VOIDED"])
    BY <1>5 DEF LockToCancel
  <2>2. c \in Request \cup {None}
    BY <2>1 DEF First, Of
  <2>3. \/ tx'[r].marks = tx[r].marks
        \/ c \in Request /\ charge[c].status = "UNPAID" /\ tx'[r].marks = [tx[r].marks EXCEPT ![c] = "VOIDED"]
    BY <1>0, <2>1, <2>2 DEF Flush, Transaction, Voids
  <2> QED BY <1>0, <2>3 DEF None
<1>6. CASE LockAppeal(r)
  <2>1. \/ Flush(r, tx[r].on, "appeal", [tx[r] EXCEPT !.target = appeal[tx[r].on].violation])
        \/ Flush(r, tx[r].on, "ready", tx[r])
    BY <1>6 DEF LockAppeal
  <2>2. CASE Flush(r, tx[r].on, "ready", tx[r])
    <3>1. tx'[r].marks = tx[r].marks
      BY <1>0, <2>2 DEF Flush, Transaction
    <3> QED BY <1>0, <3>1
  <2>3. CASE Flush(r, tx[r].on, "appeal", [tx[r] EXCEPT !.target = appeal[tx[r].on].violation])
    <3>1. tx'[r].marks = tx[r].marks
      BY <1>0, <2>3 DEF Flush, Transaction
    <3> QED BY <1>0, <3>1
  <2> QED BY <2>1, <2>2, <2>3
<1> QED BY <1>1, <1>2, <1>3, <1>4, <1>5, <1>6 DEF Flushes

(* The flushes, the beginnings and the ends of requests.                   *)
LEMMA CreditFlush ==
  ASSUME Inv, CreditInv, NEW r \in Request, Flushes(r)
  PROVE  CreditInv'
<1>0. UNCHANGED tables /\ \A q \in Request \ {r} : pc'[q] = pc[q] /\ tx'[q] = tx[q]
  BY FlushKeeps
<1>1. UNCHANGED <<charge, payment, alloc>>
  BY <1>0 DEF tables
<1>2. pc[r] # "done"
  BY FlushKeeps
<1>3. SharesTrue(tx'[r])
  <2>1. CASE InsertPayment(r)
    BY <2>1, PayShares DEF SharesTrue
  <2>2. CASE SettleExit(r)
    BY <2>2, ExitShares DEF SharesTrue
  <2>3. CASE CreditCharge(r) \/ LockToConfirm(r) \/ LockToCancel(r) \/ LockAppeal(r)
    <3>1. tx[r].kind \notin {"pay", "exit"}
      BY <2>3 DEF CreditCharge, LockToConfirm, LockToCancel, LockAppeal, Asked, Inv, RequestsTrue, KindTrue
    <3> QED BY <3>1, FlushKeeps DEF SharesTrue
  <2> QED BY <2>1, <2>2, <2>3 DEF Flushes
<1>4. \A q \in Request : pc'[q] = "ready" => SharesTrue(tx'[q])
  BY <1>0, <1>3 DEF CreditInv
<1>5. \A c \in Request : tx'[r].marks[c] # None => charge[c].status # None
  BY FlushMarks
<1>6. \A q, c \in Request : tx'[q].marks[c] # None => charge[c].status # None
  BY <1>0, <1>5 DEF CreditInv, GivenTrue
<1> QED BY <1>0, <1>1, <1>2, <1>4, <1>6, CreditStays

LEMMA CreditAsk ==
  ASSUME Inv, CreditInv, NEW r \in Request, Ask(r)
  PROVE  CreditInv'
<1>1. PICK t \in Transaction : Begun(r, t)
  BY AskForm
<1>2. /\ UNCHANGED tables /\ pc[r] = "idle"
      /\ \A q \in Request : /\ pc'[q] = IF q = r THEN "asked" ELSE pc[q]
                            /\ tx'[q] = IF q = r THEN t ELSE tx[q]
  BY <1>1 DEF Begun, Begin, Inv, TypeOK
<1>3. \A q \in Request : pc'[q] = "ready" => SharesTrue(tx'[q])
  BY <1>2 DEF CreditInv
<1>4. \A q, c \in Request : tx'[q].marks[c] # None => charge[c].status # None
  BY <1>1, <1>2 DEF CreditInv, GivenTrue, Begun, Fresh
<1> QED BY <1>2, <1>3, <1>4, CreditStays DEF tables

LEMMA CreditEnd ==
  ASSUME Inv, CreditInv, NEW r \in Request, PaymentKnown(r) \/ Fail(r)
  PROVE  CreditInv'
<1>1. PICK step \in {"done", "failed"} :
        /\ pc' = [pc EXCEPT ![r] = step] /\ tx' = [tx EXCEPT ![r] = Blank] /\ UNCHANGED tables
        /\ pc[r] \in Moving
  BY DEF PaymentKnown, Fail, Ends, Rest, tables, Busy, Asked, Moving
<1>2. \A q \in Request : /\ pc'[q] = IF q = r THEN step ELSE pc[q]
                         /\ tx'[q] = IF q = r THEN Blank ELSE tx[q]
  BY <1>1 DEF Inv, TypeOK
<1>3. \A q \in Request : pc'[q] = "ready" => SharesTrue(tx'[q])
  BY <1>2 DEF CreditInv
<1>4. \A q, c \in Request : tx'[q].marks[c] # None => charge[c].status # None
  BY <1>2 DEF CreditInv, GivenTrue, Blank
<1> QED BY <1>1, <1>2, <1>3, <1>4, CreditStays DEF tables, Moving

LEMMA CreditOperators ==
  ASSUME Inv, CreditInv, Operators
  PROVE  CreditInv'
<1>1. UNCHANGED <<charge, payment, alloc, pc, tx>>
  BY DEF Operators, Enter, Register, Fine, Enrol, Submit, Adjust
<1> QED BY <1>1, CreditStays DEF CreditInv, GivenTrue

(* What a commit leaves alone. *)
LEMMA CommitKeeps ==
  ASSUME Inv, CreditInv, NEW r \in Request, Commits(r)
  PROVE  /\ pc[r] = "ready" /\ pc'[r] = "done" /\ tx'[r] = Blank
         /\ \A q \in Request \ {r} : pc'[q] = pc[q] /\ tx'[q] = tx[q] /\ payment'[q] = payment[q]
         /\ \A c \in Request \ {r} : /\ charge'[c].about = charge[c].about
                                     /\ charge'[c].status = None <=> charge[c].status = None
         /\ \A p, c \in Request \ {r} : alloc'[p][c] = alloc[p][c]
<1>1. /\ pc[r] = "ready" /\ pc'[r] = "done" /\ tx'[r] = Blank
      /\ \A q \in Request \ {r} : pc'[q] = pc[q] /\ tx'[q] = tx[q] /\ payment'[q] = payment[q]
  BY DEF Commits, CommitPayment, CommitExit, CommitApproval, CommitConfirm, CommitCancel,
         CommitReview, Ends, Rest, Ready, Inv, TypeOK
<1>2. \A p, c \in Request \ {r} : alloc'[p][c] = alloc[p][c]
  <2>1. alloc \in [Request -> [Request -> Nat]]
    BY DEF Inv, TypeOK
  <2> QED BY <2>1 DEF Commits, CommitPayment, CommitExit, CommitApproval, CommitConfirm, CommitCancel, CommitReview
<1>3. ASSUME NEW c \in Request \ {r}
      PROVE  /\ charge'[c].about = charge[c].about
             /\ charge'[c].status = None <=> charge[c].status = None
  <2>1. charge[c] \in ChargeRow /\ tx[r].marks[c] \in {"PAID", "VOIDED", None}
    BY DEF Inv, TypeOK, Transaction
  <2>2. CASE charge' = Written(r)
    <3>1. charge'[c] = [charge[c] EXCEPT !.paid = IF c \in tx[r].touched THEN tx[r].paid[c] ELSE @,
                                         !.status = IF tx[r].marks[c] # None THEN tx[r].marks[c] ELSE @]
      BY <2>2 DEF Written
    <3>2. tx[r].marks[c] # None => charge[c].status # None
      BY DEF CreditInv, GivenTrue
    <3> QED BY <2>1, <3>1, <3>2 DEF ChargeRow, None
  <2>3. CASE charge'[c] = charge[c]
    BY <2>3
  <2>4. CommitExit(r) \/ CommitConfirm(r) => charge'[c] = charge[c]
    BY DEF CommitExit, CommitConfirm, Inv, TypeOK
  <2> QED BY <2>2, <2>3, <2>4 DEF Commits, CommitPayment, CommitApproval, CommitCancel, CommitReview
<1> QED BY <1>1, <1>2, <1>3

LEMMA SpentNumbers ==
  ASSUME Inv, NEW r \in Request, Commits(r), NEW p \in Request, NEW s \in Session
  PROVE  SumOf(alloc[p], Settles(s)) \in Int /\ SumOf(alloc'[p], Settles(s)') \in Int
<1>1. alloc[p] \in [Request -> Nat] /\ alloc'[p] \in [Request -> Nat] /\ IsFiniteSet(Request)
  BY CommitsType, FinanceAssumption DEF Inv, TypeOK, Commits
<1>2. Settles(s) \in SUBSET Request /\ Settles(s)' \in SUBSET Request
  BY DEF Settles
<1>3. Numbers(alloc[p], Request) /\ Numbers(alloc'[p], Request)
  BY <1>1 DEF Numbers
<1> QED BY <1>2, <1>3, SumRecurses

(* What exits of a session have taken of a payment, after a commit.        *)
LEMMA SpentAfter ==
  ASSUME Inv, CreditInv, NEW r \in Request, Commits(r), NEW s \in Session,
         NEW p \in Request, payment'[p].ref # None
  PROVE  \/ /\ CommitPayment(r) /\ p = r
            /\ SumOf(alloc'[p], Settles(s)') <= payment'[p].amount
         \/ /\ CommitExit(r) /\ tx[r].on = s /\ payment'[p] = payment[p]
            /\ SumOf(alloc'[p], Settles(s)') <= SumOf(alloc[p], Settles(s)) + tx[r].share[p]
         \/ /\ payment'[p] = payment[p]
            /\ SumOf(alloc'[p], Settles(s)') = SumOf(alloc[p], Settles(s))
<1>0. /\ Numbers(alloc[p], Request) /\ alloc[p] \in [Request -> Nat] /\ alloc \in [Request -> [Request -> Nat]]
      /\ tx[r].share \in [Request -> Nat] /\ tx[r] \in Transaction
      /\ payment \in [Request -> PaymentRow]
  BY AllocNumbers DEF Inv, TypeOK, Transaction
<1>1. /\ pc[r] = "ready" /\ charge[r].status = None /\ payment[r].ref = None
      /\ alloc[p][r] = 0 /\ SharesTrue(tx[r])
  BY <1>0, CommitKeeps DEF CreditInv, GivenTrue
<1>2. /\ Settles(s) \in SUBSET Request /\ Settles(s)' \in SUBSET Request
      /\ Settles(s)' \ {r} = Settles(s) \ {r}
  BY CommitKeeps DEF Settles
<1>3. SumOf(alloc[p], Settles(s)) \in Int
  BY <1>0, <1>2, SumRecurses
<1>4. CASE CommitPayment(r) /\ p = r
  <2>1. alloc'[r] = tx[r].share /\ payment'[r].amount = tx[r].amount /\ tx[r].kind = "pay"
    BY <1>0, <1>4 DEF CommitPayment, Ready
  <2>2. SumOf(tx[r].share, Settles(s)') <= Total(tx[r].share) /\ Total(tx[r].share) <= tx[r].amount
    BY <1>1, <1>2, <2>1, AllocNumbers, SumPart DEF SharesTrue, Total, Inv
  <2>3. SumOf(tx[r].share, Settles(s)') \in Int /\ Total(tx[r].share) \in Int /\ tx[r].amount \in Int
    BY <1>0, <1>2, AllocNumbers, SumRecurses DEF Inv, Total, Transaction
  <2> QED BY <1>4, <2>1, <2>2, <2>3
<1>5. CASE CommitExit(r)
  <2>1. p # r
    BY <1>1, <1>5 DEF CommitExit
  <2>2. /\ alloc'[p] = [alloc[p] EXCEPT ![r] = tx[r].share[p]] /\ payment' = payment
        /\ tx[r].on \in Session
    BY <1>0, <1>5 DEF CommitExit, Ready, Inv, RequestsTrue, KindTrue
  <2>3. Numbers(alloc'[p], Request)
    BY <1>0, <2>2 DEF Numbers
  <2>4. /\ SumOf(alloc'[p], Settles(s)') = SumOf(alloc[p], Settles(s)) + (IF r \in Settles(s)' THEN alloc'[p][r] ELSE 0)
    <3>1. \A x \in Request \ {r} : alloc'[p][x] = alloc[p][x]
      BY <1>0, <2>2
    <3> DEFINE g == alloc'[p]
               S2 == Settles(s)'
    <3>2. Numbers(g, Request) /\ S2 \in SUBSET Request /\ S2 \ {r} = Settles(s) \ {r}
          /\ \A x \in Request \ {r} : g[x] = alloc[p][x]
      BY <1>2, <2>3, <3>1
    <3> HIDE DEF g, S2
    <3>3. SumOf(g, S2) = SumOf(alloc[p], Settles(s)) + (IF r \in S2 THEN g[r] ELSE 0)
      BY <1>0, <1>1, <1>2, <3>2, SumChange
    <3> QED BY <3>3 DEF g, S2
  <2>5. alloc'[p][r] = tx[r].share[p] /\ tx[r].share[p] \in Nat
    BY <1>0, <2>2
  <2>6. CASE tx[r].on = s
    BY <1>3, <1>5, <2>2, <2>4, <2>5, <2>6
  <2>7. CASE tx[r].on # s
    <3>1. r \notin Settles(s)' \/ tx[r].share[p] = 0
      <4>1. CASE tx[r].amount = 0
        <5>1. tx[r].kind = "exit"
          BY <1>5 DEF CommitExit, Ready
        <5> QED BY <1>1, <2>5, <4>1, <5>1 DEF SharesTrue
      <4>2. CASE tx[r].amount # 0
        <5>1. charge'[r].about = tx[r].on
          BY <1>5, <4>2 DEF CommitExit, Inv, TypeOK
        <5> QED BY <2>2, <2>7, <5>1, FinanceAssumption DEF Settles
      <4> QED BY <4>1, <4>2
    <3> QED BY <1>3, <2>2, <2>4, <2>5, <3>1
  <2> QED BY <2>6, <2>7
<1>6. CASE payment'[p] = payment[p] /\ alloc'[p] = alloc[p]
  <2>1. SumOf(alloc[p], Settles(s)') = SumOf(alloc[p], Settles(s)) + (IF r \in Settles(s)' THEN alloc[p][r] ELSE 0)
    BY <1>0, <1>1, <1>2, SumChange
  <2> QED BY <1>1, <1>3, <1>6, <2>1
<1>7. CASE CommitPayment(r) /\ p # r
  BY <1>0, <1>6, <1>7 DEF CommitPayment
<1> QED BY <1>4, <1>5, <1>6, <1>7 DEF Commits, CommitApproval, CommitConfirm, CommitCancel, CommitReview

(* A commit makes its row and gives to charges that exist.                 *)
LEMMA CommitGiven ==
  ASSUME Inv, CreditInv, NEW r \in Request, Commits(r)
  PROVE  GivenTrue'
<1>0. /\ pc[r] = "ready" /\ SharesTrue(tx[r]) /\ GivenTrue
      /\ charge[r].status = None /\ payment[r].ref = None
      /\ alloc \in [Request -> [Request -> Nat]] /\ payment \in [Request -> PaymentRow]
      /\ charge \in [Request -> ChargeRow] /\ tx[r].share \in [Request -> Nat]
  BY CommitKeeps DEF CreditInv, GivenTrue, Inv, TypeOK, Transaction
<1>1. ASSUME NEW q \in Request, pc'[q] # "done"
      PROVE  charge'[q].status = None /\ charge'[q].about = None /\ payment'[q].ref = None
  <2>1. q # r
    BY <1>1, CommitKeeps
  <2> QED BY <1>0, <1>1, <2>1, CommitKeeps DEF GivenTrue
<1>2. CommitPayment(r) => payment'[r].ref # None
  BY <1>0, FinanceAssumption DEF CommitPayment, Ready, Inv, RequestsTrue, KindTrue
<1>3. ASSUME NEW p \in Request, payment'[p].plate # NoPlate
      PROVE  payment'[p].ref # None
  <2>1. CASE UNCHANGED payment
    BY <1>0, <1>3, <2>1 DEF GivenTrue
  <2>2. CASE CommitPayment(r)
    BY <1>0, <1>2, <1>3, <2>2, CommitKeeps DEF GivenTrue
  <2> QED BY <2>1, <2>2 DEF Commits, CommitExit, CommitApproval, CommitConfirm, CommitCancel, CommitReview
<1>4. ASSUME NEW p \in Request, NEW c \in Request, alloc'[p][c] > 0
      PROVE  charge'[c].status # None /\ payment'[p].ref # None
  <2>0. \A d \in Request : charge[d].status # None => d # r /\ charge'[d].status # None
    BY <1>0, CommitKeeps
  <2>1. CASE alloc'[p][c] = alloc[p][c]
    <3>1. charge[c].status # None /\ payment[p].ref # None
      BY <1>0, <1>4, <2>1 DEF GivenTrue
    <3>2. p # r
      BY <1>0, <3>1
    <3> QED BY <2>0, <3>1, <3>2, CommitKeeps
  <2>2. CASE CommitPayment(r) /\ p = r
    <3>1. alloc'[r] = tx[r].share /\ tx[r].kind = "pay"
      BY <1>0, <2>2 DEF CommitPayment, Ready
    <3>2. charge[c].status # None
      BY <1>0, <1>4, <2>2, <3>1 DEF SharesTrue
    <3> QED BY <1>2, <2>0, <2>2, <3>2
  <2>3. CASE CommitExit(r) /\ c = r
    <3>1. alloc'[p][r] = tx[r].share[p] /\ tx[r].kind = "exit" /\ payment' = payment
      BY <1>0, <2>3 DEF CommitExit, Ready
    <3>2. payment[p].ref # None /\ tx[r].amount # 0
      <4>1. tx[r].share[p] > 0 /\ tx[r].share[p] <= tx[r].amount /\ tx[r].amount \in Nat
        BY <1>0, <1>4, <2>3, <3>1 DEF SharesTrue, Inv, TypeOK, Transaction
      <4> QED BY <1>0, <3>1, <4>1 DEF SharesTrue
    <3>3. charge'[r].status \in {"UNPAID", "PAID"}
      BY <1>0, <2>3, <3>2 DEF CommitExit
    <3> QED BY <2>3, <3>1, <3>2, <3>3 DEF None
  <2>4. CASE CommitPayment(r) /\ p # r
    BY <1>0, <2>1, <2>4 DEF CommitPayment
  <2>5. CASE CommitExit(r) /\ c # r
    BY <1>0, <2>1, <2>5 DEF CommitExit
  <2> QED BY <2>1, <2>2, <2>3, <2>4, <2>5 DEF Commits, CommitApproval, CommitConfirm, CommitCancel, CommitReview
<1>5. \A q, c \in Request : tx'[q].marks[c] # None => charge'[c].status # None
  <2> TAKE q, c \in Request
  <2> HAVE tx'[q].marks[c] # None
  <2>1. q # r /\ tx'[q] = tx[q]
    BY CommitKeeps DEF Blank
  <2>2. charge[c].status # None
    BY <1>0, <2>1 DEF GivenTrue
  <2> QED BY <1>0, <2>2, CommitKeeps
<1> QED BY <1>1, <1>3, <1>4, <1>5 DEF GivenTrue

LEMMA CreditCommit ==
  ASSUME Inv, CreditInv, NEW r \in Request, Commits(r)
  PROVE  CreditInv'
<1>0. /\ pc[r] = "ready" /\ SharesTrue(tx[r])
      /\ charge[r].status = None /\ payment[r].ref = None
      /\ tx[r].share \in [Request -> Nat] /\ payment \in [Request -> PaymentRow]
  BY CommitKeeps DEF CreditInv, GivenTrue, Inv, TypeOK, Transaction
<1>1. CreditSpentOnce'
  <2> SUFFICES ASSUME NEW p \in Request, NEW s \in Session, payment'[p].ref # None
               PROVE  SumOf(alloc'[p], Settles(s)') <= payment'[p].amount
    BY DEF CreditSpentOnce
  <2>1. CASE CommitPayment(r) /\ p = r
    <3>1. ~CommitExit(r) /\ payment'[r] # payment[r]
      BY <1>0, <2>1 DEF CommitPayment, CommitExit, Ready
    <3> QED BY <2>1, <3>1, SpentAfter
  <2>2. CASE CommitExit(r) /\ tx[r].on = s
    <3>1. /\ tx[r].kind = "exit" /\ payment'[p] = payment[p] /\ ~CommitPayment(r)
          /\ tx[r].share[p] + SumOf(alloc[p], Settles(s)) <= payment[p].amount
      BY <1>0, <2>2 DEF CommitExit, CommitPayment, Ready, SharesTrue
    <3>2. /\ SumOf(alloc[p], Settles(s)) \in Int /\ SumOf(alloc'[p], Settles(s)') \in Int
          /\ payment[p].amount \in Int
      BY <1>0, SpentNumbers DEF PaymentRow
    <3> QED BY <1>0, <2>2, <3>1, <3>2, SpentAfter
  <2>3. CASE payment'[p] = payment[p] /\ SumOf(alloc'[p], Settles(s)') = SumOf(alloc[p], Settles(s))
    BY <2>3 DEF CreditInv, CreditSpentOnce
  <2> QED BY <2>1, <2>2, <2>3, SpentAfter
<1>2. ASSUME NEW q \in Request, q # r, pc'[q] = "ready"
      PROVE  SharesTrue(tx[q])'
  <2>1. tx'[q] = tx[q] /\ SharesTrue(tx[q])
    BY <1>2, CommitKeeps DEF CreditInv
  <2>2. tx[q].kind = "pay" => \A c \in Request : tx[q].share[c] > 0 => charge'[c].status # None
    BY <1>0, <2>1, CommitKeeps DEF SharesTrue
  <2>3. ASSUME tx[q].kind = "exit", NEW s \in Session, s = tx[q].on
        PROVE  /\ \A p \in Request : tx[q].share[p] > 0 => payment'[p].ref # None
               /\ \A p \in Request : payment'[p].ref # None =>
                    tx[q].share[p] + SumOf(alloc'[p], Settles(s)') <= payment'[p].amount
    <3>1. tx[q].share \in [Request -> Nat]
      BY DEF Inv, TypeOK, Transaction
    <3>2. \A p \in Request : tx[q].share[p] > 0 => payment'[p].ref # None
      BY <1>0, <2>1, <2>3, CommitKeeps DEF SharesTrue
    <3>3. ASSUME NEW p \in Request, payment'[p].ref # None
          PROVE  tx[q].share[p] + SumOf(alloc'[p], Settles(s)') <= payment'[p].amount
      <4>1. CASE p = r /\ CommitPayment(r)
        <5>1. tx[q].share[r] = 0
          BY <1>0, <2>1, <2>3, <3>1 DEF SharesTrue
        <5>2. payment'[r] # payment[r] /\ ~CommitExit(r)
          BY <3>3, <1>0, <4>1 DEF CommitPayment, CommitExit, Ready
        <5>3. SumOf(alloc'[p], Settles(s)') <= payment'[p].amount
          BY <3>3, <4>1, <5>2, SpentAfter
        <5>4. SumOf(alloc'[p], Settles(s)') \in Int
          BY SpentNumbers
        <5> QED BY <4>1, <5>1, <5>3, <5>4
      <4>2. CASE CommitExit(r) /\ tx[r].on = s
        <5>1. tx[r].on \in tx[r].rows /\ tx[q].on \in tx[q].rows /\ tx[q].rows \cap tx[r].rows = {}
          BY <1>0, <1>2, <2>1, <2>3, <4>2 DEF SharesTrue, CommitExit, Ready, Inv, LocksHeld
        <5> QED BY <2>3, <4>2, <5>1
      <4>3. CASE payment'[p] = payment[p] /\ SumOf(alloc'[p], Settles(s)') = SumOf(alloc[p], Settles(s))
        BY <2>1, <2>3, <3>3, <4>3 DEF SharesTrue
      <4> QED BY <3>3, <4>1, <4>2, <4>3, SpentAfter
    <3> QED BY <3>2, <3>3
  <2>4. tx[q].kind = "exit" => tx[q].on \in Session
    BY DEF Inv, RequestsTrue, KindTrue
  <2> QED BY <2>1, <2>2, <2>3, <2>4 DEF SharesTrue
<1>3. \A q \in Request : pc'[q] = "ready" => SharesTrue(tx[q])'
  BY <1>2, CommitKeeps
<1> QED BY <1>1, <1>3, CommitGiven DEF CreditInv

LEMMA CreditStart == Init => CreditInv
<1> SUFFICES ASSUME Init
             PROVE  CreditInv
  OBVIOUS
<1>0. /\ alloc = [p \in Request |-> Nothing] /\ IsFiniteSet(Request)
      /\ \A r \in Request : /\ tx[r] = Blank /\ pc[r] = "idle" /\ charge[r] = NoCharge /\ payment[r] = NoPayment
                            /\ alloc[r] = Nothing
  BY FinanceAssumption DEF Init
<1>1. GivenTrue
  BY <1>0 DEF GivenTrue, NoCharge, NoPayment, Blank, Nothing
<1>2. CreditSpentOnce
  BY <1>0 DEF CreditSpentOnce, NoPayment
<1> QED BY <1>0, <1>1, <1>2 DEF CreditInv

LEMMA CreditStep == Inv /\ CreditInv /\ [Next]_vars => CreditInv'
<1> SUFFICES ASSUME Inv, CreditInv, [Next]_vars
             PROVE  CreditInv'
  OBVIOUS
<1>1. ASSUME NEW r \in Request, Work(r)
      PROVE  CreditInv'
  BY <1>1, CreditFlush, CreditCommit, CreditEnd DEF Work, Flushes, Commits
<1>2. CASE UNCHANGED vars
  BY <1>2, CreditStays DEF vars, tables, CreditInv, GivenTrue
<1> QED BY <1>1, <1>2, CreditAsk, CreditEnd, CreditOperators DEF Next, Operators

(* The exits of a session, however many run at once, take no more of a     *)
(* payment than it is worth.                                               *)
THEOREM CreditIsSpentOnce == Spec => []CreditSpentOnce
<1>1. Init => Inv /\ CreditInv
  BY InitInv, CreditStart
<1>2. Inv /\ CreditInv /\ [Next]_vars => (Inv /\ CreditInv)'
  BY StepInv, CreditStep
<1>3. CreditInv => CreditSpentOnce
  BY DEF CreditInv
<1> QED BY <1>1, <1>2, <1>3, PTL DEF Spec

-----------------------------------------------------------------------------
(***************************************************************************)
(* Requests that do not overlap: the verdicts.                             *)
(***************************************************************************)
(* What a request has read of violation and appeal.                        *)
VerdictTrue(t, step) ==
  /\ step # "ready" => Fresh(t)
  /\ t.kind = "confirm" => /\ violation[t.target] = "REGISTERED"
                           /\ step = "ready" => (t.adds <=> Penalty[t.target] > 0)
  /\ t.kind = "review" => /\ step = "appeal" => t.target = appeal[t.on].violation
                          /\ step = "ready" /\ t.result = "ACCEPTED" =>
                               \/ t.target = appeal[t.on].violation
                               \/ violation[appeal[t.on].violation] = "CANCELLED"
  /\ \A c \in Request : t.marks[c] = "VOIDED" => /\ charge[c].about = t.target /\ t.target # None
                                                 /\ charge[c].status = "UNPAID"
                                                 /\ t.kind \in {"cancel", "review"}

VerdictTables ==
  /\ \A v \in Violation : violation[v] \notin {"CONFIRMED", "CANCELLED"} => Of(v) = {}
  /\ \A a \in Appeal : appeal[a].status # None =>
       violation[appeal[a].violation] \in {"REGISTERED", "CONFIRMED", "CANCELLED"}
  /\ VerdictsBooked

VerdictInv ==
  /\ Apart /\ VerdictTables
  /\ \A r \in Busy : VerdictTrue(tx[r], pc[r])

(* A step of the one request under way that leaves the tables alone.       *)
LEMMA VerdictMoves ==
  ASSUME VerdictInv, NEW r \in Request, UNCHANGED tables,
         Busy' \subseteq {r}, r \in Busy' => VerdictTrue(tx'[r], pc'[r])
  PROVE  VerdictInv'
<1>1. VerdictTables'
  BY DEF VerdictInv, VerdictTables, VerdictsBooked, ConfirmedIsCharged, AcceptedMeansCancelled, Of, tables
<1>2. Apart'
  BY DEF Apart
<1>3. r \in Busy' => VerdictTrue(tx[r], pc[r])'
  BY DEF VerdictTrue, Fresh, tables
<1> QED BY <1>1, <1>2, <1>3 DEF VerdictInv

(* A request under way is the only one.                                    *)
LEMMA OnlyOne ==
  ASSUME Inv, Apart, NEW r \in Request, r \in Busy
  PROVE  Busy = {r}
BY DEF Apart

(* If a request that begins is alone, nobody was at work before.           *)
LEMMA FirstAlone ==
  ASSUME Apart', NEW r \in Request, pc[r] = "idle",
         \A q \in Request : pc'[q] = IF q = r THEN "asked" ELSE pc[q]
  PROVE  Busy = {}
<1>1. r \in Busy' /\ r \notin Busy /\ Busy \subseteq Busy'
  BY DEF Busy
<1> QED BY <1>1 DEF Apart

(* What a flush leaves the request with has just been read.                *)
LEMMA FlushVerdict ==
  ASSUME Inv, VerdictInv, NEW r \in Request, Flushes(r)
  PROVE  VerdictTrue(tx'[r], pc'[r])
<1>0. /\ tx[r] \in Transaction /\ tx \in [Request -> Transaction] /\ pc \in [Request -> Steps]
      /\ charge \in [Request -> ChargeRow]
      /\ tx[r].marks \in [Request -> {"PAID", "VOIDED", None}]
  BY DEF Inv, TypeOK, Transaction, Steps
<1>1. /\ pc[r] \in {"asked", "appeal"} /\ VerdictTrue(tx[r], pc[r]) /\ KindTrue(tx[r], pc[r])
  <2>1. pc[r] \in {"asked", "appeal"}
    BY FlushKeeps
  <2> QED BY <2>1 DEF VerdictInv, Busy, Inv, RequestsTrue
<1>2. \A c \in Request : tx[r].marks[c] = None
  BY <1>1 DEF VerdictTrue, Fresh
<1>3. CASE InsertPayment(r)
  <2> DEFINE due == [c \in Request |-> IF c \in Payable(tx[r].plate) THEN Outstanding(c) ELSE 0]
  <2>1. PICK share \in [Request -> 0..tx[r].amount] :
               Flush(r, tx[r].on, "ready", Allocate(tx[r], share, due))
    BY <1>3 DEF InsertPayment
  <2> HIDE DEF due
  <2>2. tx'[r].kind = "pay" /\ pc'[r] = "ready" /\ \A c \in Request : tx'[r].marks[c] # "VOIDED"
    BY <1>0, <1>3, <2>1 DEF Flush, Allocate, Transaction, InsertPayment, Asked, None
  <2> QED BY <2>2 DEF VerdictTrue
<1>4. CASE SettleExit(r)
  <2>1. tx'[r].kind = "exit" /\ pc'[r] = "ready" /\ tx'[r].marks = tx[r].marks
    BY <1>0, <1>4 DEF SettleExit, Flush, Transaction, Asked
  <2> QED BY <1>2, <2>1 DEF VerdictTrue, None
<1>5. CASE CreditCharge(r)
  <2> DEFINE c == adjustment[tx[r].on].charge
             paid == Credited(c, adjustment[tx[r].on].amount)
             mark == IF paid < charge[c].amount THEN None ELSE "PAID"
             t == IF charge[c].status # "UNPAID" THEN tx[r]
                  ELSE [tx[r] EXCEPT !.touched = {c}, !.paid[c] = paid, !.marks[c] = mark]
  <2>1. c \in Request /\ tx[r].kind = "approve" /\ mark # "VOIDED"
    BY <1>5 DEF CreditCharge, Asked, Inv, RequestsTrue, KindTrue, None
  <2>2. Flush(r, tx[r].on, "ready", t)
    BY <1>5 DEF CreditCharge
  <2> HIDE DEF paid, c, mark
  <2>3. t.marks = tx[r].marks \/ t.marks = [tx[r].marks EXCEPT ![c] = mark]
    BY <1>0, <2>1 DEF Transaction
  <2>4. tx'[r] = [t EXCEPT !.rows = @ \cup {tx[r].on}] /\ pc'[r] = "ready"
    BY <1>0, <2>2 DEF Flush
  <2>5. tx'[r].marks = t.marks /\ tx'[r].kind = "approve"
    BY <1>0, <2>1, <2>4 DEF Transaction
  <2>6. \A d \in Request : tx'[r].marks[d] # "VOIDED"
    BY <1>0, <1>2, <2>1, <2>3, <2>5 DEF None
  <2> QED BY <2>4, <2>5, <2>6 DEF VerdictTrue
<1>6. CASE LockToConfirm(r)
  <2>1. /\ tx'[r].kind = "confirm" /\ pc'[r] = "ready" /\ tx'[r].marks = tx[r].marks
        /\ tx'[r].target = tx[r].target /\ tx'[r].adds = Charges(tx[r].target)
        /\ tx[r].kind = "confirm" /\ tx[r].target \in Violation
    BY <1>0, <1>1, <1>6 DEF LockToConfirm, Flush, Transaction, Asked, KindTrue
  <2>2. violation[tx[r].target] = "REGISTERED" /\ Of(tx[r].target) = {}
    BY <1>1, <2>1 DEF VerdictTrue, VerdictInv, VerdictTables
  <2> QED BY <1>2, <2>1, <2>2 DEF VerdictTrue, None, Charges
<1>7. CASE LockToCancel(r)
  <2>1. PICK c \in First(tx[r].target) :
          Flush(r, tx[r].target, "ready",
                IF c = None \/ ~Voids(c) THEN tx[r] ELSE [tx[r] EXCEPT !.marks[c] = "VOIDED"])
    BY <1>7 DEF LockToCancel
  <2>2. /\ c \in Request \cup {None} /\ (c \in Request => charge[c].about = tx[r].target)
        /\ tx[r].target \in Violation /\ tx[r].kind \in {"cancel", "review"}
        /\ tx[r].kind = "review" => pc[r] = "appeal"
    BY <1>1, <1>7, <2>1, FinanceAssumption DEF First, Of, LockToCancel, Asked, KindTrue
  <2>3. /\ tx'[r].kind = tx[r].kind /\ tx'[r].on = tx[r].on /\ tx'[r].target = tx[r].target /\ pc'[r] = "ready"
        /\ \/ tx'[r].marks = tx[r].marks
           \/ /\ c \in Request /\ charge[c].status = "UNPAID"
              /\ tx'[r].marks = [tx[r].marks EXCEPT ![c] = "VOIDED"]
    BY <1>0, <2>1, <2>2 DEF Flush, Transaction, Voids
  <2>4. tx[r].kind = "review" => tx[r].target = appeal[tx[r].on].violation
    BY <1>1, <2>2 DEF VerdictTrue
  <2>5. \A d \in Request : tx'[r].marks[d] = "VOIDED" =>
          charge[d].about = tx[r].target /\ charge[d].status = "UNPAID"
    BY <1>0, <1>2, <2>2, <2>3 DEF None
  <2> QED BY <2>2, <2>3, <2>4, <2>5, FinanceAssumption DEF VerdictTrue
<1>8. CASE LockAppeal(r)
  <2> DEFINE v == appeal[tx[r].on].violation
  <2>0. tx[r].kind = "review" /\ tx[r].on \in Appeal /\ appeal[tx[r].on].status # None
    BY <1>1, <1>8 DEF LockAppeal, Asked, KindTrue
  <2>1. CASE tx[r].result = "ACCEPTED" /\ violation[v] \in Cancellable
    <3>1. Flush(r, tx[r].on, "appeal", [tx[r] EXCEPT !.target = v])
      BY <1>8, <2>1 DEF LockAppeal
    <3>2. /\ tx'[r].kind = "review" /\ tx'[r].on = tx[r].on /\ tx'[r].target = v /\ pc'[r] = "appeal"
          /\ tx'[r].marks = tx[r].marks /\ tx'[r].touched = tx[r].touched
      BY <1>0, <2>0, <3>1 DEF Flush, Transaction
    <3>3. Fresh(tx'[r])
      BY <1>1, <3>2 DEF VerdictTrue, Fresh
    <3> QED BY <1>2, <3>2, <3>3 DEF VerdictTrue, None
  <2>2. CASE ~(tx[r].result = "ACCEPTED" /\ violation[v] \in Cancellable)
    <3>1. Flush(r, tx[r].on, "ready", tx[r])
      BY <1>8, <2>2 DEF LockAppeal
    <3>2. /\ tx'[r].kind = "review" /\ tx'[r].on = tx[r].on /\ tx'[r].result = tx[r].result /\ pc'[r] = "ready"
          /\ tx'[r].marks = tx[r].marks
      BY <1>0, <2>0, <3>1 DEF Flush, Transaction
    <3>3. tx[r].result = "ACCEPTED" => violation[v] = "CANCELLED"
      BY <2>0, <2>2 DEF VerdictInv, VerdictTables, Cancellable
    <3> QED BY <1>2, <3>2, <3>3 DEF VerdictTrue, None
  <2> QED BY <2>1, <2>2
<1> QED BY <1>3, <1>4, <1>5, <1>6, <1>7, <1>8 DEF Flushes

LEMMA VerdictAsk ==
  ASSUME Inv, VerdictInv, Apart', NEW r \in Request, Ask(r)
  PROVE  VerdictInv'
<1>1. PICK t \in Transaction : Begun(r, t)
  BY AskForm
<1>2. /\ UNCHANGED tables /\ pc[r] = "idle"
      /\ \A q \in Request : pc'[q] = IF q = r THEN "asked" ELSE pc[q]
      /\ tx'[r] = t
  BY <1>1 DEF Begun, Begin, Inv, TypeOK
<1>3. Busy = {}
  BY <1>2, FirstAlone
<1>4. Busy' \subseteq {r} /\ pc'[r] = "asked"
  BY <1>2, <1>3 DEF Busy
<1>5. t.kind = "confirm" => violation[t.target] = "REGISTERED"
  <2>1. ASSUME NEW v \in Violation, Confirm(r, v)
        PROVE  tx'[r].target = v /\ violation[v] = "REGISTERED"
    BY <2>1 DEF Confirm, Transitions, Begin, Blank, Inv, TypeOK, ViolationStatus, None
  <2>2. CASE \A v \in Violation : ~Confirm(r, v)
    <3>0. tx \in [Request -> Transaction] /\ Blank.kind = None
      BY DEF Inv, TypeOK, Blank
    <3>1. ASSUME NEW ref \in Reference, NEW p \in Plate \cup {NoPlate}, NEW n \in Amounts, Pay(r, ref, p, n)
          PROVE  tx'[r].kind = "pay"
      BY <3>0, <3>1 DEF Pay, Begin, Blank
    <3>2. ASSUME NEW x \in Session, NEW n \in Amounts, Exit(r, x, n)
          PROVE  tx'[r].kind = "exit"
      BY <3>0, <3>2 DEF Exit, Begin, Blank
    <3>3. ASSUME NEW a \in Adjustment, Approve(r, a)
          PROVE  tx'[r].kind = "approve"
      BY <3>0, <3>3 DEF Approve, Begin, Blank
    <3>4. ASSUME NEW v \in Violation, Cancel(r, v)
          PROVE  tx'[r].kind = "cancel"
      BY <3>0, <3>4 DEF Cancel, Begin, Blank
    <3>5. ASSUME NEW a \in Appeal, NEW d \in {"ACCEPTED", "REJECTED"}, Review(r, a, d)
          PROVE  tx'[r].kind = "review"
      BY <3>0, <3>5 DEF Review, Begin, Blank
    <3> QED BY <1>2, <2>2, <3>1, <3>2, <3>3, <3>4, <3>5 DEF Ask
  <2> QED BY <1>2, <2>1, <2>2
<1>6. VerdictTrue(t, "asked")
  BY <1>1, <1>5 DEF VerdictTrue, Begun, Fresh, None
<1> QED BY <1>2, <1>4, <1>6, VerdictMoves

LEMMA VerdictFlush ==
  ASSUME Inv, VerdictInv, NEW r \in Request, Flushes(r)
  PROVE  VerdictInv'
<1>1. /\ UNCHANGED tables /\ r \in Busy
      /\ \A q \in Request \ {r} : pc'[q] = pc[q]
  BY FlushKeeps DEF Busy
<1>2. Busy' \subseteq {r}
  BY <1>1, OnlyOne DEF Busy, VerdictInv
<1> QED BY <1>1, <1>2, FlushVerdict, VerdictMoves

LEMMA VerdictEnd ==
  ASSUME Inv, VerdictInv, NEW r \in Request, PaymentKnown(r) \/ Fail(r)
  PROVE  VerdictInv'
<1>1. PICK step \in {"done", "failed"} :
        pc' = [pc EXCEPT ![r] = step] /\ UNCHANGED tables /\ r \in Busy
  BY DEF PaymentKnown, Fail, Ends, tables, Busy, Asked
<1>2. Busy = {r}
  BY <1>1, OnlyOne DEF VerdictInv
<1>3. Busy' = {}
  BY <1>1, <1>2 DEF Busy, Inv, TypeOK
<1> QED BY <1>1, <1>3, VerdictMoves

(* What a commit of one request makes of charges and violations.           *)
LEMMA CommitWrites ==
  ASSUME Inv, CreditInv, VerdictInv, NEW r \in Request, Commits(r)
  PROVE  /\ \A c \in Request \ {r} :
              /\ charge'[c].amount = charge[c].amount
              /\ \/ charge'[c].status = charge[c].status
                 \/ charge'[c].status = "PAID"
                 \/ /\ charge'[c].status = "VOIDED" /\ charge[c].about \in Violation
                    /\ violation'[charge[c].about] = "CANCELLED"
         /\ \A v \in Violation :
              \/ violation'[v] = violation[v]
              \/ violation'[v] = "CANCELLED"
              \/ /\ violation[v] = "REGISTERED" /\ violation'[v] = "CONFIRMED"
                 /\ (Penalty[v] > 0 => charge'[r] = [about |-> v, amount |-> Penalty[v],
                                                     paid |-> 0, status |-> "UNPAID"])
         /\ charge'[r].about \in Violation => violation'[charge'[r].about] \in {"CONFIRMED", "CANCELLED"}
<1>0. /\ pc[r] = "ready" /\ VerdictTrue(tx[r], "ready") /\ KindTrue(tx[r], "ready")
      /\ charge[r].about = None /\ charge \in [Request -> ChargeRow]
      /\ violation \in [Violation -> ViolationStatus \cup {None}]
      /\ tx[r].marks \in [Request -> {"PAID", "VOIDED", None}] /\ tx[r].target \in Violation \cup {None}
  <2>1. pc[r] = "ready"
    BY CommitKeeps
  <2> QED BY <2>1 DEF CreditInv, GivenTrue, VerdictInv, Busy, Inv, TypeOK, RequestsTrue, Transaction
<1>1. ASSUME charge' = Written(r),
             tx[r].kind \in {"cancel", "review"} /\ tx[r].target # None => violation'[tx[r].target] = "CANCELLED",
             NEW c \in Request
      PROVE  /\ charge'[c].amount = charge[c].amount /\ charge'[c].about = charge[c].about
             /\ \/ charge'[c].status = charge[c].status
                \/ charge'[c].status = "PAID"
                \/ /\ charge'[c].status = "VOIDED" /\ charge[c].about \in Violation
                   /\ violation'[charge[c].about] = "CANCELLED"
  <2>1. charge'[c] = [charge[c] EXCEPT !.paid = IF c \in tx[r].touched THEN tx[r].paid[c] ELSE @,
                                       !.status = IF tx[r].marks[c] # None THEN tx[r].marks[c] ELSE @]
    BY <1>1 DEF Written
  <2>2. charge[c] \in ChargeRow
    BY <1>0
  <2>3. /\ charge'[c].amount = charge[c].amount /\ charge'[c].about = charge[c].about
        /\ charge'[c].status = IF tx[r].marks[c] # None THEN tx[r].marks[c] ELSE charge[c].status
    BY <2>1, <2>2 DEF ChargeRow
  <2>4. tx[r].marks[c] = "VOIDED" => /\ charge[c].about \in Violation
                                     /\ violation'[charge[c].about] = "CANCELLED"
    BY <1>0, <1>1 DEF VerdictTrue
  <2> QED BY <1>0, <2>3, <2>4
<1>2. CASE CommitPayment(r) \/ CommitApproval(r)
  BY <1>0, <1>1, <1>2, FinanceAssumption DEF CommitPayment, CommitApproval, Ready
<1>3. CASE CommitCancel(r)
  <2>1. violation' = [violation EXCEPT ![tx[r].target] = "CANCELLED"] /\ charge' = Written(r)
    BY <1>3 DEF CommitCancel
  <2> QED BY <1>0, <1>1, <2>1, FinanceAssumption
<1>4. CASE CommitReview(r)
  <2>1. violation' = [v \in Violation |-> IF v = tx[r].target THEN "CANCELLED" ELSE violation[v]] /\ charge' = Written(r)
    BY <1>4 DEF CommitReview
  <2> QED BY <1>0, <1>1, <2>1, FinanceAssumption
<1>5. CASE CommitExit(r)
  <2>1. /\ \A c \in Request \ {r} : charge'[c] = charge[c]
        /\ violation' = violation /\ tx[r].on \in Session
        /\ charge'[r] = charge[r] \/ charge'[r].about = tx[r].on
    BY <1>0, <1>5 DEF CommitExit, Ready, KindTrue
  <2> QED BY <1>0, <2>1, FinanceAssumption
<1>6. CASE CommitConfirm(r)
  <2> DEFINE new == [about |-> tx[r].target, amount |-> Penalty[tx[r].target], paid |-> 0, status |-> "UNPAID"]
  <2>1. /\ tx[r].target \in Violation /\ violation[tx[r].target] = "REGISTERED"
        /\ tx[r].adds <=> Penalty[tx[r].target] > 0
        /\ violation' = [violation EXCEPT ![tx[r].target] = "CONFIRMED"]
        /\ charge' = IF tx[r].adds THEN [charge EXCEPT ![r] = new] ELSE charge
    BY <1>0, <1>6 DEF CommitConfirm, Ready, KindTrue, VerdictTrue
  <2>2. \A c \in Request \ {r} : charge'[c] = charge[c]
    BY <1>0, <2>1
  <2>3. /\ charge'[r] = charge[r] \/ charge'[r] = new
        /\ tx[r].adds => charge'[r] = new
    BY <1>0, <2>1
  <2>4. charge'[r].about \in Violation => charge'[r].about = tx[r].target
    BY <1>0, <2>3, FinanceAssumption
  <2> QED BY <1>0, <2>1, <2>2, <2>3, <2>4
<1> QED BY <1>2, <1>3, <1>4, <1>5, <1>6 DEF Commits

(* Commits keep charges and verdicts together.                             *)
LEMMA VerdictCommit ==
  ASSUME Inv, CreditInv, VerdictInv, NEW r \in Request, Commits(r)
  PROVE  VerdictInv'
<1>0. /\ pc[r] = "ready" /\ pc'[r] = "done" /\ r \in Busy /\ charge[r].about = None
      /\ \A q \in Request \ {r} : pc'[q] = pc[q]
      /\ VerdictTrue(tx[r], "ready") /\ KindTrue(tx[r], "ready")
  <2>1. pc[r] = "ready" /\ pc'[r] = "done" /\ \A q \in Request \ {r} : pc'[q] = pc[q]
    BY CommitKeeps
  <2> QED BY <2>1 DEF CreditInv, GivenTrue, VerdictInv, Busy, Inv, RequestsTrue
<1>1. Busy' = {}
  BY <1>0, OnlyOne DEF Busy, VerdictInv
<1>2. \A v \in Violation : violation'[v] \notin {"CONFIRMED", "CANCELLED"} => Of(v)' = {}
  <2> SUFFICES ASSUME NEW v \in Violation, NEW c \in Request, charge'[c].about = v,
                      violation'[v] \notin {"CONFIRMED", "CANCELLED"}
               PROVE  FALSE
    BY DEF Of
  <2>1. c # r
    BY CommitWrites
  <2>2. charge[c].about = v
    BY <2>1, CommitKeeps
  <2>3. violation[v] \in {"CONFIRMED", "CANCELLED"}
    BY <2>2 DEF VerdictInv, VerdictTables, Of
  <2>4. violation'[v] = violation[v]
    BY CommitWrites
  <2> QED BY <2>3, <2>4
<1>3. \A a \in Appeal : appeal'[a].status # None =>
        appeal[a].status # None /\ appeal'[a].violation = appeal[a].violation
  <2>1. CASE appeal' = appeal
    BY <2>1
  <2>2. CASE CommitReview(r)
    BY <1>0, <2>2 DEF CommitReview, Ready, KindTrue, Inv, TypeOK, AppealRow
  <2> QED BY <2>1, <2>2 DEF Commits, CommitPayment, CommitExit, CommitApproval, CommitConfirm, CommitCancel
<1>4. \A a \in Appeal : appeal'[a].status # None =>
        violation'[appeal'[a].violation] \in {"REGISTERED", "CONFIRMED", "CANCELLED"}
  <2> TAKE a \in Appeal
  <2> HAVE appeal'[a].status # None
  <2>1. appeal[a].violation \in Violation /\ violation[appeal[a].violation] \in {"REGISTERED", "CONFIRMED", "CANCELLED"}
    BY <1>3 DEF Inv, RequestsTrue, VerdictInv, VerdictTables
  <2> QED BY <1>3, <2>1, CommitWrites
<1>5. ConfirmedIsCharged'
  <2> SUFFICES ASSUME NEW v \in Violation, violation'[v] = "CONFIRMED", Penalty[v] > 0
               PROVE  \E c \in Request : charge'[c].about = v /\ charge'[c].amount = Penalty[v]
                                         /\ charge'[c].status # "VOIDED"
    BY DEF ConfirmedIsCharged, Of
  <2>1. CASE violation[v] = "CONFIRMED"
    <3>1. PICK c \in Request : charge[c].about = v /\ charge[c].amount = Penalty[v] /\ charge[c].status # "VOIDED"
      BY <2>1 DEF VerdictInv, VerdictTables, VerdictsBooked, ConfirmedIsCharged, Of
    <3>2. c # r
      BY <1>0, <3>1, FinanceAssumption
    <3> QED BY <3>1, <3>2, CommitWrites, CommitKeeps
  <2>2. CASE violation[v] # "CONFIRMED"
    <3>1. charge'[r] = [about |-> v, amount |-> Penalty[v], paid |-> 0, status |-> "UNPAID"]
      BY <2>2, CommitWrites
    <3> QED BY <3>1
  <2> QED BY <2>1, <2>2
<1>6. AcceptedMeansCancelled'
  <2> SUFFICES ASSUME NEW a \in Appeal, appeal'[a].status = "ACCEPTED"
               PROVE  violation'[appeal'[a].violation] = "CANCELLED"
    BY DEF AcceptedMeansCancelled
  <2>0. /\ appeal[a].status # None /\ appeal'[a].violation = appeal[a].violation
        /\ appeal[a].violation \in Violation
    BY <1>3 DEF Inv, RequestsTrue, None
  <2>1. CASE appeal[a].status = "ACCEPTED"
    <3>1. violation[appeal[a].violation] = "CANCELLED"
      BY <2>1 DEF VerdictInv, VerdictTables, VerdictsBooked, AcceptedMeansCancelled
    <3>2. \A v \in Violation : violation[v] = "CANCELLED" => violation'[v] = "CANCELLED"
      BY CommitWrites
    <3> QED BY <2>0, <3>1, <3>2
  <2>2. CASE appeal[a].status # "ACCEPTED"
    <3>1. CommitReview(r) /\ a = tx[r].on /\ tx[r].result = "ACCEPTED" /\ tx[r].kind = "review"
      <4>1. appeal' # appeal
        BY <2>2
      <4>2. CommitReview(r)
        BY <4>1 DEF Commits, CommitPayment, CommitExit, CommitApproval, CommitConfirm, CommitCancel
      <4>3. appeal' = [appeal EXCEPT ![tx[r].on].status = tx[r].result] /\ tx[r].kind = "review"
        BY <4>2 DEF CommitReview, Ready
      <4>4. a = tx[r].on
        BY <2>2, <4>3 DEF Inv, TypeOK
      <4> QED BY <1>0, <4>2, <4>3, <4>4 DEF KindTrue, Inv, TypeOK, AppealRow
    <3>2. \A v \in Violation : violation'[v] = IF v = tx[r].target THEN "CANCELLED" ELSE violation[v]
      BY <3>1 DEF CommitReview
    <3> QED BY <1>0, <2>0, <3>1, <3>2 DEF VerdictTrue
  <2> QED BY <2>1, <2>2
<1> QED BY <1>1, <1>2, <1>4, <1>5, <1>6 DEF VerdictInv, VerdictTables, VerdictsBooked, Apart

LEMMA VerdictOperators ==
  ASSUME Inv, VerdictInv, Operators
  PROVE  VerdictInv'
<1>0. UNCHANGED <<charge, pc, tx>> /\ Busy' = Busy
  BY DEF Operators, Enter, Register, Fine, Enrol, Submit, Adjust, Busy
<1>1. \A v \in Violation :
  \/ violation'[v] = violation[v]
  \/ violation[v] = None /\ violation'[v] \in {"REGISTERED", "ACTIVE"}
  BY DEF Operators, Enter, Register, Fine, Enrol, Submit, Adjust, Inv, TypeOK
<1>2. \A a \in Appeal : \/ appeal'[a] = appeal[a]
                         \/ /\ appeal[a].status = None /\ appeal'[a].status = "SUBMITTED"
                            /\ violation'[appeal'[a].violation] \in {"REGISTERED", "CONFIRMED"}
  BY DEF Operators, Enter, Register, Fine, Enrol, Submit, Adjust, Inv, TypeOK
<1>3. VerdictTables'
  <2>1. \A v \in Violation : Of(v)' = Of(v)
    BY <1>0 DEF Of
  <2>2. \A a \in Appeal : appeal[a].status # None => appeal[a].violation \in Violation
    BY DEF Inv, RequestsTrue
  <2>3. \A v \in Violation : violation'[v] \notin {"CONFIRMED", "CANCELLED"} => Of(v)' = {}
    BY <1>1, <2>1 DEF VerdictInv, VerdictTables, None
  <2>4. \A a \in Appeal : appeal'[a].status # None =>
          violation'[appeal'[a].violation] \in {"REGISTERED", "CONFIRMED", "CANCELLED"}
    BY <1>1, <1>2, <2>2 DEF VerdictInv, VerdictTables, None
  <2>5. ConfirmedIsCharged'
    BY <1>0, <1>1, <2>1 DEF VerdictInv, VerdictTables, VerdictsBooked, ConfirmedIsCharged
  <2>6. AcceptedMeansCancelled'
    <3> SUFFICES ASSUME NEW a \in Appeal, appeal'[a].status = "ACCEPTED"
                 PROVE  violation'[appeal'[a].violation] = "CANCELLED"
      BY DEF AcceptedMeansCancelled
    <3>1. appeal'[a] = appeal[a] /\ appeal[a].violation \in Violation
      BY <1>2, <2>2 DEF None
    <3>2. violation[appeal[a].violation] = "CANCELLED"
      BY <3>1 DEF VerdictInv, VerdictTables, VerdictsBooked, AcceptedMeansCancelled
    <3> QED BY <1>1, <3>1, <3>2 DEF None
  <2> QED BY <2>3, <2>4, <2>5, <2>6 DEF VerdictTables, VerdictsBooked
<1>4. ASSUME NEW r \in Busy
      PROVE  VerdictTrue(tx[r], pc[r])'
  <2>0. r \in Request /\ VerdictTrue(tx[r], pc[r]) /\ KindTrue(tx[r], pc[r]) /\ tx' = tx /\ pc' = pc /\ charge' = charge
    BY <1>0 DEF VerdictInv, Busy, Inv, RequestsTrue
  <2>1. tx[r].kind = "confirm" => violation'[tx[r].target] = violation[tx[r].target]
    BY <1>1, <2>0 DEF VerdictTrue, KindTrue, None
  <2>2. tx[r].kind = "review" => /\ appeal'[tx[r].on] = appeal[tx[r].on]
                                 /\ violation'[appeal[tx[r].on].violation] = violation[appeal[tx[r].on].violation]
    <3>1. ASSUME tx[r].kind = "review"
          PROVE  /\ appeal'[tx[r].on] = appeal[tx[r].on]
                 /\ violation'[appeal[tx[r].on].violation] = violation[appeal[tx[r].on].violation]
      <4>1. tx[r].on \in Appeal /\ appeal[tx[r].on].status # None
        BY <2>0, <3>1 DEF KindTrue
      <4>2. /\ appeal[tx[r].on].violation \in Violation
            /\ violation[appeal[tx[r].on].violation] \in {"REGISTERED", "CONFIRMED", "CANCELLED"}
        BY <4>1 DEF Inv, RequestsTrue, VerdictInv, VerdictTables
      <4> QED BY <1>1, <1>2, <4>1, <4>2 DEF None
    <3> QED BY <3>1
  <2> QED BY <2>0, <2>1, <2>2 DEF VerdictTrue, Fresh
<1> QED BY <1>0, <1>3, <1>4 DEF VerdictInv, Apart

LEMMA VerdictStart == Init => VerdictInv
<1> SUFFICES ASSUME Init
             PROVE  VerdictInv
  OBVIOUS
<1>1. /\ Busy = {} /\ \A v \in Violation : Of(v) = {} /\ violation[v] = None
      /\ \A a \in Appeal : appeal[a].status = None
  BY FinanceAssumption DEF Init, Busy, Of, NoCharge
<1> QED BY <1>1 DEF VerdictInv, Apart, VerdictTables, VerdictsBooked, ConfirmedIsCharged,
                    AcceptedMeansCancelled, None

LEMMA VerdictStep ==
  ASSUME Inv, CreditInv, VerdictInv, [Next]_vars, Apart'
  PROVE  VerdictInv'
<1>1. ASSUME NEW r \in Request, Work(r)
      PROVE  VerdictInv'
  BY <1>1, VerdictFlush, VerdictCommit, VerdictEnd DEF Work, Flushes, Commits
<1>2. CASE UNCHANGED vars
  BY <1>2 DEF vars, tables, VerdictInv, Apart, Busy, VerdictTrue, Fresh, VerdictTables, VerdictsBooked,
              ConfirmedIsCharged, AcceptedMeansCancelled, Of
<1> QED BY <1>1, <1>2, VerdictAsk, VerdictEnd, VerdictOperators DEF Next, Operators

(* As long as no two requests have overlapped.                             *)
VerdictHistory == Inv /\ CreditInv /\ (~overlapped => VerdictInv)

LEMMA StillApart ==
  ASSUME [HistNext]_HistVars, ~overlapped'
  PROVE  [Next]_vars /\ ~overlapped
<1>1. CASE HistNext
  BY <1>1 DEF HistNext
<1>2. CASE UNCHANGED HistVars
  BY <1>2 DEF HistVars
<1> QED BY <1>1, <1>2

LEMMA VerdictAlways == HistSpec => []VerdictHistory
<1>1. HistInit => VerdictHistory
  BY InitInv, CreditStart, VerdictStart DEF HistInit, VerdictHistory
<1>2. VerdictHistory /\ [HistNext]_HistVars => VerdictHistory'
  <2> SUFFICES ASSUME VerdictHistory, [HistNext]_HistVars
               PROVE  VerdictHistory'
    OBVIOUS
  <2>1. [Next]_vars
    BY DEF HistNext, HistVars
  <2>2. Inv' /\ CreditInv'
    BY <2>1, StepInv, CreditStep DEF VerdictHistory
  <2>3. ASSUME ~overlapped'
        PROVE  ~overlapped /\ Apart'
    <3>1. CASE HistNext
      BY <2>3, <3>1 DEF HistNext
    <3>2. CASE UNCHANGED HistVars
      BY <2>3, <3>2 DEF HistVars, vars, VerdictHistory, VerdictInv, Apart, Busy
    <3> QED BY <3>1, <3>2
  <2>4. ASSUME ~overlapped'
        PROVE  VerdictInv'
    BY <2>1, <2>3, <2>4, VerdictStep DEF VerdictHistory
  <2> QED BY <2>2, <2>4 DEF VerdictHistory
<1> QED BY <1>1, <1>2, PTL DEF HistSpec

(* As long as no two requests have overlapped, the books follow the        *)
(* verdicts: what is confirmed is charged, and an accepted appeal has      *)
(* cancelled for good.                                                     *)
THEOREM VerdictsAreBooked == HistSpec => []SerialVerdicts
<1>1. VerdictHistory => SerialVerdicts
  BY DEF VerdictHistory, VerdictInv, VerdictTables, SerialVerdicts
<1> QED BY <1>1, VerdictAlways, PTL

(* As long as no two requests have overlapped none leads out of CANCELLED; *)
(* requests that overlap do.                                               *)
THEOREM CancelledStays ==
  HistSpec =>
    [][\A v \in Violation :
         ~overlapped /\ violation[v] = "CANCELLED" => violation'[v] = "CANCELLED"]_HistVars
<1> DEFINE Firm == \A v \in Violation :
                      ~overlapped /\ violation[v] = "CANCELLED" => violation'[v] = "CANCELLED"
<1>1. VerdictHistory /\ [HistNext]_HistVars => [Firm]_HistVars
  <2> SUFFICES ASSUME Inv, CreditInv, VerdictInv, Next, NEW v \in Violation, violation[v] = "CANCELLED"
               PROVE  violation'[v] = "CANCELLED"
    BY DEF VerdictHistory, HistNext
  <2>1. ASSUME NEW r \in Request, Commits(r)
        PROVE  violation'[v] = "CANCELLED"
    BY <2>1, CommitWrites
  <2>2. ASSUME NEW r \in Request, Ask(r) \/ Fail(r) \/ Flushes(r) \/ PaymentKnown(r)
        PROVE  violation'[v] = "CANCELLED"
    BY <2>2, AskForm, FlushKeeps DEF Begun, Begin, Fail, PaymentKnown, tables
  <2>3. ASSUME Operators
        PROVE  violation'[v] = "CANCELLED"
    BY <2>3 DEF Operators, Enter, Register, Fine, Enrol, Submit, Adjust, Inv, TypeOK, None
  <2> QED BY <2>1, <2>2, <2>3 DEF Next, Work, Operators, Flushes, Commits
<1> QED BY <1>1, VerdictAlways, PTL DEF HistSpec

-----------------------------------------------------------------------------
(***************************************************************************)
(* Requests that do not overlap: the books.                                *)
(***************************************************************************)
(* What a request writes back to a charge: the new paid_amount, and PAID   *)
(* when nothing is left; or nothing at all.                                *)
Raises(t, c, n) ==
  /\ c \in t.touched /\ charge[c].status = "UNPAID"
  /\ t.paid[c] = n /\ n <= charge[c].amount
  /\ t.marks[c] = IF n = charge[c].amount THEN "PAID" ELSE None

Leaves(t, c) == c \notin t.touched /\ t.marks[c] = None

(* What a request that runs alone has read of the books.                   *)
BooksRead(t, step) ==
  /\ t.kind = "exit" => session[t.on] = "OPEN"
  /\ t.kind = "approve" => adjustment[t.on].status = "PENDING"
  /\ step = "ready" /\ t.kind = "exit" =>
       /\ Total(t.share) <= t.amount
       /\ \A p \in Request : t.share[p] > 0 => t.share[p] + Total(alloc[p]) <= payment[p].amount
  /\ step = "ready" /\ t.kind = "pay" =>
       \A c \in Request : \/ t.share[c] > 0 /\ Raises(t, c, charge[c].paid + t.share[c])
                          \/ t.share[c] = 0 /\ Leaves(t, c)
  /\ step = "ready" /\ t.kind = "approve" =>
       \A c \in Request : IF c = adjustment[t.on].charge /\ charge[c].status = "UNPAID"
                          THEN Raises(t, c, Credited(c, adjustment[t.on].amount))
                          ELSE Leaves(t, c)
  /\ step = "ready" /\ t.kind \in {"cancel", "review"} =>
       /\ t.touched = {}
       /\ \A c \in Request : t.marks[c] # "PAID"

Balanced(c) ==
  /\ Received(c) <= charge[c].paid
  /\ charge[c].paid <= charge[c].amount
  /\ charge[c].paid <= Received(c) + Waived(c)
  /\ charge[c].status = "PAID" <=> charge[c].paid = charge[c].amount
  /\ \A s \in Session : charge[c].about = s /\ session[s] = "PAID" => charge[c].status = "PAID"

(* What holds of the tables between requests.                              *)
BooksTables ==
  /\ \A c \in Request : charge[c].status # None => Balanced(c)
  /\ PaymentsCovered
  /\ \A a \in Adjustment : adjustment[a].status # None =>
       adjustment[a].amount >= 0 /\ charge[adjustment[a].charge].status # None
  /\ \A c \in Request, s \in Session : charge[c].about = s => session[s] \notin {None, "OPEN"}

BooksInv == BooksTables /\ \A r \in Busy : BooksRead(tx[r], pc[r])

(* Nothing adds up to nothing.                                             *)
LEMMA SumZero ==
  ASSUME NEW S, NEW f, Numbers(f, S), \A x \in S : f[x] = 0
  PROVE  SumOf(f, S) = 0
<1> DEFINE U == {T \in SUBSET S : SumOf(f, T) = 0}
<1>1. {} \in U
  BY SumRecurses
<1>2. ASSUME NEW T \in SUBSET S, T # {}, \A x \in T : T \ {x} \in U
      PROVE  T \in U
  <2>1. Pick(T) \in T /\ SumOf(f, T \ {Pick(T)}) = 0
    BY <1>2, PickIn
  <2>2. SumOf(f, T) = f[Pick(T)] + SumOf(f, T \ {Pick(T)})
    BY <1>2, SumRecurses
  <2> QED BY <2>1, <2>2
<1> HIDE DEF U
<1>3. \A T \in SUBSET S : T \in U
  BY <1>1, <1>2, SubsetInduction DEF Numbers
<1> QED BY <1>3 DEF U

(* What is received, waived and given are integers.                        *)
LEMMA BooksNumbers ==
  ASSUME TypeOK
  PROVE  /\ \A c \in Request : /\ Received(c) \in Int /\ Received(c) >= 0 /\ Waived(c) \in Int
                                /\ Numbers([p \in Request |-> alloc[p][c]], Request)
         /\ \A p \in Request : Total(alloc[p]) \in Int /\ Total(alloc[p]) >= 0
         /\ Numbers([a \in Adjustment |-> adjustment[a].amount], Adjustment)
         /\ \A c \in Request : Waiving(c) \in SUBSET Adjustment
<1>1. /\ alloc \in [Request -> [Request -> Nat]] /\ adjustment \in [Adjustment -> AdjustmentRow]
      /\ IsFiniteSet(Request) /\ IsFiniteSet(Adjustment)
  BY FinanceAssumption DEF TypeOK
<1>2. \A c \in Request : Waiving(c) \in SUBSET Adjustment
  BY DEF Waiving
<1>3. Numbers([a \in Adjustment |-> adjustment[a].amount], Adjustment)
  BY <1>1 DEF Numbers, AdjustmentRow
<1>4. ASSUME NEW c \in Request
      PROVE  /\ Received(c) \in Int /\ Received(c) >= 0 /\ Waived(c) \in Int
             /\ Numbers([p \in Request |-> alloc[p][c]], Request)
  <2> DEFINE f == [p \in Request |-> alloc[p][c]]
  <2>1. Numbers(f, Request) /\ \A p \in Request : f[p] >= 0
    BY <1>1 DEF Numbers
  <2>2. SumOf(f, Request) \in Int /\ SumOf(f, Request) >= 0
    <3> HIDE DEF f
    <3> QED BY <2>1, SumRecurses, SumPart
  <2>3. Waived(c) \in Int
    BY <1>2, <1>3, SumRecurses DEF Waived
  <2> QED BY <2>1, <2>2, <2>3 DEF Received, Total
<1>5. \A p \in Request : Total(alloc[p]) \in Int /\ Total(alloc[p]) >= 0
  BY AllocNumbers, SumRecurses, SumPart DEF Total
<1> QED BY <1>2, <1>3, <1>4, <1>5

(* A step of the one request under way that leaves the tables alone.       *)
LEMMA BooksMoves ==
  ASSUME BooksInv, NEW r \in Request, UNCHANGED tables,
         Busy' \subseteq {r}, r \in Busy' => BooksRead(tx'[r], pc'[r])
  PROVE  BooksInv'
<1>1. BooksTables'
  BY DEF BooksInv, BooksTables, Balanced, PaymentsCovered, Received, Waived, Waiving, tables
<1>2. r \in Busy' => BooksRead(tx[r], pc[r])'
  BY DEF BooksRead, Raises, Leaves, Credited, tables
<1> QED BY <1>1, <1>2 DEF BooksInv

(* A payment pays no more than is outstanding, and marks what it settles.  *)
LEMMA PayReads ==
  ASSUME Inv, CreditInv, BooksInv, NEW r \in Request, InsertPayment(r)
  PROVE  /\ tx'[r].kind = "pay"
         /\ \A c \in Request : \/ tx'[r].share[c] > 0 /\ Raises(tx'[r], c, charge[c].paid + tx'[r].share[c])
                               \/ tx'[r].share[c] = 0 /\ Leaves(tx'[r], c)
<1> DEFINE due == [c \in Request |-> IF c \in Payable(tx[r].plate) THEN Outstanding(c) ELSE 0]
<1>0. /\ tx[r] \in Transaction /\ charge \in [Request -> ChargeRow] /\ tx \in [Request -> Transaction]
      /\ tx[r].amount \in Nat /\ tx[r].kind = "pay"
  BY DEF Inv, TypeOK, Transaction, InsertPayment, Asked
<1>1. PICK share \in [Request -> 0..tx[r].amount] :
        /\ Fills(share, due, tx[r].amount)
        /\ Flush(r, tx[r].on, "ready", Allocate(tx[r], share, due))
  BY DEF InsertPayment
<1>2. \A c \in Request : share[c] \in Nat /\ share[c] <= due[c]
  BY <1>0, <1>1 DEF Fills
<1>3. ASSUME NEW c \in Request, share[c] > 0
      PROVE  /\ charge[c].status = "UNPAID" /\ charge[c].paid + share[c] <= charge[c].amount
             /\ share[c] = due[c] <=> charge[c].paid + share[c] = charge[c].amount
             /\ charge[c].paid \in Int
  <2>1. charge[c].paid \in Int /\ charge[c].amount \in Int
    BY <1>0 DEF ChargeRow
  <2>2. c \in Payable(tx[r].plate) /\ due[c] = Outstanding(c)
    BY <1>2, <1>3
  <2> QED BY <1>2, <1>3, <2>1, <2>2 DEF Payable, Outstanding
<1> HIDE DEF due
<1>4. /\ tx'[r].share = share /\ tx'[r].kind = "pay"
      /\ tx'[r].touched = { c \in Request : share[c] > 0 }
      /\ tx'[r].paid = [c \in Request |-> charge[c].paid + share[c]]
      /\ tx'[r].marks = [c \in Request |-> IF share[c] > 0 /\ share[c] = due[c] THEN "PAID" ELSE None]
  BY <1>0, <1>1 DEF Flush, Allocate, Transaction
<1>5. ASSUME NEW c \in Request, share[c] > 0
      PROVE  Raises(tx'[r], c, charge[c].paid + share[c])
  BY <1>3, <1>4, <1>5 DEF Raises
<1>6. ASSUME NEW c \in Request, ~(share[c] > 0)
      PROVE  share[c] = 0 /\ Leaves(tx'[r], c)
  BY <1>2, <1>4, <1>6 DEF Leaves
<1> QED BY <1>4, <1>5, <1>6

(* An exit takes no more than its amount, and of a payment what is left.   *)
LEMMA ExitReads ==
  ASSUME Inv, CreditInv, BooksInv, NEW r \in Request, SettleExit(r)
  PROVE  /\ tx'[r].kind = "exit" /\ tx'[r].on = tx[r].on
         /\ Total(tx'[r].share) <= tx'[r].amount
         /\ \A p \in Request : tx'[r].share[p] > 0 => tx'[r].share[p] + Total(alloc[p]) <= payment[p].amount
<1> DEFINE own == { p \in Request : payment[p].plate = PlateOf[tx[r].on] }
           left(recent) == [p \in Request |-> IF p \in recent /\ Credit(p) > 0 THEN Credit(p) ELSE 0]
<1>0. /\ tx[r] \in Transaction /\ tx \in [Request -> Transaction] /\ tx[r].amount \in Nat
      /\ tx[r].kind = "exit"
  BY DEF Inv, TypeOK, Transaction, SettleExit, Asked
<1>1. PICK recent \in SUBSET own, share \in [Request -> 0..tx[r].amount] :
        /\ Fills(share, left(recent), tx[r].amount)
        /\ Flush(r, tx[r].on, "ready", [tx[r] EXCEPT !.share = share])
  BY DEF SettleExit
<1>2. /\ tx'[r].share = share /\ tx'[r].amount = tx[r].amount /\ tx'[r].on = tx[r].on /\ tx'[r].kind = "exit"
  BY <1>0, <1>1 DEF Flush, Transaction
<1>3. \A p \in Request : share[p] \in Nat /\ share[p] <= left(recent)[p]
  BY <1>0, <1>1 DEF Fills
<1>4. \A p \in Request : payment[p].amount \in Int /\ Total(alloc[p]) \in Int
  BY BooksNumbers DEF Inv, TypeOK, PaymentRow
<1>5. ASSUME NEW p \in Request, share[p] > 0
      PROVE  share[p] + Total(alloc[p]) <= payment[p].amount
  BY <1>3, <1>4, <1>5 DEF Credit
<1>6. Total(share) <= tx[r].amount
  <2>1. \A p \in Request : left(recent)[p] \in Int
    BY <1>4 DEF Credit
  <2> DEFINE g == left(recent)
  <2>2. \A p \in Request : g[p] \in Int
    BY <2>1
  <2>3. Total(share) = Least(tx[r].amount, Total(g))
    BY <1>1 DEF Fills
  <2> HIDE DEF g
  <2>4. Total(g) \in Int
    BY <2>2, FinanceAssumption, SumRecurses DEF Numbers, Total
  <2> QED BY <1>0, <2>3, <2>4 DEF Least
<1> QED BY <1>2, <1>5, <1>6

(* An approval credits an open charge, at most its amount.                 *)
LEMMA ApproveReads ==
  ASSUME Inv, CreditInv, VerdictInv, BooksInv, NEW r \in Request, CreditCharge(r)
  PROVE  /\ tx'[r].kind = "approve" /\ tx'[r].on = tx[r].on
         /\ \A c \in Request : IF c = adjustment[tx[r].on].charge /\ charge[c].status = "UNPAID"
                               THEN Raises(tx'[r], c, Credited(c, adjustment[tx[r].on].amount))
                               ELSE Leaves(tx'[r], c)
<1> DEFINE c == adjustment[tx[r].on].charge
           paid == Credited(c, adjustment[tx[r].on].amount)
           mark == IF paid < charge[c].amount THEN None ELSE "PAID"
           t == IF charge[c].status # "UNPAID" THEN tx[r]
                ELSE [tx[r] EXCEPT !.touched = {c}, !.paid[c] = paid, !.marks[c] = mark]
<1>0. /\ tx[r] \in Transaction /\ tx \in [Request -> Transaction] /\ charge \in [Request -> ChargeRow]
      /\ tx[r].kind = "approve" /\ pc[r] = "asked" /\ tx[r].on \in Adjustment
      /\ adjustment[tx[r].on].amount \in Int /\ c \in Request
      /\ tx[r].marks \in [Request -> {"PAID", "VOIDED", None}] /\ tx[r].paid \in [Request -> Int]
  BY DEF CreditCharge, Asked, Inv, RequestsTrue, KindTrue, TypeOK, AdjustmentRow, Transaction
<1>1. tx[r].touched = {} /\ \A d \in Request : tx[r].marks[d] = None
  BY <1>0 DEF VerdictInv, VerdictTrue, Busy, Fresh
<1>2. Flush(r, tx[r].on, "ready", t)
  BY DEF CreditCharge
<1>3. charge[c].amount \in Int /\ charge[c].paid \in Int
  BY <1>0 DEF ChargeRow
<1>4. paid \in Int /\ paid <= charge[c].amount
  BY <1>0, <1>3 DEF Credited, Least
<1> HIDE DEF paid
<1>5. mark = IF paid = charge[c].amount THEN "PAID" ELSE None
  BY <1>3, <1>4
<1> HIDE DEF mark, c
<1>6. tx'[r] = [t EXCEPT !.rows = @ \cup {tx[r].on}]
  BY <1>0, <1>2 DEF Flush
<1>7. CASE charge[c].status # "UNPAID"
  <2>1. tx'[r].kind = "approve" /\ tx'[r].on = tx[r].on /\ tx'[r].touched = {} /\ tx'[r].marks = tx[r].marks
    BY <1>0, <1>1, <1>6, <1>7 DEF Transaction
  <2>2. \A d \in Request : Leaves(tx'[r], d)
    BY <1>1, <2>1 DEF Leaves
  <2> QED BY <1>7, <2>1, <2>2 DEF c
<1>8. CASE charge[c].status = "UNPAID"
  <2>1. /\ tx'[r].kind = "approve" /\ tx'[r].on = tx[r].on /\ tx'[r].touched = {c}
        /\ tx'[r].marks = [tx[r].marks EXCEPT ![c] = mark] /\ tx'[r].paid = [tx[r].paid EXCEPT ![c] = paid]
    BY <1>0, <1>6, <1>8 DEF Transaction
  <2>2. Raises(tx'[r], c, paid)
    BY <1>0, <1>4, <1>5, <1>8, <2>1 DEF Raises
  <2>3. \A d \in Request \ {c} : Leaves(tx'[r], d)
    BY <1>0, <1>1, <2>1 DEF Leaves
  <2>4. paid = Credited(c, adjustment[tx[r].on].amount)
    BY DEF paid
  <2> QED BY <1>8, <2>1, <2>2, <2>3, <2>4 DEF c
<1> QED BY <1>7, <1>8

LEMMA BooksFlush ==
  ASSUME Inv, CreditInv, VerdictInv, BooksInv, NEW r \in Request, Flushes(r)
  PROVE  BooksInv'
<1>0. /\ UNCHANGED tables /\ r \in Busy /\ pc'[r] \in {"appeal", "ready"}
      /\ \A q \in Request \ {r} : pc'[q] = pc[q]
      /\ BooksRead(tx[r], pc[r]) /\ VerdictTrue(tx[r], pc[r]) /\ KindTrue(tx[r], pc[r])
      /\ tx'[r].kind = tx[r].kind /\ tx'[r].on = tx[r].on
      /\ tx[r] \in Transaction /\ tx \in [Request -> Transaction]
      /\ tx[r].marks \in [Request -> {"PAID", "VOIDED", None}]
  <2>1. r \in Busy
    BY FlushKeeps DEF Busy
  <2> QED BY <2>1, FlushKeeps DEF BooksInv, VerdictInv, Inv, RequestsTrue, TypeOK, Transaction
<1>1. Busy' \subseteq {r}
  BY <1>0, OnlyOne DEF Busy, VerdictInv
<1>2. tx[r].touched = {} /\ \A d \in Request : tx[r].marks[d] = None
  BY <1>0, FlushKeeps DEF VerdictTrue, Fresh
<1>3. CASE InsertPayment(r)
  <2>1. BooksRead(tx'[r], pc'[r])
    BY <1>3, PayReads DEF BooksRead
  <2> QED BY <1>0, <1>1, <2>1, BooksMoves
<1>4. CASE SettleExit(r)
  <2>1. session[tx[r].on] = "OPEN"
    BY <1>0, <1>4 DEF BooksRead, SettleExit, Asked
  <2>2. BooksRead(tx'[r], pc'[r])
    BY <1>4, <2>1, ExitReads DEF BooksRead
  <2> QED BY <1>0, <1>1, <2>2, BooksMoves
<1>5. CASE CreditCharge(r)
  <2>1. adjustment[tx[r].on].status = "PENDING"
    BY <1>0, <1>5 DEF BooksRead, CreditCharge, Asked
  <2>2. BooksRead(tx'[r], pc'[r])
    BY <1>5, <2>1, ApproveReads DEF BooksRead
  <2> QED BY <1>0, <1>1, <2>2, BooksMoves
<1>6. CASE LockToConfirm(r)
  <2>1. tx'[r].kind = "confirm"
    BY <1>0, <1>6 DEF LockToConfirm, Asked
  <2>2. BooksRead(tx'[r], pc'[r])
    BY <2>1 DEF BooksRead
  <2> QED BY <1>0, <1>1, <2>2, BooksMoves
<1>7. CASE LockToCancel(r)
  <2>1. PICK c \in First(tx[r].target) :
          Flush(r, tx[r].target, "ready",
                IF c = None \/ ~Voids(c) THEN tx[r] ELSE [tx[r] EXCEPT !.marks[c] = "VOIDED"])
    BY <1>7 DEF LockToCancel
  <2>2. tx'[r].kind \in {"cancel", "review"}
    BY <1>0, <1>7 DEF LockToCancel, Asked, KindTrue
  <2>3. /\ tx'[r].touched = tx[r].touched
        /\ tx'[r].marks = tx[r].marks \/ tx'[r].marks = [tx[r].marks EXCEPT ![c] = "VOIDED"]
    BY <1>0, <2>1 DEF Flush, Transaction
  <2>4. \A d \in Request : tx'[r].marks[d] # "PAID"
    BY <1>0, <1>2, <2>3 DEF None
  <2>5. BooksRead(tx'[r], pc'[r])
    BY <1>2, <2>2, <2>3, <2>4 DEF BooksRead
  <2> QED BY <1>0, <1>1, <2>5, BooksMoves
<1>8. CASE LockAppeal(r)
  <2>1. PICK step \in {"appeal", "ready"}, v \in {tx[r].target, appeal[tx[r].on].violation} :
          Flush(r, tx[r].on, step, [tx[r] EXCEPT !.target = v])
    <3>1. [tx[r] EXCEPT !.target = tx[r].target] = tx[r]
      BY <1>0 DEF Transaction
    <3> QED BY <1>8, <3>1 DEF LockAppeal
  <2>2. tx'[r].kind = "review" /\ tx'[r].touched = tx[r].touched /\ tx'[r].marks = tx[r].marks
    <3>1. tx[r].kind = "review"
      BY <1>8 DEF LockAppeal, Asked
    <3> QED BY <1>0, <2>1, <3>1 DEF Flush, Transaction
  <2>3. BooksRead(tx'[r], pc'[r])
    BY <1>2, <2>2 DEF BooksRead, None
  <2> QED BY <1>0, <1>1, <2>3, BooksMoves
<1> QED BY <1>3, <1>4, <1>5, <1>6, <1>7, <1>8 DEF Flushes

LEMMA BooksAsk ==
  ASSUME Inv, BooksInv, Apart', NEW r \in Request, Ask(r)
  PROVE  BooksInv'
<1>1. PICK t \in Transaction : Begun(r, t)
  BY AskForm
<1>2. /\ UNCHANGED tables /\ pc[r] = "idle"
      /\ \A q \in Request : pc'[q] = IF q = r THEN "asked" ELSE pc[q]
  BY <1>1 DEF Begun, Begin, Inv, TypeOK
<1>3. Busy = {}
  BY <1>2, FirstAlone
<1>4. Busy' \subseteq {r} /\ pc'[r] = "asked"
  BY <1>2, <1>3 DEF Busy
<1>5. /\ tx'[r].kind = "exit" => session[tx'[r].on] = "OPEN"
      /\ tx'[r].kind = "approve" => adjustment[tx'[r].on].status = "PENDING"
  <2>0. tx \in [Request -> Transaction]
    BY DEF Inv, TypeOK
  <2>1. ASSUME NEW ref \in Reference, NEW p \in Plate \cup {NoPlate}, NEW n \in Amounts, Pay(r, ref, p, n)
        PROVE  tx'[r].kind = "pay"
    BY <2>0, <2>1 DEF Pay, Begin, Blank
  <2>2. ASSUME NEW x \in Session, NEW n \in Amounts, Exit(r, x, n)
        PROVE  tx'[r].kind = "exit" /\ tx'[r].on = x /\ session[x] = "OPEN"
    BY <2>0, <2>2 DEF Exit, Begin, Blank
  <2>3. ASSUME NEW a \in Adjustment, Approve(r, a)
        PROVE  tx'[r].kind = "approve" /\ tx'[r].on = a /\ adjustment[a].status = "PENDING"
    BY <2>0, <2>3 DEF Approve, Begin, Blank
  <2>4. ASSUME NEW v \in Violation, Confirm(r, v) \/ Cancel(r, v)
        PROVE  tx'[r].kind \in {"confirm", "cancel"}
    BY <2>0, <2>4 DEF Confirm, Cancel, Begin, Blank
  <2>5. ASSUME NEW a \in Appeal, NEW d \in {"ACCEPTED", "REJECTED"}, Review(r, a, d)
        PROVE  tx'[r].kind = "review"
    BY <2>0, <2>5 DEF Review, Begin, Blank
  <2> QED BY <2>1, <2>2, <2>3, <2>4, <2>5 DEF Ask
<1>6. BooksRead(tx'[r], pc'[r])
  BY <1>4, <1>5 DEF BooksRead
<1> QED BY <1>2, <1>4, <1>6, BooksMoves

LEMMA BooksEnd ==
  ASSUME Inv, VerdictInv, BooksInv, NEW r \in Request, PaymentKnown(r) \/ Fail(r)
  PROVE  BooksInv'
<1>1. PICK step \in {"done", "failed"} :
        pc' = [pc EXCEPT ![r] = step] /\ UNCHANGED tables /\ r \in Busy
  BY DEF PaymentKnown, Fail, Ends, tables, Busy, Asked
<1>2. Busy = {r}
  BY <1>1, OnlyOne DEF VerdictInv
<1>3. Busy' = {}
  BY <1>1, <1>2 DEF Busy, Inv, TypeOK
<1> QED BY <1>1, <1>3, BooksMoves

LEMMA BooksOperators ==
  ASSUME Inv, CreditInv, BooksInv, Waivers \subseteq Nat, Operators
  PROVE  BooksInv'
<1>0. UNCHANGED <<charge, payment, alloc, pc, tx>> /\ Busy' = Busy
  BY DEF Operators, Enter, Register, Fine, Enrol, Submit, Adjust, Busy
<1>1. \A s \in Session : session'[s] = session[s] \/ (session[s] = None /\ session'[s] = "OPEN")
  BY DEF Operators, Enter, Register, Fine, Enrol, Submit, Adjust, Inv, TypeOK
<1>2. \A a \in Adjustment :
        \/ adjustment'[a] = adjustment[a]
        \/ /\ adjustment[a].status = None /\ adjustment'[a].status = "PENDING"
           /\ adjustment'[a].amount >= 0 /\ charge[adjustment'[a].charge].status # None
  BY DEF Operators, Enter, Register, Fine, Enrol, Submit, Adjust, Inv, TypeOK
<1>3. \A c \in Request : Waived(c)' = Waived(c)
  <2> TAKE c \in Request
  <2> DEFINE f == [a \in Adjustment |-> adjustment[a].amount]
             g == [a \in Adjustment |-> adjustment'[a].amount]
  <2>1. Waiving(c)' = Waiving(c)
    BY <1>2 DEF Waiving, None
  <2>2. Numbers(f, Waiving(c)) /\ \A a \in Waiving(c) : g[a] = f[a]
    <3>1. Numbers(f, Waiving(c))
      <4>1. Numbers(f, Adjustment) /\ Waiving(c) \in SUBSET Adjustment
        BY BooksNumbers DEF Inv
      <4> HIDE DEF f
      <4> QED BY <4>1, SumRecurses
    <3>2. \A a \in Waiving(c) : adjustment'[a] = adjustment[a] /\ a \in Adjustment
      BY <1>2 DEF Waiving, None
    <3> QED BY <3>1, <3>2
  <2>3. SumOf(g, Waiving(c)) = SumOf(f, Waiving(c))
    <3> HIDE DEF f, g
    <3> QED BY <2>2, SumAgree
  <2> QED BY <2>1, <2>3 DEF Waived
<1>4. \A c \in Request : Received(c)' = Received(c)
  BY <1>0 DEF Received
<1>5. BooksTables'
  <2>1. ASSUME NEW c \in Request, charge'[c].status # None
        PROVE  Balanced(c)'
    <3>1. Balanced(c)
      BY <1>0, <2>1 DEF BooksInv, BooksTables
    <3>2. \A s \in Session : session'[s] = "PAID" => session[s] = "PAID"
      BY <1>1
    <3>3. charge'[c] = charge[c] /\ Waived(c)' = Waived(c) /\ Received(c)' = Received(c)
      BY <1>0, <1>3, <1>4
    <3> QED BY <3>1, <3>2, <3>3 DEF Balanced
  <2>2. PaymentsCovered'
    BY <1>0 DEF BooksInv, BooksTables, PaymentsCovered
  <2>3. \A a \in Adjustment : adjustment'[a].status # None =>
          adjustment'[a].amount >= 0 /\ charge'[adjustment'[a].charge].status # None
    BY <1>0, <1>2 DEF BooksInv, BooksTables
  <2>4. \A c \in Request, s \in Session : charge'[c].about = s => session'[s] \notin {None, "OPEN"}
    BY <1>0, <1>1 DEF BooksInv, BooksTables
  <2> QED BY <2>1, <2>2, <2>3, <2>4 DEF BooksTables
<1>6. ASSUME NEW r \in Busy
      PROVE  BooksRead(tx[r], pc[r])'
  <2>0. r \in Request /\ BooksRead(tx[r], pc[r]) /\ KindTrue(tx[r], pc[r]) /\ tx' = tx /\ pc' = pc
        /\ charge' = charge /\ alloc' = alloc /\ payment' = payment
    BY <1>0 DEF BooksInv, Busy, Inv, RequestsTrue
  <2>1. tx[r].kind = "exit" => session'[tx[r].on] = session[tx[r].on]
    BY <1>1, <2>0 DEF BooksRead, KindTrue, None
  <2>2. tx[r].kind = "approve" => adjustment'[tx[r].on] = adjustment[tx[r].on]
    BY <1>2, <2>0 DEF KindTrue
  <2> QED BY <2>0, <2>1, <2>2 DEF BooksRead, Raises, Leaves, Credited
<1> QED BY <1>0, <1>5, <1>6 DEF BooksInv

LEMMA BooksStart == Init => BooksInv
<1> SUFFICES ASSUME Init
             PROVE  BooksInv
  OBVIOUS
<1>0. /\ Busy = {} /\ IsFiniteSet(Request)
      /\ \A r \in Request : charge[r] = NoCharge /\ payment[r] = NoPayment /\ alloc[r] = Nothing
      /\ \A a \in Adjustment : adjustment[a].status = None
  BY FinanceAssumption DEF Init, Busy
<1>1. Total(Nothing) = 0
  <2> DEFINE N == Nothing
  <2>1. Numbers(N, Request) /\ \A x \in Request : N[x] = 0
    BY <1>0 DEF Numbers, Nothing
  <2> HIDE DEF N
  <2>2. SumOf(N, Request) = 0
    BY <2>1, SumZero
  <2> QED BY <2>2 DEF N, Total
<1>2. PaymentsCovered
  BY <1>0, <1>1 DEF PaymentsCovered, NoPayment
<1>3. \A c \in Request, s \in Session : charge[c].about # s
  BY <1>0, FinanceAssumption DEF NoCharge
<1> QED BY <1>0, <1>2, <1>3 DEF BooksInv, BooksTables, NoCharge

(* What a request about to commit knows.                                   *)
LEMMA CommitKnows ==
  ASSUME Inv, CreditInv, VerdictInv, BooksInv, NEW r \in Request, Commits(r)
  PROVE  /\ pc[r] = "ready" /\ Busy' = {}
         /\ BooksRead(tx[r], "ready") /\ VerdictTrue(tx[r], "ready") /\ KindTrue(tx[r], "ready")
         /\ SharesTrue(tx[r])
         /\ charge[r].status = None /\ charge[r].about = None /\ payment[r].ref = None
         /\ \A p \in Request : alloc[p][r] = 0 /\ alloc[r][p] = 0
         /\ Waiving(r) = {}
<1>1. /\ pc[r] = "ready" /\ pc'[r] = "done" /\ \A q \in Request \ {r} : pc'[q] = pc[q]
  BY CommitKeeps
<1>2. r \in Busy
  BY <1>1 DEF Busy
<1>3. Busy' = {}
  BY <1>1, <1>2, OnlyOne DEF Busy, VerdictInv
<1>4. charge[r].status = None /\ charge[r].about = None /\ payment[r].ref = None
  BY <1>1 DEF CreditInv, GivenTrue
<1>5. \A p \in Request : alloc[p][r] = 0 /\ alloc[r][p] = 0
  <2>1. \A p \in Request : /\ alloc[p][r] \in Nat /\ alloc[r][p] \in Nat
                          /\ ~(alloc[p][r] > 0) /\ ~(alloc[r][p] > 0)
    BY <1>4 DEF CreditInv, GivenTrue, Inv, TypeOK
  <2> QED BY <2>1
<1>6. Waiving(r) = {}
  BY <1>4 DEF BooksInv, BooksTables, Waiving, None
<1> QED BY <1>1, <1>2, <1>3, <1>4, <1>5, <1>6 DEF BooksInv, VerdictInv, CreditInv, Inv, RequestsTrue

(* The rows that a commit has not made.                                    *)
LEMMA BooksAfter ==
  ASSUME Inv, CreditInv, VerdictInv, BooksInv, NEW r \in Request, Commits(r),
         \A c \in Request : charge'[c].status # None => Balanced(c)',
         \A p \in Request : Total(alloc'[p]) <= payment'[p].amount,
         \A a \in Adjustment : adjustment'[a].status # None =>
           /\ adjustment[a].status # None
           /\ adjustment'[a].amount = adjustment[a].amount /\ adjustment'[a].charge = adjustment[a].charge,
         \A s \in Session : session'[s] = session[s] \/ session'[s] \notin {None, "OPEN"},
         \A s \in Session : charge'[r].about = s => session'[s] \notin {None, "OPEN"}
  PROVE  BooksInv'
<1>1. \A a \in Adjustment : adjustment'[a].status # None =>
        adjustment'[a].amount >= 0 /\ charge'[adjustment'[a].charge].status # None
  <2> TAKE a \in Adjustment
  <2> HAVE adjustment'[a].status # None
  <2>1. /\ adjustment[a].status # None /\ adjustment[a].amount >= 0
        /\ adjustment[a].charge \in Request /\ charge[adjustment[a].charge].status # None
    BY DEF BooksInv, BooksTables, Inv, RequestsTrue
  <2>2. adjustment[a].charge # r
    BY <2>1, CommitKnows
  <2> QED BY <2>1, <2>2, CommitKeeps
<1>2. \A c \in Request, s \in Session : charge'[c].about = s => session'[s] \notin {None, "OPEN"}
  <2> TAKE c \in Request, s \in Session
  <2> HAVE charge'[c].about = s
  <2>1. CASE c = r
    BY <2>1
  <2>2. CASE c # r
    <3>1. charge[c].about = s
      BY <2>2, CommitKeeps
    <3>2. session[s] \notin {None, "OPEN"}
      BY <3>1 DEF BooksInv, BooksTables
    <3> QED BY <3>2
  <2> QED BY <2>1, <2>2
<1>3. PaymentsCovered'
  BY DEF PaymentsCovered
<1> QED BY <1>1, <1>2, <1>3, CommitKnows DEF BooksInv, BooksTables

(* A charge that the commit leaves alone, and so do its payments.          *)
LEMMA BalanceStays ==
  ASSUME NEW c \in Request, Balanced(c), charge'[c] = charge[c],
         Received(c)' = Received(c), Waived(c)' = Waived(c),
         \A s \in Session : charge[c].about = s => session'[s] = session[s]
  PROVE  Balanced(c)'
BY DEF Balanced

(* A charge that is written back, and one that is not.                     *)
LEMMA WrittenRow ==
  ASSUME Inv, NEW r \in Request, charge' = Written(r), NEW c \in Request, NEW n \in Int
  PROVE  /\ Leaves(tx[r], c) => charge'[c] = charge[c]
         /\ Raises(tx[r], c, n) =>
              /\ charge'[c].about = charge[c].about /\ charge'[c].amount = charge[c].amount
              /\ charge'[c].paid = n
              /\ charge'[c].status = IF n = charge[c].amount THEN "PAID" ELSE "UNPAID"
<1>1. charge'[c] = [charge[c] EXCEPT !.paid = IF c \in tx[r].touched THEN tx[r].paid[c] ELSE @,
                                     !.status = IF tx[r].marks[c] # None THEN tx[r].marks[c] ELSE @]
  BY DEF Written
<1>2. charge[c] \in ChargeRow
  BY DEF Inv, TypeOK
<1> QED BY <1>1, <1>2 DEF Leaves, Raises, ChargeRow, None

(* Each of the commits.                                                    *)
LEMMA BooksPay ==
  ASSUME Inv, CreditInv, VerdictInv, BooksInv, NEW r \in Request, CommitPayment(r)
  PROVE  BooksInv'
<1>0. /\ Commits(r) /\ tx[r].kind = "pay" /\ charge' = Written(r)
      /\ session' = session /\ adjustment' = adjustment
      /\ payment' = [payment EXCEPT ![r] = [ref |-> tx[r].on, plate |-> tx[r].plate, amount |-> tx[r].amount]]
      /\ alloc' = [alloc EXCEPT ![r] = tx[r].share]
      /\ charge \in [Request -> ChargeRow] /\ payment \in [Request -> PaymentRow]
      /\ alloc \in [Request -> [Request -> Nat]] /\ tx[r].share \in [Request -> Nat]
  BY DEF CommitPayment, Ready, Commits, Inv, TypeOK, Transaction
<1>1. \A p \in Request : Total(alloc'[p]) <= payment'[p].amount
  <2>1. Total(tx[r].share) <= tx[r].amount
    BY <1>0, CommitKnows DEF SharesTrue
  <2> QED BY <1>0, <2>1 DEF BooksInv, BooksTables, PaymentsCovered
<1>2. ASSUME NEW c \in Request
      PROVE  Received(c)' = Received(c) + tx[r].share[c]
  <2> DEFINE f == [p \in Request |-> alloc[p][c]]
             g == [p \in Request |-> alloc'[p][c]]
  <2>1. /\ Numbers(f, Request) /\ Numbers(g, Request) /\ f[r] = 0 /\ g[r] = tx[r].share[c]
        /\ \A p \in Request \ {r} : g[p] = f[p]
    <3>1. IsFiniteSet(Request)
      BY FinanceAssumption
    <3>2. alloc[r][c] = 0
      BY <1>0, CommitKnows
    <3> QED BY <1>0, <3>1, <3>2 DEF Numbers
  <2>2. SumOf(g, Request) = SumOf(f, Request) + g[r]
    <3> HIDE DEF f, g
    <3> QED BY <2>1, SumChange
  <2> QED BY <2>1, <2>2 DEF Received, Total
<1>3. \A c \in Request : Waived(c)' = Waived(c)
  BY <1>0 DEF Waived, Waiving
<1>4. ASSUME NEW c \in Request, charge'[c].status # None
      PROVE  Balanced(c)'
  <2>0. /\ Received(c) \in Int /\ Waived(c) \in Int /\ charge[c].paid \in Int /\ charge[c].amount \in Int
        /\ tx[r].share[c] \in Nat
    <3>1. charge[c] \in ChargeRow /\ tx[r].share[c] \in Nat
      BY <1>0
    <3>2. Received(c) \in Int /\ Waived(c) \in Int
      BY BooksNumbers DEF Inv
    <3> QED BY <3>1, <3>2 DEF ChargeRow
  <2>1. CASE tx[r].share[c] > 0 /\ Raises(tx[r], c, charge[c].paid + tx[r].share[c])
    <3>1. charge[c].status = "UNPAID" /\ charge[c].paid + tx[r].share[c] <= charge[c].amount
      BY <2>1 DEF Raises
    <3>2. Balanced(c)
      BY <3>1 DEF BooksInv, BooksTables, None
    <3>3. \A s \in Session : charge[c].about = s => session[s] # "PAID"
      BY <3>1, <3>2 DEF Balanced
    <3>4. /\ charge'[c].about = charge[c].about /\ charge'[c].amount = charge[c].amount
          /\ charge'[c].paid = charge[c].paid + tx[r].share[c]
          /\ charge'[c].status = IF charge[c].paid + tx[r].share[c] = charge[c].amount THEN "PAID" ELSE "UNPAID"
      <4> SUFFICES ASSUME NEW n \in Int, n = charge[c].paid + tx[r].share[c], Raises(tx[r], c, n)
                   PROVE  /\ charge'[c].about = charge[c].about /\ charge'[c].amount = charge[c].amount
                          /\ charge'[c].paid = n
                          /\ charge'[c].status = IF n = charge[c].amount THEN "PAID" ELSE "UNPAID"
        BY <2>0, <2>1
      <4>1. charge' = Written(r)
        BY <1>0
      <4> QED BY <4>1, WrittenRow
    <3>5. Received(c)' = Received(c) + tx[r].share[c] /\ Waived(c)' = Waived(c)
      BY <1>2, <1>3
    <3> QED BY <1>0, <2>0, <3>1, <3>2, <3>3, <3>4, <3>5 DEF Balanced
  <2>2. CASE tx[r].share[c] = 0 /\ Leaves(tx[r], c)
    <3>1. charge'[c] = charge[c]
      BY <1>0, <2>2, WrittenRow
    <3>2. Balanced(c)
      BY <1>4, <3>1 DEF BooksInv, BooksTables
    <3>3. Received(c)' = Received(c) /\ Waived(c)' = Waived(c)
      BY <1>2, <1>3, <2>0, <2>2
    <3> QED BY <1>0, <3>1, <3>2, <3>3, BalanceStays
  <2> QED BY <1>0, <2>1, <2>2, CommitKnows DEF BooksRead
<1>5. \A s \in Session : charge'[r].about = s => session'[s] \notin {None, "OPEN"}
  <2>1. charge'[r].about = None
    <3>1. charge[r].status # "UNPAID" /\ charge[r].about = None
      BY <1>0, CommitKnows DEF None
    <3>2. Leaves(tx[r], r)
      BY <1>0, <3>1, CommitKnows DEF BooksRead, Raises
    <3> QED BY <1>0, <3>1, <3>2, WrittenRow
  <2> QED BY <2>1, FinanceAssumption
<1>6. \A a \in Adjustment : adjustment'[a] = adjustment[a]
  BY <1>0
<1> QED BY <1>0, <1>1, <1>4, <1>5, <1>6, BooksAfter

LEMMA BooksExit ==
  ASSUME Inv, CreditInv, VerdictInv, BooksInv, NEW r \in Request, CommitExit(r)
  PROVE  BooksInv'
<1>0. /\ Commits(r) /\ tx[r].kind = "exit" /\ payment' = payment /\ adjustment' = adjustment
      /\ \A p \in Request : alloc'[p] = [alloc[p] EXCEPT ![r] = tx[r].share[p]]
      /\ charge \in [Request -> ChargeRow] /\ payment \in [Request -> PaymentRow]
      /\ alloc \in [Request -> [Request -> Nat]] /\ tx[r].share \in [Request -> Nat]
      /\ tx[r].amount \in Nat /\ tx[r].on \in Session
      /\ session \in [Session -> {None, "OPEN", "FREE", "UNPAID", "PAID"}]
  BY DEF CommitExit, Ready, Commits, Inv, TypeOK, Transaction, RequestsTrue, KindTrue
<1>9. ASSUME NEW p \in Request, NEW x \in Request
      PROVE  /\ alloc[p][x] \in Nat /\ tx[r].share[p] \in Nat
             /\ alloc'[p][x] = IF x = r THEN tx[r].share[p] ELSE alloc[p][x]
  <2>1. alloc[p] \in [Request -> Nat] /\ tx[r].share[p] \in Nat
    BY <1>0
  <2>2. alloc'[p] = [alloc[p] EXCEPT ![r] = tx[r].share[p]]
    BY <1>0
  <2> QED BY <2>1, <2>2
<1>1. PICK taken \in 0..tx[r].amount :
        LET settled == IF taken < tx[r].amount THEN "UNPAID" ELSE "PAID" IN
        /\ taken = Total(tx[r].share)
        /\ charge' = IF tx[r].amount = 0 THEN charge
                     ELSE [charge EXCEPT ![r] = [about |-> tx[r].on, amount |-> tx[r].amount,
                                                 paid |-> taken, status |-> settled]]
        /\ session' = [session EXCEPT ![tx[r].on] = IF tx[r].amount = 0 THEN "FREE" ELSE settled]
  BY DEF CommitExit
<1>2. ASSUME NEW p \in Request
      PROVE  Total(alloc'[p]) <= payment'[p].amount
  <2> DEFINE f == alloc[p]
             g == alloc'[p]
  <2>0. alloc[p][r] = 0
    BY <1>0, CommitKnows
  <2>1. /\ Numbers(f, Request) /\ Numbers(g, Request) /\ f[r] = 0 /\ g[r] = tx[r].share[p]
        /\ \A x \in Request \ {r} : g[x] = f[x]
    <3>1. IsFiniteSet(Request)
      BY FinanceAssumption
    <3> QED BY <1>9, <2>0, <3>1 DEF Numbers
  <2>2. SumOf(g, Request) = SumOf(f, Request) + g[r]
    <3> HIDE DEF f, g
    <3> QED BY <2>1, SumChange
  <2>3. /\ Total(alloc[p]) <= payment[p].amount
        /\ tx[r].share[p] > 0 => tx[r].share[p] + Total(alloc[p]) <= payment[p].amount
    BY <1>0, CommitKnows DEF BooksInv, BooksTables, PaymentsCovered, BooksRead
  <2>4. Total(alloc[p]) \in Int /\ tx[r].share[p] \in Nat
    BY <1>0, BooksNumbers DEF Inv
  <2>5. Total(alloc'[p]) = Total(alloc[p]) + tx[r].share[p] /\ payment'[p] = payment[p]
    BY <1>0, <2>1, <2>2 DEF Total
  <2> HIDE DEF f, g
  <2>6. CASE tx[r].share[p] > 0
    <3>1. tx[r].share[p] + Total(alloc[p]) <= payment[p].amount
      BY <2>3, <2>6
    <3>2. Total(alloc'[p]) = tx[r].share[p] + Total(alloc[p])
      BY <2>4, <2>5
    <3> QED BY <2>5, <3>1, <3>2
  <2>7. CASE ~(tx[r].share[p] > 0)
    <3>1. Total(alloc'[p]) = Total(alloc[p])
      BY <2>4, <2>5, <2>7
    <3> QED BY <2>3, <2>5, <3>1
  <2> QED BY <2>6, <2>7
<1>3. \A c \in Request : Waived(c)' = Waived(c)
  BY <1>0 DEF Waived, Waiving
<1>4. ASSUME NEW c \in Request \ {r}, charge'[c].status # None
      PROVE  Balanced(c)'
  <2>1. charge'[c] = charge[c]
    BY <1>0, <1>1
  <2>2. Balanced(c)
    BY <1>4, <2>1 DEF BooksInv, BooksTables
  <2>3. Received(c)' = Received(c)
    <3>1. \A p \in Request : alloc'[p][c] = alloc[p][c]
      BY <1>9
    <3> QED BY <3>1 DEF Received
  <2>4. ASSUME NEW s \in Session, charge[c].about = s
        PROVE  session'[s] = session[s]
    <3>1. session[s] # "OPEN" /\ session[tx[r].on] = "OPEN"
      BY <1>0, <2>4, CommitKnows DEF BooksInv, BooksTables, BooksRead
    <3> QED BY <1>0, <1>1, <3>1
  <2> QED BY <1>3, <2>1, <2>2, <2>3, <2>4, BalanceStays
<1>5. CASE tx[r].amount = 0
  <2>1. charge' = charge /\ charge[r].status = None /\ charge[r].about = None
    BY <1>0, <1>1, <1>5, CommitKnows
  <2>2. \A s \in Session : session'[s] = session[s] \/ session'[s] \notin {None, "OPEN"}
    BY <1>0, <1>1, <1>5, FinanceAssumption DEF None
  <2> QED BY <1>0, <1>2, <1>4, <2>1, <2>2, BooksAfter, FinanceAssumption
<1>6. CASE tx[r].amount # 0
  <2> DEFINE settled == IF taken < tx[r].amount THEN "UNPAID" ELSE "PAID"
  <2>1. /\ charge'[r] = [about |-> tx[r].on, amount |-> tx[r].amount, paid |-> taken, status |-> settled]
        /\ session' = [session EXCEPT ![tx[r].on] = settled]
    BY <1>0, <1>1, <1>6
  <2>2. Received(r)' = taken
    <3> DEFINE g == [p \in Request |-> alloc'[p][r]]
    <3>1. Numbers(tx[r].share, Request) /\ \A p \in Request : g[p] = tx[r].share[p]
      BY <1>9, AllocNumbers DEF Inv
    <3>2. SumOf(g, Request) = SumOf(tx[r].share, Request)
      <4> HIDE DEF g
      <4> QED BY <3>1, SumAgree
    <3> QED BY <1>1, <3>2 DEF Received, Total
  <2>3. Waived(r)' = 0
    <3> DEFINE f == [a \in Adjustment |-> adjustment[a].amount]
    <3>1. Numbers(f, Adjustment) /\ Waiving(r) = {}
      BY <1>0, BooksNumbers, CommitKnows DEF Inv
    <3>2. SumOf(f, {}) = 0
      <4> HIDE DEF f
      <4> QED BY <3>1, SumRecurses
    <3> QED BY <1>3, <3>1, <3>2 DEF Waived
  <2>4. Balanced(r)'
    <3>1. taken \in Int /\ tx[r].amount \in Int /\ taken <= tx[r].amount
      BY <1>0, <1>1
    <3>2. ASSUME NEW s \in Session, charge'[r].about = s, session'[s] = "PAID"
          PROVE  charge'[r].status = "PAID"
      BY <1>0, <2>1, <3>2
    <3>3. /\ charge'[r].paid = taken /\ charge'[r].amount = tx[r].amount
          /\ charge'[r].status = settled
      BY <2>1
    <3>4. settled = "PAID" <=> taken = tx[r].amount
      BY <3>1
    <3> HIDE DEF settled
    <3> QED BY <2>2, <2>3, <3>1, <3>2, <3>3, <3>4 DEF Balanced
  <2>5. /\ \A s \in Session : session'[s] = session[s] \/ session'[s] \notin {None, "OPEN"}
        /\ \A s \in Session : charge'[r].about = s => session'[s] \notin {None, "OPEN"}
    BY <1>0, <2>1, FinanceAssumption DEF None
  <2> QED BY <1>0, <1>2, <1>4, <2>4, <2>5, BooksAfter
<1> QED BY <1>5, <1>6

LEMMA BooksApprove ==
  ASSUME Inv, CreditInv, VerdictInv, BooksInv, NEW r \in Request, CommitApproval(r)
  PROVE  BooksInv'
<1> DEFINE a == tx[r].on
           f == [b \in Adjustment |-> adjustment[b].amount]
           g == [b \in Adjustment |-> adjustment'[b].amount]
<1>0. /\ Commits(r) /\ tx[r].kind = "approve" /\ charge' = Written(r)
      /\ payment' = payment /\ alloc' = alloc /\ session' = session
      /\ adjustment' = [adjustment EXCEPT ![a].status = "APPROVED"]
      /\ charge \in [Request -> ChargeRow] /\ adjustment \in [Adjustment -> AdjustmentRow]
  BY DEF CommitApproval, Ready, Commits, Inv, TypeOK
<1>1. /\ a \in Adjustment /\ adjustment[a].status = "PENDING" /\ adjustment[a].charge \in Request
      /\ adjustment[a].amount \in Int /\ adjustment[a].amount >= 0
  <2>1. a \in Adjustment /\ adjustment[a].status = "PENDING"
    BY <1>0, CommitKnows DEF KindTrue, BooksRead
  <2>2. adjustment[a].status # None
    BY <2>1 DEF None
  <2> QED BY <1>0, <2>1, <2>2 DEF BooksInv, BooksTables, Inv, RequestsTrue, AdjustmentRow
<1>2. \A b \in Adjustment : /\ adjustment'[b].charge = adjustment[b].charge
                            /\ adjustment'[b].amount = adjustment[b].amount
                            /\ adjustment'[b].status = IF b = a THEN "APPROVED" ELSE adjustment[b].status
  BY <1>0, <1>1 DEF AdjustmentRow
<1>3. f = g
  BY <1>2
<1>4. ASSUME NEW c \in Request
      PROVE  Waived(c)' = Waived(c) + (IF c = adjustment[a].charge THEN adjustment[a].amount ELSE 0)
  <2>1. Waiving(c)' = Waiving(c) \cup (IF c = adjustment[a].charge THEN {a} ELSE {}) /\ a \notin Waiving(c)
    BY <1>1, <1>2 DEF Waiving
  <2>2. Waived(c)' = SumOf(f, Waiving(c)') /\ Waived(c) = SumOf(f, Waiving(c))
    BY <1>3 DEF Waived
  <2>3. Waived(c) \in Int /\ Numbers(f, Adjustment) /\ Waiving(c) \in SUBSET Adjustment
    BY BooksNumbers DEF Inv
  <2>4. CASE c = adjustment[a].charge
    <3> DEFINE S == Waiving(c) \cup {a}
    <3>1. Waiving(c)' = S /\ S \in SUBSET Adjustment /\ S \ {a} = Waiving(c) /\ a \in S
      BY <1>1, <2>1, <2>3, <2>4
    <3>2. f[a] = adjustment[a].amount
      BY <1>1
    <3> HIDE DEF S, f, a
    <3>3. Numbers(f, S)
      BY <2>3, <3>1, SumRecurses
    <3>4. SumOf(f, S) = f[a] + SumOf(f, S \ {a})
      BY <3>1, <3>3, SumRemove
    <3>5. Waived(c)' = adjustment[a].amount + Waived(c)
      BY <2>2, <3>1, <3>2, <3>4
    <3>6. adjustment[a].amount \in Int
      BY <1>1
    <3> QED BY <2>3, <2>4, <3>5, <3>6
  <2>5. CASE c # adjustment[a].charge
    BY <2>1, <2>2, <2>3, <2>5
  <2> QED BY <2>4, <2>5
<1> HIDE DEF f, g
<1>5. \A c \in Request : Received(c)' = Received(c)
  BY <1>0 DEF Received
<1>6. ASSUME NEW c \in Request, charge'[c].status # None
      PROVE  Balanced(c)'
  <2>0. /\ Received(c) \in Int /\ Received(c) >= 0 /\ Waived(c) \in Int
        /\ charge[c].paid \in Int /\ charge[c].amount \in Int
    <3>1. charge[c] \in ChargeRow
      BY <1>0
    <3>2. Received(c) \in Int /\ Received(c) >= 0 /\ Waived(c) \in Int
      BY BooksNumbers DEF Inv
    <3> QED BY <3>1, <3>2 DEF ChargeRow
  <2>1. CASE c = adjustment[a].charge /\ charge[c].status = "UNPAID"
    <3> DEFINE n == Credited(c, adjustment[a].amount)
    <3>1. /\ n >= charge[c].paid \/ n >= charge[c].amount
          /\ n <= charge[c].amount /\ n <= charge[c].paid + adjustment[a].amount
      BY <1>1, <2>0 DEF Credited, Least
    <3>2. Raises(tx[r], c, n)
      BY <1>0, <2>1, CommitKnows DEF BooksRead
    <3>3. Balanced(c)
      BY <2>1 DEF BooksInv, BooksTables, None
    <3>4. n \in Int
      BY <1>1, <2>0 DEF Credited, Least
    <3> HIDE DEF n
    <3>5. /\ charge'[c].about = charge[c].about /\ charge'[c].amount = charge[c].amount
          /\ charge'[c].paid = n
          /\ charge'[c].status = IF n = charge[c].amount THEN "PAID" ELSE "UNPAID"
      <4> SUFFICES ASSUME NEW m \in Int, m = n
                   PROVE  /\ charge'[c].about = charge[c].about /\ charge'[c].amount = charge[c].amount
                          /\ charge'[c].paid = m
                          /\ charge'[c].status = IF m = charge[c].amount THEN "PAID" ELSE "UNPAID"
        BY <3>4
      <4>1. charge' = Written(r) /\ Raises(tx[r], c, m)
        BY <1>0, <3>2
      <4> QED BY <4>1, WrittenRow
    <3>6. Received(c)' = Received(c) /\ Waived(c)' = Waived(c) + adjustment[a].amount
      BY <1>4, <1>5, <2>1
    <3>7. /\ Received(c) <= charge[c].paid /\ charge[c].paid <= charge[c].amount
          /\ charge[c].paid <= Received(c) + Waived(c)
          /\ \A s \in Session : charge[c].about = s => session[s] # "PAID"
      BY <2>1, <3>3 DEF Balanced
    <3>8. n >= charge[c].paid
      BY <2>0, <3>1, <3>4, <3>7
    <3>9. /\ Received(c)' <= charge'[c].paid /\ charge'[c].paid <= charge'[c].amount
          /\ charge'[c].paid <= Received(c)' + Waived(c)'
      BY <1>1, <2>0, <3>1, <3>4, <3>5, <3>6, <3>7, <3>8
    <3>10. \A s \in Session : charge'[c].about = s => session'[s] # "PAID"
      BY <1>0, <3>5, <3>7
    <3>11. charge'[c].status = "PAID" <=> charge'[c].paid = charge'[c].amount
      BY <3>5
    <3> QED BY <3>9, <3>10, <3>11 DEF Balanced
  <2>2. CASE ~(c = adjustment[a].charge /\ charge[c].status = "UNPAID")
    <3>1. Leaves(tx[r], c)
      BY <1>0, <2>2, CommitKnows DEF BooksRead
    <3>2. charge'[c] = charge[c]
      BY <1>0, <3>1, WrittenRow
    <3>3. Balanced(c)
      BY <1>6, <3>2 DEF BooksInv, BooksTables
    <3>4. Received(c)' = Received(c) /\ Waived(c)' \in Int /\ Waived(c)' >= Waived(c)
      BY <1>1, <1>4, <1>5, <2>0
    <3> QED BY <1>0, <2>0, <3>2, <3>3, <3>4 DEF Balanced
  <2> QED BY <2>1, <2>2
<1>7. \A p \in Request : Total(alloc'[p]) <= payment'[p].amount
  BY <1>0 DEF BooksInv, BooksTables, PaymentsCovered
<1>8. \A b \in Adjustment : adjustment'[b].status # None =>
        /\ adjustment[b].status # None
        /\ adjustment'[b].amount = adjustment[b].amount /\ adjustment'[b].charge = adjustment[b].charge
  BY <1>1, <1>2 DEF None
<1>9. \A s \in Session : charge'[r].about = s => session'[s] \notin {None, "OPEN"}
  <2>1. charge[r].about = None /\ charge[r].status = None
    BY <1>0, CommitKnows
  <2>2. Leaves(tx[r], r)
    BY <1>0, <2>1, CommitKnows DEF BooksRead, None
  <2> QED BY <1>0, <2>1, <2>2, WrittenRow, FinanceAssumption
<1> QED BY <1>0, <1>6, <1>7, <1>8, <1>9, BooksAfter

LEMMA BooksConfirm ==
  ASSUME Inv, CreditInv, VerdictInv, BooksInv, NEW r \in Request, CommitConfirm(r)
  PROVE  BooksInv'
<1> DEFINE v == tx[r].target
           new == [about |-> v, amount |-> Penalty[v], paid |-> 0, status |-> "UNPAID"]
<1>0. /\ Commits(r) /\ tx[r].kind = "confirm" /\ v \in Violation
      /\ charge' = IF tx[r].adds THEN [charge EXCEPT ![r] = new] ELSE charge
      /\ payment' = payment /\ alloc' = alloc /\ session' = session /\ adjustment' = adjustment
      /\ charge \in [Request -> ChargeRow]
  BY DEF CommitConfirm, Ready, Commits, Inv, TypeOK, RequestsTrue, KindTrue
<1>1. \A c \in Request : Received(c)' = Received(c) /\ Waived(c)' = Waived(c)
  BY <1>0 DEF Received, Waived, Waiving
<1>2. \A c \in Request \ {r} : charge'[c] = charge[c]
  BY <1>0
<1>3. ASSUME NEW c \in Request \ {r}, charge'[c].status # None
      PROVE  Balanced(c)'
  <2>1. Balanced(c)
    BY <1>2, <1>3 DEF BooksInv, BooksTables
  <2> QED BY <1>0, <1>1, <1>2, <2>1, BalanceStays
<1>4. charge'[r].status # None => Balanced(r)'
  <2> SUFFICES ASSUME charge'[r].status # None
               PROVE  Balanced(r)'
    OBVIOUS
  <2>1. tx[r].adds /\ charge'[r] = new
    BY <1>0, CommitKnows
  <2>2. Penalty[v] > 0 /\ Penalty[v] \in Nat
    BY <1>0, <2>1, CommitKnows, FinanceAssumption DEF VerdictTrue
  <2>3. Received(r) = 0
    <3> DEFINE f == [p \in Request |-> alloc[p][r]]
    <3>1. Numbers(f, Request) /\ \A p \in Request : f[p] = 0
      BY <1>0, BooksNumbers, CommitKnows DEF Inv
    <3>2. SumOf(f, Request) = 0
      <4> HIDE DEF f
      <4> QED BY <3>1, SumZero
    <3> QED BY <3>2 DEF Received, Total
  <2>4. Waived(r) = 0
    <3> DEFINE f == [a \in Adjustment |-> adjustment[a].amount]
    <3>1. Numbers(f, Adjustment) /\ Waiving(r) = {}
      BY <1>0, BooksNumbers, CommitKnows DEF Inv
    <3>2. SumOf(f, {}) = 0
      <4> HIDE DEF f
      <4> QED BY <3>1, SumRecurses
    <3> QED BY <3>1, <3>2 DEF Waived
  <2>5. \A s \in Session : charge'[r].about # s
    BY <1>0, <2>1, FinanceAssumption
  <2>6. /\ charge'[r].paid = 0 /\ charge'[r].amount = Penalty[v] /\ charge'[r].status = "UNPAID"
        /\ Received(r)' = 0 /\ Waived(r)' = 0
    BY <1>1, <2>1, <2>3, <2>4
  <2> HIDE DEF v, new
  <2> QED BY <2>2, <2>5, <2>6 DEF Balanced
<1>5. \A p \in Request : Total(alloc'[p]) <= payment'[p].amount
  BY <1>0 DEF BooksInv, BooksTables, PaymentsCovered
<1>6. \A s \in Session : charge'[r].about = s => session'[s] \notin {None, "OPEN"}
  <2>1. charge[r].about = None
    BY <1>0, CommitKnows
  <2> QED BY <1>0, <2>1, FinanceAssumption
<1>7. \A b \in Adjustment : adjustment'[b] = adjustment[b]
  BY <1>0
<1> QED BY <1>0, <1>3, <1>4, <1>5, <1>6, <1>7, BooksAfter

LEMMA BooksCancel ==
  ASSUME Inv, CreditInv, VerdictInv, BooksInv, NEW r \in Request, CommitCancel(r) \/ CommitReview(r)
  PROVE  BooksInv'
<1>0. /\ Commits(r) /\ tx[r].kind \in {"cancel", "review"} /\ charge' = Written(r)
      /\ payment' = payment /\ alloc' = alloc /\ session' = session /\ adjustment' = adjustment
      /\ charge \in [Request -> ChargeRow]
      /\ tx[r].marks \in [Request -> {"PAID", "VOIDED", None}] /\ tx[r].target \in Violation \cup {None}
  BY DEF CommitCancel, CommitReview, Ready, Commits, Inv, TypeOK, Transaction
<1>1. \A c \in Request : Received(c)' = Received(c) /\ Waived(c)' = Waived(c)
  BY <1>0 DEF Received, Waived, Waiving
<1>2. ASSUME NEW c \in Request
      PROVE  /\ charge'[c].about = charge[c].about /\ charge'[c].amount = charge[c].amount
             /\ charge'[c].paid = charge[c].paid
             /\ \/ charge'[c].status = charge[c].status
                \/ charge[c].status = "UNPAID" /\ charge'[c].status = "VOIDED" /\ charge[c].about \in Violation
  <2>1. charge'[c] = [charge[c] EXCEPT !.paid = IF c \in tx[r].touched THEN tx[r].paid[c] ELSE @,
                                       !.status = IF tx[r].marks[c] # None THEN tx[r].marks[c] ELSE @]
    BY <1>0 DEF Written
  <2>2. charge[c] \in ChargeRow
    BY <1>0
  <2>3. tx[r].touched = {} /\ tx[r].marks[c] # "PAID"
    BY <1>0, CommitKnows DEF BooksRead
  <2>4. tx[r].marks[c] = "VOIDED" => charge[c].status = "UNPAID" /\ charge[c].about \in Violation
    BY <1>0, CommitKnows DEF VerdictTrue
  <2>5. tx[r].marks[c] \in {"VOIDED", None}
    BY <1>0, <2>3
  <2> QED BY <2>1, <2>2, <2>3, <2>4, <2>5 DEF ChargeRow
<1>3. ASSUME NEW c \in Request, charge'[c].status # None
      PROVE  Balanced(c)'
  <2>1. Balanced(c)
    BY <1>2, <1>3 DEF BooksInv, BooksTables, None
  <2>2. CASE charge'[c].status = charge[c].status
    BY <1>0, <1>1, <1>2, <2>1, <2>2 DEF Balanced
  <2>3. CASE charge[c].status = "UNPAID" /\ charge'[c].status = "VOIDED" /\ charge[c].about \in Violation
    <3>1. \A s \in Session : charge'[c].about # s
      BY <1>2, <2>3, FinanceAssumption
    <3> QED BY <1>1, <1>2, <2>1, <2>3, <3>1 DEF Balanced
  <2> QED BY <1>2, <2>2, <2>3
<1>5. \A p \in Request : Total(alloc'[p]) <= payment'[p].amount
  BY <1>0 DEF BooksInv, BooksTables, PaymentsCovered
<1>6. \A s \in Session : charge'[r].about = s => session'[s] \notin {None, "OPEN"}
  <2>1. charge[r].about = None
    BY <1>0, CommitKnows
  <2> QED BY <1>2, <2>1, FinanceAssumption
<1>7. \A b \in Adjustment : adjustment'[b] = adjustment[b]
  BY <1>0
<1> QED BY <1>0, <1>3, <1>5, <1>6, <1>7, BooksAfter

LEMMA BooksStep ==
  ASSUME Waivers \subseteq Nat, Inv, CreditInv, VerdictInv, BooksInv, [Next]_vars, Apart'
  PROVE  BooksInv'
<1>1. ASSUME NEW r \in Request, Work(r)
      PROVE  BooksInv'
  BY <1>1, BooksFlush, BooksEnd, BooksPay, BooksExit, BooksApprove, BooksConfirm, BooksCancel DEF Work, Flushes
<1>2. CASE UNCHANGED vars
  <2>0. UNCHANGED tables /\ tx' = tx /\ pc' = pc
    BY <1>2 DEF vars
  <2>1. BooksTables'
    BY <2>0 DEF BooksInv, BooksTables, Balanced, PaymentsCovered, Received, Waived, Waiving, tables
  <2>2. ASSUME NEW r \in Busy
        PROVE  BooksRead(tx[r], pc[r])'
    <3>1. BooksRead(tx[r], pc[r])
      BY DEF BooksInv
    <3> QED BY <2>0, <3>1 DEF BooksRead, Raises, Leaves, Credited, tables
  <2>3. Busy' = Busy
    BY <2>0 DEF Busy
  <2> QED BY <2>1, <2>2, <2>3 DEF BooksInv
<1> QED BY <1>1, <1>2, BooksAsk, BooksEnd, BooksOperators DEF Next, Operators

(* As long as no two requests have overlapped, and with adjustments that   *)
(* lower a charge, amounts paid, waived and outstanding agree, and no      *)
(* payment gives more than it is worth.                                    *)
THEOREM SerialBooksAgree ==
  ASSUME Waivers \subseteq Nat
  PROVE  HistSpec => []SerialBooks
<1> DEFINE BooksHistory == ~overlapped => BooksInv
<1>1. HistInit => BooksHistory
  BY BooksStart, InitInv DEF HistInit
<1>2. VerdictHistory /\ VerdictHistory' /\ BooksHistory /\ [HistNext]_HistVars => BooksHistory'
  <2> SUFFICES ASSUME VerdictHistory, VerdictHistory', BooksHistory, [HistNext]_HistVars, ~overlapped'
               PROVE  BooksInv'
    OBVIOUS
  <2>1. [Next]_vars /\ ~overlapped
    BY StillApart
  <2>2. Apart'
    BY DEF VerdictHistory, VerdictInv
  <2> QED BY <2>1, <2>2, BooksStep DEF VerdictHistory
<1>3. Inv /\ BooksInv => BooksAgree
  <2> SUFFICES ASSUME Inv, BooksInv
               PROVE  BooksBalance
    BY DEF BooksAgree, BooksInv, BooksTables
  <2>1. ASSUME NEW c \in Request, charge[c].status # None
        PROVE  /\ Received(c) <= charge[c].paid
               /\ charge[c].paid <= Least(charge[c].amount, Received(c) + Waived(c))
               /\ charge[c].status = "PAID" <=> Outstanding(c) = 0
               /\ \A s \in Session : charge[c].about = s /\ session[s] = "PAID" => charge[c].status = "PAID"
    <3>1. Balanced(c)
      BY <2>1 DEF BooksInv, BooksTables
    <3>2. charge[c].paid \in Int /\ charge[c].amount \in Int
      BY DEF Inv, TypeOK, ChargeRow
    <3>3. Received(c) \in Int /\ Waived(c) \in Int
      BY BooksNumbers DEF Inv
    <3>4. charge[c].status = "PAID" <=> Outstanding(c) = 0
      BY <3>1, <3>2 DEF Balanced, Outstanding
    <3> QED BY <3>1, <3>2, <3>3, <3>4 DEF Balanced, Least
  <2> QED BY <2>1 DEF BooksBalance
<1>4. VerdictHistory /\ BooksHistory => SerialBooks
  BY <1>3 DEF VerdictHistory, SerialBooks
<1> QED BY <1>1, <1>2, <1>4, VerdictAlways, PTL DEF HistSpec

-----------------------------------------------------------------------------
(***************************************************************************)
(* The price of a stay.  The nights of different days have no half hour in *)
(* common, and what is counted of each is the half hours of the stay that  *)
(* are in it; so their sum is no more than the stay has at night.          *)
(***************************************************************************)
LEMMA TariffFields ==
  ASSUME NEW p \in Policies
  PROVE  /\ p.from \in 0 .. 23 /\ p.until \in 0 .. 23 /\ p.night \in Nat /\ p.hourly \in Nat
         /\ p.free \in Nat /\ p.cap \in Nat /\ p.least \in Nat
         /\ p.minute \in BOOLEAN /\ p.calendar \in BOOLEAN
BY TariffAssumption

(* The half hours from a to b, b not counted.                              *)
Between(a, b) == a .. b - 1

LEMMA BetweenCount ==
  ASSUME NEW a \in Int, NEW b \in Int
  PROVE  IsFiniteSet(Between(a, b)) /\ Cardinality(Between(a, b)) = Larger(0, b - a)
<1>1. IsFiniteSet(a .. b - 1)
      /\ Cardinality(a .. b - 1) = IF a > b - 1 THEN 0 ELSE (b - 1) - a + 1
  BY FS_Interval
<1> QED BY <1>1 DEF Between, Larger

(* Those of the stay that are in the night that begins on day d.           *)
NightPart(d, p, start, end) ==
  LET w == NightOf(d, p.from, p.until) IN Between(start, end) \cap Between(w.first, w.last)

LEMMA NightBounds ==
  ASSUME NEW p \in Policies, NEW d \in Int
  PROVE  LET w == NightOf(d, p.from, p.until) IN
         /\ w.first = d * 48 + p.from * 2
         /\ w.last = (IF p.from <= p.until THEN d * 48 ELSE d * 48 + 48) + p.until * 2
         /\ w.first \in Int /\ w.last \in Int
BY TariffFields DEF NightOf, Day, Hour

LEMMA NightPartCount ==
  ASSUME NEW p \in Policies, NEW d \in Int, NEW start \in Int, NEW end \in Int
  PROVE  /\ IsFiniteSet(NightPart(d, p, start, end))
         /\ Overlap(NightOf(d, p.from, p.until), start, end)
              = Cardinality(NightPart(d, p, start, end))
<1> DEFINE w == NightOf(d, p.from, p.until)
           a == Larger(w.first, start)
           b == Smaller(w.last, end)
<1>1. w.first \in Int /\ w.last \in Int
  BY NightBounds
<1> HIDE DEF w
<1>2. a \in Int /\ b \in Int
  BY <1>1 DEF Larger, Smaller
<1>3. Between(start, end) \cap Between(w.first, w.last) = Between(a, b)
  BY <1>1 DEF Between, Larger, Smaller
<1>4. Overlap(w, start, end) = Larger(0, b - a)
  BY DEF Overlap
<1> HIDE DEF a, b
<1>5. NightPart(d, p, start, end) = Between(a, b)
  BY <1>3 DEF NightPart, w
<1> QED BY <1>2, <1>4, <1>5, BetweenCount DEF w

LEMMA NightsApart ==
  ASSUME NEW p \in Policies, NEW c \in Int, NEW d \in Int, c # d,
         NEW start \in Int, NEW end \in Int
  PROVE  NightPart(c, p, start, end) \cap NightPart(d, p, start, end) = {}
<1> DEFINE v == NightOf(c, p.from, p.until)
           w == NightOf(d, p.from, p.until)
<1>1. p.from \in 0 .. 23 /\ p.until \in 0 .. 23
  BY TariffFields
<1>2. /\ v.first = c * 48 + p.from * 2 /\ v.first \in Int /\ v.last \in Int
      /\ v.last = (IF p.from <= p.until THEN c * 48 ELSE c * 48 + 48) + p.until * 2
  BY NightBounds
<1>3. /\ w.first = d * 48 + p.from * 2 /\ w.first \in Int /\ w.last \in Int
      /\ w.last = (IF p.from <= p.until THEN d * 48 ELSE d * 48 + 48) + p.until * 2
  BY NightBounds
<1> HIDE DEF v, w
<1>4. v.last <= w.first \/ w.last <= v.first
  BY <1>1, <1>2, <1>3
<1>5. Between(v.first, v.last) \cap Between(w.first, w.last) = {}
  BY <1>2, <1>3, <1>4 DEF Between
<1> QED BY <1>5 DEF NightPart, v, w

NightHours(D, p, start, end) == UNION {NightPart(d, p, start, end) : d \in D}

LEMMA NightSum ==
  ASSUME NEW p \in Policies, NEW D \in SUBSET Int, IsFiniteSet(D), NEW start \in Int,
         NEW len \in Int
  PROVE  /\ NightIn(D, p, start, len) \in Nat
         /\ NightIn(D, p, start, len)
              <= Cardinality(NightHours(D, p, start, start + len))
         /\ IsFiniteSet(NightHours(D, p, start, start + len))
<1> DEFINE end == start + len
           f == [d \in D |-> Overlap(NightOf(d, p.from, p.until), start, end)]
           H(T) == NightHours(T, p, start, end)
           U == {T \in SUBSET D : /\ SumOf(f, T) \in Nat /\ IsFiniteSet(H(T))
                                 /\ SumOf(f, T) <= Cardinality(H(T))}
<1>1. NightIn(D, p, start, len) = SumOf(f, D)
  BY DEF NightIn, SumOf
<1>2. end \in Int
  OBVIOUS
<1>3. \A d \in D : /\ IsFiniteSet(NightPart(d, p, start, end))
                   /\ f[d] = Cardinality(NightPart(d, p, start, end)) /\ f[d] \in Nat
  <2> SUFFICES ASSUME NEW d \in D
               PROVE  /\ IsFiniteSet(NightPart(d, p, start, end))
                      /\ f[d] = Cardinality(NightPart(d, p, start, end)) /\ f[d] \in Nat
    OBVIOUS
  <2>1. d \in Int /\ f[d] = Overlap(NightOf(d, p.from, p.until), start, end)
    OBVIOUS
  <2> HIDE DEF f, end
  <2>2. /\ IsFiniteSet(NightPart(d, p, start, end))
        /\ f[d] = Cardinality(NightPart(d, p, start, end))
    BY <1>2, <2>1, NightPartCount
  <2>3. Cardinality(NightPart(d, p, start, end)) \in Nat
    BY <2>2, FS_CardinalityType
  <2> QED BY <2>2, <2>3
<1>4. Numbers(f, D)
  BY <1>3 DEF Numbers
<1> HIDE DEF f, end
<1>5. {} \in U
  <2>1. H({}) = {}
    BY DEF NightHours
  <2>2. SumOf(f, {}) = 0
    BY <1>4, SumRecurses
  <2> QED BY <2>1, <2>2, FS_EmptySet
<1>6. ASSUME NEW T \in SUBSET D, T # {}, \A x \in T : T \ {x} \in U PROVE T \in U
  <2> DEFINE c == Pick(T)
             A == NightPart(c, p, start, end)
             B == H(T \ {c})
  <2>1. c \in T /\ c \in D /\ T \ {c} \in U
    BY <1>6, PickIn
  <2>2. SumOf(f, T) = f[c] + SumOf(f, T \ {c})
    <3> HIDE DEF U, H
    <3>1. \A R \in SUBSET D : R # {} => SumOf(f, R) = f[Pick(R)] + SumOf(f, R \ {Pick(R)})
      BY <1>4, SumRecurses
    <3> QED BY <1>6, <3>1
  <2>3. f[c] = Cardinality(A) /\ f[c] \in Nat /\ IsFiniteSet(A)
    BY <1>3, <2>1
  <2>4. SumOf(f, T \ {c}) \in Nat /\ IsFiniteSet(B) /\ SumOf(f, T \ {c}) <= Cardinality(B)
    BY <2>1
  <2>5. H(T) = A \cup B
    BY <2>1 DEF NightHours
  <2>6. A \cap B = {}
    <3>1. \A d \in T \ {c} : A \cap NightPart(d, p, start, end) = {}
      BY <1>2, <2>1, NightsApart
    <3> QED BY <3>1 DEF NightHours
  <2> HIDE DEF A, B, H, c
  <2>7. /\ IsFiniteSet(A \cup B)
        /\ Cardinality(A \cup B) = Cardinality(A) + Cardinality(B) - Cardinality(A \cap B)
    BY <2>3, <2>4, FS_Union
  <2>8. Cardinality(A \cup B) = Cardinality(A) + Cardinality(B)
        /\ Cardinality(A) \in Nat /\ Cardinality(B) \in Nat
    <3>1. Cardinality(A \cap B) = 0
      BY <2>6, FS_EmptySet
    <3>2. Cardinality(A) \in Nat
      BY <2>3, FS_CardinalityType
    <3>3. Cardinality(B) \in Nat
      BY <2>4, FS_CardinalityType
    <3> QED BY <2>7, <3>1, <3>2, <3>3
  <2>9. SumOf(f, T) \in Nat /\ SumOf(f, T) <= Cardinality(A \cup B)
    BY <2>2, <2>3, <2>4, <2>8
  <2> QED BY <2>5, <2>7, <2>9
<1>7. \A T \in SUBSET D : T \in U
  <2> HIDE DEF U
  <2> QED BY <1>5, <1>6, SubsetInduction
<1> QED BY <1>1, <1>7 DEF end

(* A half hour in the night of some day is in the night by its hour.       *)
LEMMA NightByHour ==
  ASSUME NEW p \in Policies, NEW d \in Int, NEW t \in Int,
         LET w == NightOf(d, p.from, p.until) IN w.first <= t /\ t < w.last
  PROVE  InNight(p, t)
<1> DEFINE w == NightOf(d, p.from, p.until)
           r == t - d * 48
<1>1. p.from \in 0 .. 23 /\ p.until \in 0 .. 23
  BY TariffFields
<1>2. /\ w.first = d * 48 + p.from * 2
      /\ w.last = (IF p.from <= p.until THEN d * 48 ELSE d * 48 + 48) + p.until * 2
  BY NightBounds
<1>3. w.first <= t /\ t < w.last
  OBVIOUS
<1> HIDE DEF w
<1>4. r \in Int /\ t = d * 48 + r
  OBVIOUS
<1>5. p.from * 2 <= r /\ r < (IF p.from <= p.until THEN 0 ELSE 48) + p.until * 2
  BY <1>1, <1>2, <1>3, <1>4
<1> HIDE DEF r
<1>6. CASE r < 48
  <2>1. t % 48 = r
    BY <1>1, <1>4, <1>5, <1>6
  <2>2. r \div 2 \in Int /\ p.from <= r \div 2 /\ (p.from <= p.until => r \div 2 < p.until)
    BY <1>1, <1>4, <1>5
  <2> QED BY <2>1, <2>2, <1>1 DEF InNight, Day, Hour
<1>7. CASE 48 <= r
  <2>1. ~(p.from <= p.until)
    BY <1>1, <1>4, <1>5, <1>7
  <2>2. t % 48 = r - 48
    BY <1>1, <1>4, <1>5, <1>7
  <2>3. (r - 48) \div 2 \in Int /\ (r - 48) \div 2 < p.until
    BY <1>1, <1>4, <1>5, <2>1
  <2> QED BY <2>1, <2>2, <2>3, <1>1 DEF InNight, Day, Hour
<1> QED BY <1>1, <1>4, <1>6, <1>7

LEMMA DaysVisited ==
  ASSUME NEW start \in Int, NEW end \in Int
  PROVE  Visited(start, end) \in SUBSET Int /\ IsFiniteSet(Visited(start, end))
<1> DEFINE last == Smaller(end \div Day, NIGHT_MAX_DAYS - 2)
<1>1. last \in Int
  BY DEF Smaller, Day, NIGHT_MAX_DAYS
<1>2. Visited(start, end) \subseteq -1 .. last
  BY DEF Visited
<1> HIDE DEF last
<1>3. IsFiniteSet(-1 .. last)
  BY <1>1, FS_Interval
<1>4. IsFiniteSet(Visited(start, end))
  BY <1>2, <1>3, FS_Subset
<1> QED BY <1>1, <1>2, <1>4

(* What night_overlap_seconds counts is a number, and no more than the     *)
(* half hours of the stay that are in a night.                             *)
LEMMA NightAtMost ==
  ASSUME NEW p \in Policies, NEW start \in Int, NEW len \in Int
  PROVE  /\ night_overlap(p, start, len) \in Nat
         /\ night_overlap(p, start, len)
              <= Cardinality({t \in start .. start + len - 1 : InNight(p, t)})
<1> DEFINE D == Visited(start, start + len)
           H == NightHours(D, p, start, start + len)
           N == {t \in start .. start + len - 1 : InNight(p, t)}
<1>1. D \in SUBSET Int /\ IsFiniteSet(D)
  BY DaysVisited
<1>2. IsFiniteSet(N) /\ Cardinality(N) \in Nat
  <2>1. IsFiniteSet(start .. start + len - 1)
    BY FS_Interval
  <2>2. IsFiniteSet(N)
    BY <2>1, FS_Subset
  <2> QED BY <2>2, FS_CardinalityType
<1> HIDE DEF D
<1>3. /\ NightIn(D, p, start, len) \in Nat
      /\ NightIn(D, p, start, len) <= Cardinality(H)
      /\ IsFiniteSet(H)
  BY <1>1, NightSum
<1>4. H \subseteq N
  <2> SUFFICES ASSUME NEW d \in D, NEW t \in NightPart(d, p, start, start + len)
               PROVE  t \in N
    BY DEF NightHours
  <2> DEFINE w == NightOf(d, p.from, p.until)
  <2>1. d \in Int
    BY <1>1
  <2>2. w.first \in Int /\ w.last \in Int
    BY <2>1, NightBounds
  <2>3. t \in Between(start, start + len) /\ t \in Between(w.first, w.last)
    BY DEF NightPart
  <2> HIDE DEF w
  <2>4. t \in start .. start + len - 1 /\ t \in Int /\ w.first <= t /\ t < w.last
    BY <2>2, <2>3 DEF Between
  <2>5. InNight(p, t)
    BY <2>1, <2>4, NightByHour DEF w
  <2> QED BY <2>4, <2>5
<1> HIDE DEF H, N
<1>5. Cardinality(H) \in Nat /\ Cardinality(H) <= Cardinality(N)
  BY <1>2, <1>3, <1>4, FS_Subset, FS_CardinalityType
<1>6. night_overlap(p, start, len) = IF len <= 0 THEN 0 ELSE NightIn(D, p, start, len)
  BY DEF night_overlap, D
<1> QED BY <1>2, <1>3, <1>5, <1>6 DEF N

(* What is charged for the part of a stay at one rate, and half of a       *)
(* product.                                                                *)
LEMMA NoMore ==
  ASSUME NEW a \in Nat, NEW k \in Nat, NEW rate \in Nat, a <= 2 * k
  PROVE  a * rate \in Nat /\ k * rate \in Nat /\ a * rate <= 2 * (k * rate)
<1>1. a * rate \in Nat /\ k * rate \in Nat
  OBVIOUS
<1>2. (2 * k - a) * rate \in Nat
  <2>1. 2 * k - a \in Nat
    OBVIOUS
  <2> QED BY <2>1
<1>3. (2 * k - a) * rate = 2 * (k * rate) - a * rate
  OBVIOUS
<1> QED BY <1>1, <1>2, <1>3

(* Rounding by minutes and by hours: each a number, the first no dearer.   *)
LEMMA CostRounds ==
  ASSUME NEW p, NEW q, p.minute = TRUE, q.minute = FALSE, NEW len \in Int, NEW rate \in Nat
  PROVE  /\ Cost(p, len, rate) \in Nat /\ Cost(q, len, rate) \in Nat
         /\ Cost(p, len, rate) <= Cost(q, len, rate)
<1>1. CASE len <= 0
  BY <1>1 DEF Cost
<1>2. CASE len > 0
  <2> DEFINE k == CeilDiv(len, Hour)
             m == len * rate
             n == k * rate
  <2>1. k \in Nat /\ len <= 2 * k /\ len \in Nat
    BY <1>2 DEF CeilDiv, Hour
  <2>2. Cost(p, len, rate) = m \div 2 /\ Cost(q, len, rate) = n
    BY <1>2 DEF Cost, Hour
  <2> HIDE DEF k
  <2>3. m \in Nat /\ n \in Nat /\ m <= 2 * n
    BY <2>1, NoMore
  <2> HIDE DEF m, n
  <2>4. m \div 2 \in Nat /\ m \div 2 <= n
    BY <2>3
  <2> QED BY <2>2, <2>3, <2>4
<1> QED BY <1>1, <1>2

(* The days that the cap is counted for.                                   *)
LEMMA DaysCount ==
  ASSUME NEW p \in Policies, NEW start \in Int, NEW len \in Int
  PROVE  Days(p, start, len) \in Int
<1>1. (start + len) \div Day \in Int /\ start \div Day \in Int
  BY DEF Day
<1>2. Larger(0, len) \in Int
  BY DEF Larger
<1>3. \A a \in Int : CeilDiv(a, Day) \in Int
  BY DEF CeilDiv, Day
<1> QED BY <1>1, <1>2, <1>3 DEF Days, Larger

(* What becomes of the sum of the two parts: the cap and the least amount. *)
Settled(base, p, start, len) ==
  LET capped == Capped(base, p, start, len)
  IN  IF 0 < capped /\ capped < p.least THEN p.least ELSE capped

LEMMA SettledKeeps ==
  ASSUME NEW p \in Policies, NEW start \in Int, NEW len \in Int, NEW a \in Int, NEW b \in Int, a <= b
  PROVE  /\ Settled(a, p, start, len) <= Settled(b, p, start, len)
         /\ p.cap > 0 => Settled(a, p, start, len) <= Larger(p.least, p.cap * Days(p, start, len))
         /\ p.cap > 0 => Settled(b, p, start, len) <= Larger(p.least, p.cap * Days(p, start, len))
<1> DEFINE n == p.cap * Days(p, start, len)
           c == Capped(a, p, start, len)
           d == Capped(b, p, start, len)
<1>1. p.cap \in Nat /\ p.least \in Nat
  BY TariffFields
<1>2. n \in Int
  BY <1>1, DaysCount
<1>3. /\ c = IF p.cap = 0 THEN a ELSE Smaller(a, n)
      /\ d = IF p.cap = 0 THEN b ELSE Smaller(b, n)
  BY DEF Capped
<1>4. /\ Settled(a, p, start, len) = IF 0 < c /\ c < p.least THEN p.least ELSE c
      /\ Settled(b, p, start, len) = IF 0 < d /\ d < p.least THEN p.least ELSE d
  BY DEF Settled
<1> HIDE DEF n, c, d
<1>5. /\ c \in Int /\ d \in Int /\ c <= d
      /\ p.cap > 0 => c <= n /\ d <= n
  BY <1>1, <1>2, <1>3 DEF Smaller
<1>6. /\ Settled(a, p, start, len) <= Settled(b, p, start, len)
      /\ p.cap > 0 => /\ Settled(a, p, start, len) <= Larger(p.least, n)
                      /\ Settled(b, p, start, len) <= Larger(p.least, n)
  BY <1>1, <1>2, <1>4, <1>5 DEF Larger
<1> QED BY <1>6 DEF n

(* A policy but for how it rounds.                                         *)
Alike(q, p) ==
  /\ q.from = p.from /\ q.until = p.until /\ q.night = p.night /\ q.hourly = p.hourly
  /\ q.free = p.free /\ q.cap = p.cap /\ q.least = p.least /\ q.calendar = p.calendar

LEMMA OnlyRounds ==
  ASSUME NEW p \in Policies, NEW m \in BOOLEAN
  PROVE  Alike([p EXCEPT !.minute = m], p) /\ [p EXCEPT !.minute = m].minute = m
<1> DEFINE q == [p EXCEPT !.minute = m]
<1>1. p \in [from : 0 .. 23, until : 0 .. 23, night : Nat, hourly : Nat, free : Nat, cap : Nat,
             least : Nat, minute : BOOLEAN, calendar : BOOLEAN]
  BY TariffAssumption
<1>2. DOMAIN p = {"from", "until", "night", "hourly", "free", "cap", "least", "minute", "calendar"}
  BY <1>1
<1>3. \A x \in DOMAIN p : q[x] = IF x = "minute" THEN m ELSE p[x]
  OBVIOUS
<1> HIDE DEF q
<1> QED BY <1>2, <1>3 DEF Alike, q

LEMMA NightAlike ==
  ASSUME NEW p, NEW q, Alike(q, p), NEW start \in Int, NEW len \in Int
  PROVE  night_overlap(q, start, len) = night_overlap(p, start, len)
<1> DEFINE D == Visited(start, start + len)
           share(r) == [d \in D |-> Overlap(NightOf(d, r.from, r.until), start, start + len)]
<1>1. share(q) = share(p)
  BY DEF Alike
<1>2. \A r : NightIn(D, r, start, len) = SumOf(share(r), D)
  BY DEF NightIn, SumOf
<1> HIDE DEF D, share
<1>3. NightIn(D, q, start, len) = NightIn(D, p, start, len)
  BY <1>1, <1>2
<1> QED BY <1>3 DEF night_overlap, D

(* The parts of calculate_amounts.                                         *)
Billable(p, len) == Larger(0, len - p.free)
NightPriced(p, start, len) == IF p.night > 0 THEN night_overlap(p, start, Billable(p, len)) ELSE 0
Base(q, p, start, len) ==
  Cost(q, NightPriced(p, start, len), p.night)
    + Cost(q, Billable(p, len) - NightPriced(p, start, len), p.hourly)

LEMMA PriceIs ==
  ASSUME NEW p \in Policies, NEW q, Alike(q, p), NEW start \in Int, NEW len \in Int
  PROVE  calculate_amounts(q, start, len)
           = IF Billable(p, len) = 0 THEN 0 ELSE Settled(Base(q, p, start, len), p, start, len)
<1>1. Billable(q, len) = Billable(p, len) /\ Billable(p, len) \in Int
  BY TariffFields DEF Billable, Alike, Larger
<1>2. night_overlap(q, start, Billable(q, len)) = night_overlap(p, start, Billable(p, len))
  BY <1>1, NightAlike
<1>3. NightPriced(q, start, len) = NightPriced(p, start, len)
  BY <1>2 DEF NightPriced, Alike
<1>4. Base(q, q, start, len) = Base(q, p, start, len)
  BY <1>1, <1>3 DEF Base, Alike
<1>5. \A x : Settled(x, q, start, len) = Settled(x, p, start, len)
  BY DEF Settled, Capped, Days, Alike
<1>6. calculate_amounts(q, start, len)
        = IF Billable(q, len) = 0 THEN 0 ELSE Settled(Base(q, q, start, len), q, start, len)
  BY DEF calculate_amounts, Billable, NightPriced, Base, Settled
<1> QED BY <1>1, <1>4, <1>5, <1>6

(* The price of a stay: no dearer by minutes than by hours, and capped.    *)
LEMMA PriceHolds ==
  ASSUME NEW p \in Policies, NEW start \in Int, NEW len \in Int
  PROVE  /\ p.cap > 0 => calculate_amounts(p, start, len)
                           <= Larger(p.least, p.cap * Days(p, start, len))
         /\ calculate_amounts([p EXCEPT !.minute = TRUE], start, len)
              <= calculate_amounts([p EXCEPT !.minute = FALSE], start, len)
<1> DEFINE y == [p EXCEPT !.minute = TRUE]
           z == [p EXCEPT !.minute = FALSE]
           bound == Larger(p.least, p.cap * Days(p, start, len))
           night == NightPriced(p, start, len)
           rest == Billable(p, len) - night
<1>1. Alike(y, p) /\ y.minute = TRUE
  BY OnlyRounds
<1>2. Alike(z, p) /\ z.minute = FALSE
  BY OnlyRounds
<1> HIDE DEF y, z
<1>3. p.night \in Nat /\ p.hourly \in Nat /\ p.cap \in Nat /\ p.least \in Nat /\ p.free \in Nat
      /\ p.minute \in BOOLEAN
  BY TariffFields
<1>4. Billable(p, len) \in Int
  BY <1>3 DEF Billable, Larger
<1>5. night \in Int /\ rest \in Int
  <2>1. night_overlap(p, start, Billable(p, len)) \in Nat
    BY <1>4, NightAtMost
  <2>2. night \in Int
    BY <2>1 DEF NightPriced
  <2> QED BY <1>4, <2>2
<1> HIDE DEF night, rest
<1>6. /\ Cost(y, night, p.night) \in Nat /\ Cost(z, night, p.night) \in Nat
      /\ Cost(y, night, p.night) <= Cost(z, night, p.night)
  BY <1>1, <1>2, <1>3, <1>5, CostRounds
<1>7. /\ Cost(y, rest, p.hourly) \in Nat /\ Cost(z, rest, p.hourly) \in Nat
      /\ Cost(y, rest, p.hourly) <= Cost(z, rest, p.hourly)
  BY <1>1, <1>2, <1>3, <1>5, CostRounds
<1>8. /\ Base(y, p, start, len) = Cost(y, night, p.night) + Cost(y, rest, p.hourly)
      /\ Base(z, p, start, len) = Cost(z, night, p.night) + Cost(z, rest, p.hourly)
      /\ Base(p, p, start, len) = Cost(p, night, p.night) + Cost(p, rest, p.hourly)
  BY DEF Base, night, rest
<1>9. /\ Base(y, p, start, len) \in Int /\ Base(z, p, start, len) \in Int
      /\ Base(y, p, start, len) <= Base(z, p, start, len)
  BY <1>6, <1>7, <1>8
<1>10. Base(p, p, start, len) \in Int
  <2>1. \A r, l : Cost(p, l, r) = IF p.minute = TRUE THEN Cost(y, l, r) ELSE Cost(z, l, r)
    BY <1>1, <1>2, <1>3 DEF Cost
  <2> QED BY <1>6, <1>7, <1>8, <2>1
<1>11. /\ p.cap > 0 => Settled(Base(p, p, start, len), p, start, len) <= bound
       /\ Settled(Base(y, p, start, len), p, start, len) <= Settled(Base(z, p, start, len), p, start, len)
  BY <1>9, <1>10, SettledKeeps
<1>12. 0 <= bound
  BY <1>3, DaysCount DEF Larger
<1>13. Alike(p, p)
  BY DEF Alike
<1>14. p.cap > 0 => calculate_amounts(p, start, len) <= bound
  BY <1>11, <1>12, <1>13, PriceIs
<1>15. calculate_amounts(y, start, len) <= calculate_amounts(z, start, len)
  BY <1>1, <1>2, <1>11, PriceIs
<1> QED BY <1>14, <1>15 DEF y, z, bound

(* Whatever the tariff, the settings and the hour of arrival, a stay of    *)
(* any length has no more priced at the night's rate than it spends at     *)
(* night, pays no more than the cap of its days, and pays no more by       *)
(* minutes than by hours (night_overlap_seconds, calculate_amounts).       *)
THEOREM TariffIsSound == TarSpec => []TariffSound
<1>1. TarInit => TarTypeOK
  BY TariffAssumption DEF TarInit, TarTypeOK
<1>2. TarTypeOK /\ [TarNext]_tarVars => TarTypeOK'
  BY TariffAssumption DEF TarTypeOK, TarNext, Stays, tarVars
<1>3. TarTypeOK => TariffSound
  <2> SUFFICES ASSUME TarTypeOK
               PROVE  TariffSound
    OBVIOUS
  <2>1. policy \in Policies /\ arrived \in Int /\ length \in Int
    BY TariffAssumption DEF TarTypeOK, Day
  <2>2. NightIsNight
    BY <2>1, NightAtMost DEF NightIsNight, NightHalfHours
  <2>3. PriceBounded
    BY <2>1, PriceHolds DEF PriceBounded
  <2> QED BY <2>2, <2>3 DEF TariffSound
<1> QED BY <1>1, <1>2, <1>3, PTL DEF TarSpec

=============================================================================
