------------------------------- MODULE Tariff -------------------------------
(***************************************************************************)
(* What a stay costs (backend/app/modules/finance/service.py:              *)
(* night_overlap_seconds, _apply_daily_cap, calculate_amounts). A stay     *)
(* grows by half an hour at a time under a fixed policy. Times count half  *)
(* hours from the midnight before the day the stay begins; amounts are     *)
(* even, so that half an hour has a whole price.                           *)
(***************************************************************************)
EXTENDS Integers, FiniteSets, FiniteSetsExt

CONSTANTS
  Policies,    \* [from, until: the night's hours, night, hourly, free, cap, least, minute, calendar]
  MaxLength    \* bound, in half hours

\* Amounts and minutes are not negative (TariffCreate); hours are cut to 0 .. 23
\* and the least amount to 0 at least (runtime_settings.resolve_tariff_policy).
ASSUME TariffAssumption ==
  /\ MaxLength \in Nat
  /\ Policies \subseteq
       [from : 0 .. 23, until : 0 .. 23, night : Nat, hourly : Nat, free : Nat, cap : Nat,
        least : Nat, minute : BOOLEAN, calendar : BOOLEAN]

VARIABLES
  policy,      \* the tariff and the settings
  arrived,     \* half hours after midnight
  length       \* of the stay, so far

tarVars == <<policy, arrived, length>>

Day == 48
Hour == 2

TarInit == policy \in Policies /\ arrived \in 0 .. Day - 1 /\ length = 0

Larger(a, b) == IF a > b THEN a ELSE b
Smaller(a, b) == IF a < b THEN a ELSE b
CeilDiv(a, b) == -((-a) \div b)

-----------------------------------------------------------------------------
(* The night's share.                                                      *)

NIGHT_MAX_DAYS == 3660

\* The night that begins on day d, of nights from -> until.
NightOf(d, from, until) ==
  [first |-> d * Day + from * Hour,
   last  |-> (IF from <= until THEN d ELSE d + 1) * Day + until * Hour]

(* Mutant of Overlap: the night is not cut off where the stay begins. *)
OverlapFromDusk(w, start, end) == Larger(0, Smaller(w.last, end) - w.first)

Overlap(w, start, end) == Larger(0, Smaller(w.last, end) - Larger(w.first, start))

\* The days the loop visits: a cursor moves by days from the full hour of the
\* arrival, one day before it, for as long as it is before the end.
Visited(start, end) ==
  {d \in -1 .. Smaller(end \div Day, NIGHT_MAX_DAYS - 2) : d * Day + Hour * (start \div Hour) < end}

NightIn(days, p, start, len) ==
  LET share == [d \in days |-> Overlap(NightOf(d, p.from, p.until), start, start + len)]
  IN  MapThenSumSet(LAMBDA d : share[d], days)

night_overlap(p, start, len) ==
  IF len <= 0 THEN 0 ELSE NightIn(Visited(start, start + len), p, start, len)

-----------------------------------------------------------------------------
(* The amount.                                                             *)

Days(p, start, len) ==
  IF p.calendar THEN Larger(1, ((start + len) \div Day) - (start \div Day) + 1)
                ELSE Larger(1, CeilDiv(Larger(0, len), Day))

Capped(base, p, start, len) ==
  IF p.cap = 0 THEN base ELSE Smaller(base, p.cap * Days(p, start, len))

Cost(p, len, rate) ==
  IF len <= 0 THEN 0
  ELSE IF p.minute THEN (len * rate) \div Hour ELSE CeilDiv(len, Hour) * rate

calculate_amounts(p, start, len) ==
  LET billable == Larger(0, len - p.free)
      night    == IF p.night > 0 THEN night_overlap(p, start, billable) ELSE 0
      base     == Cost(p, night, p.night) + Cost(p, billable - night, p.hourly)
      capped   == Capped(base, p, start, len)
  IN  IF billable = 0 THEN 0
      ELSE IF 0 < capped /\ capped < p.least THEN p.least ELSE capped

-----------------------------------------------------------------------------

Stays ==
  /\ length < MaxLength /\ length' = length + 1
  /\ UNCHANGED <<policy, arrived>>

TarNext == Stays
TarSpec == TarInit /\ [][TarNext]_tarVars

-----------------------------------------------------------------------------
(* Properties.                                                             *)

\* Types of what the price is worked out from (calculate_amounts).
TarTypeOK == policy \in Policies /\ arrived \in 0 .. Day - 1 /\ length \in 0 .. MaxLength

\* The half hours of the stay that are in a night: the definition by cases.
InNight(p, t) ==
  LET h == (t % Day) \div Hour
  IN  IF p.from <= p.until THEN p.from <= h /\ h < p.until ELSE h >= p.from \/ h < p.until

NightHalfHours == {t \in arrived .. arrived + length - 1 : InNight(policy, t)}

\* No time is priced as a night's that is not (night_overlap_seconds).
NightIsNight == night_overlap(policy, arrived, length) <= Cardinality(NightHalfHours)

\* The cap holds for every day of the stay, and rounding by minutes is never
\* the dearer one (_apply_daily_cap, calculate_amounts).
PriceBounded ==
  LET price == calculate_amounts(policy, arrived, length)
  IN  /\ policy.cap > 0 => price <= Larger(policy.least,
                                           policy.cap * Days(policy, arrived, length))
      /\ calculate_amounts([policy EXCEPT !.minute = TRUE], arrived, length)
           <= calculate_amounts([policy EXCEPT !.minute = FALSE], arrived, length)

TariffSound == NightIsNight /\ PriceBounded

\* night_overlap_seconds is "the sum of the seconds of the stay that overlap
\* the night's window". The window of the last day may be left out.
NightCounted == night_overlap(policy, arrived, length) = Cardinality(NightHalfHours)
=============================================================================
