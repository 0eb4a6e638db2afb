--------------------------- MODULE FinanceHistory ---------------------------
(***************************************************************************)
(* Finance with a history variable, which tells whether two requests have  *)
(* ever been under way at once.  What the handlers read they do not lock,  *)
(* so that books and verdicts agree only as long as that has not happened. *)
(***************************************************************************)
EXTENDS Finance

VARIABLE overlapped  (* Have two requests been under way at the same time. *)

Apart == \A q, r \in Busy : q = r

HistVars == <<vars, overlapped>>

HistInit == Init /\ overlapped = FALSE

HistNext == Next /\ overlapped' = (overlapped \/ ~Apart')

HistSpec == HistInit /\ [][HistNext]_HistVars

-----------------------------------------------------------------------------
(* As long as no two requests have overlapped, whatever requests have come *)
(* and failed: amounts paid, waived and outstanding agree, and no payment  *)
(* gives more than it is worth (create_payment, approve_adjustment,        *)
(* settle_exit_with_prepaid_credit).                                       *)
SerialBooks == ~overlapped => BooksAgree

(* As long as no two requests have overlapped: the books follow the        *)
(* verdicts (confirm_violation, cancel_violation, review_appeal).          *)
SerialVerdicts == ~overlapped => VerdictsBooked
=============================================================================
