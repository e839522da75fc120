------------------------- MODULE MCLedgerExecution --------------------------
(***************************************************************************)
(* A small instance of LedgerExecution: two treasuries and one identifier  *)
(* without a row, two references that clash in every way the code          *)
(* distinguishes (replay, other type, other account, other amount, other   *)
(* currency, a charge), transfers in opposite directions, and balances so  *)
(* small that payouts can fail.                                            *)
(***************************************************************************)
EXTENDS LedgerExecution

CONSTANTS k1, k2, r1, r2

MCChamaId   == 1..3
MCChama     == 1..2
MCReference == {r1, r2}
MCAmount    == 1..2
MCCurrency  == {"KES", "USD"}
MCOpening   == [c \in MCChama |-> IF c = 1 THEN 2 ELSE 0]

MCWorkload ==
    {Deposit(r1, 2, 1, "USD"),
     Deposit(r2, 3, 1, "KES"),
     Payout(r1, 1, 2, "KES"),
     Transfer(r1, 2, 1, 1, "KES"),
     Transfer(r2, 1, 2, 2, "KES"),
     PenaltyCharge(r2, 1, 1, "KES")}
=============================================================================
