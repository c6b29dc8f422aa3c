-------------------------- MODULE MCReportBuilder --------------------------
(* Small instances of ReportBuilder.  The transactions cover every kind of  *)
(* hint on either side of the boundaries of the amount, both currencies,    *)
(* blank counterparties, equal timestamps, repeated ids and a row outside   *)
(* of the period.                                                           *)
EXTENDS ReportBuilder

HintTable == [wire |-> "wire", SWIFT |-> "swift", Refund |-> "refund", fee |-> "fee",
              Internal |-> "internal", FLAGGED |-> "flagged", other |-> "other"]

AllHints == DOMAIN HintTable
MCAmounts == {-1, 0, 7, 999999, 1000000}

Transaction(id, time, amount, currency, counterparty, hint) ==
    [external_id |-> id, timestamp |-> time, amount |-> amount, currency |-> currency,
     counterparty |-> counterparty, hint |-> hint]

Payments ==
    {Transaction(1, 1, 7, "EUR", "acme", NoHint), Transaction(2, 1, 7, "EUR", "acme", NoHint),
     Transaction(1, 1, 7, "USD", "acme", "other"), Transaction(2, 2, 0, "EUR", "blank", NoHint),
     Transaction(1, 4, 7, "EUR", "acme", NoHint)}
LargeOnes ==
    {Transaction(1, 2, 1000000, "EUR", "acme", NoHint),
     Transaction(2, 1, 1000000, "EUR", "blank", "SWIFT"),
     Transaction(1, 1, 1000000, "EUR", "blank", "Internal"),
     Transaction(2, 2, 1000000, "??", "acme", "FLAGGED"),
     Transaction(1, 2, 999999, "EUR", "acme", "wire")}
NegativeOnes ==
    {Transaction(1, 1, -1, "EUR", "acme", NoHint), Transaction(2, 2, -1, "EUR", "acme", "fee"),
     Transaction(1, 2, -1, "EUR", "blank", "wire"), Transaction(2, 1, 7, "EUR", "acme", "Refund")}

MCInsertable == Payments \cup LargeOnes \cup NegativeOnes
=============================================================================
