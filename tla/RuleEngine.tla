----------------------------- MODULE RuleEngine -----------------------------
(***************************************************************************)
(* Rule set v1 and the engine that runs it (domain/rules): which category  *)
(* a transaction is reported under and which violations it raises.         *)
(***************************************************************************)
EXTENDS Integers, Sequences

CONSTANTS
    ExternalIds,    \* identifiers of the source systems, not unique
    Times,          \* timestamps, as integers
    Amounts,        \* in cents
    Currencies,
    IsoCurrencies,  \* those CurrencyFormatRule's pattern accepts
    Counterparties,
    Blank,          \* counterparties that are empty once stripped
    RawHints,       \* raw_category_hint as uploaded
    Lowered,        \* [RawHints -> Hints], strip and lower
    Threshold,      \* HIGH_VALUE_THRESHOLD
    NoHint          \* raw_category_hint is None

Transactions ==
    [external_id : ExternalIds, timestamp : Times, amount : Amounts,
     currency : Currencies, counterparty : Counterparties,
     hint : RawHints \cup {NoHint}]

Categories == {"suspicious", "internal_transfer", "fee", "refund", "high_value",
               "wire_transfer", "retail_payment"}

ASSUME EngineAssumption ==
    /\ ExternalIds \subseteq Int     \* ordered like the strings they stand for
    /\ Times \subseteq Int /\ Amounts \subseteq Int /\ Threshold \in Nat \ {0}
    /\ IsoCurrencies \subseteq Currencies /\ Blank \subseteq Counterparties
    /\ NoHint \notin RawHints /\ DOMAIN Lowered = RawHints
    /\ NoHint \notin {"internal", "internal_transfer", "fee", "service_fee", "refund",
          "chargeback", "wire", "wire_transfer", "swift", "suspicious", "flagged"}

-----------------------------------------------------------------------------
(* Classification.                                                         *)

NormalizedHint(t) == IF t.hint = NoHint THEN NoHint ELSE Lowered[t.hint]

IsLarge(t) == t.amount >= Threshold

(* Does a rule's classify return its category (or None)?                   *)
Matches(rule, t) ==
    \/ rule = "suspicious" /\ NormalizedHint(t) \in {"suspicious", "flagged"}
    \/ rule = "internal_transfer" /\ NormalizedHint(t) \in {"internal", "internal_transfer"}
    \/ rule = "fee" /\ NormalizedHint(t) \in {"fee", "service_fee"}
    \/ rule = "refund" /\ (NormalizedHint(t) \in {"refund", "chargeback"} \/ t.amount < 0)
    \/ rule = "high_value" /\ IsLarge(t)
    \/ rule = "wire_transfer" /\ NormalizedHint(t) \in {"wire", "wire_transfer", "swift"}
    \/ rule = "retail_payment"

(* A faulty rule set: the generic wire rule before the threshold rule.     *)
WireBeforeHighValue ==
    <<"suspicious", "internal_transfer", "fee", "refund", "wire_transfer", "high_value",
      "retail_payment">>

(* RULE_SET_V1.classification_rules; a rule goes by the category it gives. *)
ClassificationRules ==
    <<"suspicious", "internal_transfer", "fee", "refund", "high_value", "wire_transfer",
      "retail_payment">>

Matching(t) == {i \in DOMAIN ClassificationRules : Matches(ClassificationRules[i], t)}

(* The first match wins.  With no match at all _classify raises.           *)
Classifies(t) == Matching(t) # {}
Category(t) == ClassificationRules[CHOOSE i \in Matching(t) : \A j \in Matching(t) : i <= j]

-----------------------------------------------------------------------------
(* Validation, against the assigned category.                              *)

ValidationRules == {"currency_format", "non_refund_positive_amount",
                    "high_value_requires_counterparty", "no_future_dated_transaction"}

Severity == [currency_format |-> "critical", non_refund_positive_amount |-> "warning",
             high_value_requires_counterparty |-> "critical",
             no_future_dated_transaction |-> "warning"]

(* A faulty rule: only a zero amount is suspect.                           *)
RaisesForZeroOnly(rule, t, now) ==
    \/ rule = "currency_format" /\ t.currency \notin IsoCurrencies
    \/ rule = "non_refund_positive_amount" /\ Category(t) # "refund" /\ t.amount = 0
    \/ rule = "high_value_requires_counterparty" /\ IsLarge(t) /\ t.counterparty \in Blank
    \/ rule = "no_future_dated_transaction" /\ t.timestamp > now

(* Does a rule raise a violation for t when run at time now?               *)
Raises(rule, t, now) ==
    \/ rule = "currency_format" /\ t.currency \notin IsoCurrencies
    \/ rule = "non_refund_positive_amount" /\ Category(t) # "refund" /\ t.amount <= 0
    \/ rule = "high_value_requires_counterparty" /\ IsLarge(t) /\ t.counterparty \in Blank
    \/ rule = "no_future_dated_transaction" /\ t.timestamp > now

Violations(t, now) == {rule \in ValidationRules : Raises(rule, t, now)}

-----------------------------------------------------------------------------
(* Properties of one transaction.                                          *)

(* "Every transaction ends up classified."                                 *)
IsClassified(t) == Classifies(t) /\ Category(t) \in Categories

(* A large transaction is not hidden among the generic wires and retail    *)
(* payments, whatever its hint (HighValueRule).                            *)
LargeIsNotGeneric(t) ==
    IsLarge(t) => Category(t) \notin {"wire_transfer", "retail_payment"}

(* Large movements identify their counterparty or raise a critical         *)
(* violation, also those a hint has moved out of HIGH_VALUE.               *)
LargeNeedsCounterparty(t, now) ==
    IsLarge(t) /\ t.counterparty \in Blank =>
        \E rule \in Violations(t, now) : Severity[rule] = "critical"

(* Money flowing back is either reported as a refund or flagged.           *)
NegativeIsAccountedFor(t, now) ==
    t.amount < 0 => Category(t) = "refund" \/ Violations(t, now) # {}
=============================================================================
