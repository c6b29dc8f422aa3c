-------------------------- MODULE RuleEngine_proofs --------------------------
(* What rule set v1 guarantees of every transaction there can be.           *)
EXTENDS RuleEngine, TLAPS

LEMMA RulesInOrder ==
    /\ DOMAIN ClassificationRules = 1 .. 7
    /\ ClassificationRules[1] = "suspicious"
    /\ ClassificationRules[2] = "internal_transfer"
    /\ ClassificationRules[3] = "fee"
    /\ ClassificationRules[4] = "refund"
    /\ ClassificationRules[5] = "high_value"
    /\ ClassificationRules[6] = "wire_transfer"
    /\ ClassificationRules[7] = "retail_payment"
BY DEF ClassificationRules

(* The first match exists because the last rule matches everything.         *)
LEMMA FirstMatch ==
    ASSUME NEW t
    PROVE  \E i \in Matching(t) : Category(t) = ClassificationRules[i]
                                  /\ \A j \in Matching(t) : i <= j
<1>1. Matching(t) \subseteq 1 .. 7 /\ 7 \in Matching(t)
  BY RulesInOrder DEF Matching, Matches
<1>2. \E i \in Matching(t) : \A j \in Matching(t) : i <= j
  <2> DEFINE M == Matching(t)
  <2>1. M \subseteq 1 .. 7 /\ 7 \in M
    BY <1>1
  <2> HIDE DEF M
  <2>2. \E i \in M : \A j \in M : i <= j
    <3>1. CASE 1 \in M
      BY <2>1, <3>1
    <3>2. CASE 1 \notin M /\ 2 \in M
      BY <2>1, <3>2
    <3>3. CASE 1 \notin M /\ 2 \notin M /\ 3 \in M
      BY <2>1, <3>3
    <3>4. CASE 1 \notin M /\ 2 \notin M /\ 3 \notin M /\ 4 \in M
      BY <2>1, <3>4
    <3>5. CASE 1 \notin M /\ 2 \notin M /\ 3 \notin M /\ 4 \notin M /\ 5 \in M
      BY <2>1, <3>5
    <3>6. CASE 1 \notin M /\ 2 \notin M /\ 3 \notin M /\ 4 \notin M /\ 5 \notin M
      BY <2>1, <3>6
    <3> QED BY <3>1, <3>2, <3>3, <3>4, <3>5, <3>6
  <2> QED BY <2>2 DEF M
<1>3. PICK i \in Matching(t) : i = CHOOSE k \in Matching(t) : \A j \in Matching(t) : k <= j
  BY <1>2
<1>4. \A j \in Matching(t) : i <= j
  BY <1>2, <1>3
<1> QED BY <1>3, <1>4 DEF Category

(* The engine never raises: every transaction gets one of the categories    *)
(* ("every rule set must end in an unconditional fallback rule").           *)
THEOREM EveryTransactionIsClassified ==
    \A t \in Transactions : IsClassified(t)
<1> SUFFICES ASSUME NEW t \in Transactions PROVE IsClassified(t)
  OBVIOUS
<1>1. PICK i \in Matching(t) : Category(t) = ClassificationRules[i]
  BY FirstMatch
<1>2. i \in 1 .. 7
  BY RulesInOrder DEF Matching
<1>3. Category(t) \in Categories
  BY <1>1, <1>2, RulesInOrder DEF Categories
<1> QED BY <1>1, <1>3 DEF IsClassified, Classifies

(* A large transaction never ends up among the generic wires or retail      *)
(* payments: the threshold rule comes before both (HighValueRule).          *)
THEOREM LargeTransactionsAreNotGeneric ==
    \A t \in Transactions : LargeIsNotGeneric(t)
<1> SUFFICES ASSUME NEW t \in Transactions, IsLarge(t)
             PROVE  Category(t) \notin {"wire_transfer", "retail_payment"}
  BY DEF LargeIsNotGeneric
<1>1. PICK i \in Matching(t) : Category(t) = ClassificationRules[i]
                               /\ \A j \in Matching(t) : i <= j
  BY FirstMatch
<1>2. 5 \in Matching(t)
  BY RulesInOrder DEF Matching, Matches
<1>3. i \in 1 .. 5
  BY <1>1, <1>2, RulesInOrder DEF Matching
<1> QED BY <1>1, <1>3, RulesInOrder

(* A large transaction without counterparty raises a critical violation     *)
(* under whatever category a hint has put it (HighValueCounterpartyRule     *)
(* looks at the amount, not at the category).                               *)
THEOREM LargeTransactionsNameTheirCounterparty ==
    \A t \in Transactions, now \in Int : LargeNeedsCounterparty(t, now)
<1> SUFFICES ASSUME NEW t \in Transactions, NEW now \in Int, IsLarge(t), t.counterparty \in Blank
             PROVE  \E rule \in Violations(t, now) : Severity[rule] = "critical"
  BY DEF LargeNeedsCounterparty
<1>1. "high_value_requires_counterparty" \in Violations(t, now)
  BY DEF Violations, ValidationRules, Raises
<1>2. Severity["high_value_requires_counterparty"] = "critical"
  BY DEF Severity
<1> QED BY <1>1, <1>2

(* A negative amount is a refund, or a hint took precedence and the         *)
(* positive-amount rule flags it (NonRefundPositiveAmountRule).             *)
THEOREM NegativeAmountsAreAccountedFor ==
    \A t \in Transactions, now \in Int : NegativeIsAccountedFor(t, now)
<1> SUFFICES ASSUME NEW t \in Transactions, NEW now \in Int, t.amount < 0, Category(t) # "refund"
             PROVE  Violations(t, now) # {}
  BY DEF NegativeIsAccountedFor
<1>1. t.amount \in Int
  BY EngineAssumption DEF Transactions
<1>2. t.amount <= 0
  BY <1>1
<1>3. "non_refund_positive_amount" \in Violations(t, now)
  BY <1>2 DEF Violations, ValidationRules, Raises
<1> QED BY <1>3
=============================================================================
