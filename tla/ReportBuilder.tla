---------------------------- MODULE ReportBuilder ----------------------------
(***************************************************************************)
(* build_report (domain/services): the numbers a report run publishes      *)
(* about the transactions list_for_period returned, and the fingerprint    *)
(* that ties the run to them.  The state is the transactions table, which  *)
(* grows by inserts; a scan of it returns the rows of a period sorted by   *)
(* timestamp, in any order where timestamps are equal.                     *)
(***************************************************************************)
EXTENDS RuleEngine, FiniteSets, FiniteSetsExt

CONSTANTS
    MaxRows,        \* bounds the table
    Insertable,     \* the transactions uploads insert
    PeriodStart, PeriodEnd

ASSUME BuilderAssumption ==
    /\ MaxRows \in Nat /\ PeriodStart \in Int /\ PeriodEnd \in Int
    /\ Insertable \subseteq Transactions

VARIABLE table      \* a sequence of TransactionRecords, in insertion order

-----------------------------------------------------------------------------
(* A faulty period: the end is left open.                                  *)
InPeriodFrom(t) == PeriodStart <= t.timestamp

InPeriod(t) == PeriodStart <= t.timestamp /\ t.timestamp <= PeriodEnd

(* list_for_period: the scans PostgreSQL may return for ORDER BY timestamp.*)
ListForPeriod ==
    LET rows == {i \in DOMAIN table : InPeriod(table[i])}
        orders == Bijection(1 .. Cardinality(rows), rows)
    IN {s \in {[n \in 1 .. Cardinality(rows) |-> table[p[n]]] : p \in orders} :
           \A i, j \in DOMAIN s : i < j => s[i].timestamp <= s[j].timestamp}

-----------------------------------------------------------------------------
(* aggregate_line_items.  The rows of a scan go by their positions in it.  *)

(* Add up the weights of some rows in the order they were loaded.          *)
SumOver(w, rows) ==
    LET sum[n \in 0 .. Len(w)] ==
            IF n = 0 THEN 0 ELSE sum[n - 1] + (IF n \in rows THEN w[n] ELSE 0)
    IN sum[Len(w)]

Total(s, rows) == SumOver([i \in DOMAIN s |-> s[i].amount], rows)

(* groupby(["category", "currency"])                                       *)
Groups(s) == {<<Category(s[i]), s[i].currency>> : i \in DOMAIN s}

(* A faulty grouping: currencies are added up.                             *)
MembersOfCategory(s, g) == {i \in DOMAIN s : Category(s[i]) = g[1]}

(* A faulty grouping: only neighbouring rows are put together, and the last*)
(* run of them stands for the group.                                       *)
MembersOfLastRun(s, g) ==
    LET In(i) == <<Category(s[i]), s[i].currency>> = g
        last == Max({i \in DOMAIN s : In(i)})
    IN {i \in 1 .. last : \A j \in i .. last : In(j)}

(* The rows of a group.                                                    *)
Members(s, g) == {i \in DOMAIN s : <<Category(s[i]), s[i].currency>> = g}

(* The figures of one group.  The average is an exact decimal quotient,    *)
(* kept as a fraction; the cited ids are kept with their rows.             *)
LineItem(s, g) ==
    LET m == Members(s, g)
        amounts == {s[i].amount : i \in m}
    IN
    [total |-> Total(s, m), average |-> <<Total(s, m), Cardinality(m)>>,
     min |-> Min(amounts), max |-> Max(amounts), count |-> Cardinality(m),
     source_transaction_ids |-> [i \in m |-> s[i].external_id]]

LineItems(s) == [g \in Groups(s) |-> LineItem(s, g)]

(* The figures without the list of ids.                                    *)
Figures(s) == [g \in Groups(s) |->
    LET item == LineItem(s, g) IN
    <<item.total, item.average, item.min, item.max, item.count>>]

-----------------------------------------------------------------------------
(* compute_input_data_hash: what is hashed, as a hash identifies it.  Rows *)
(* with the same external id stay in the order they were loaded in         *)
(* (sorted() is stable).  The hint is not part of it.                      *)
Hashed(t) == <<t.external_id, t.timestamp, t.amount, t.currency, t.counterparty>>

(* Faulty: the rows are hashed as they were loaded.                        *)
HashAsLoaded(s) == [n \in DOMAIN s |-> Hashed(s[n])]

InputDataHash(s) ==
    LET Key(t) == t.external_id
        place(i) == Cardinality({j \in DOMAIN s : Key(s[j]) < Key(s[i])})
                    + Cardinality({j \in 1 .. i : Key(s[j]) = Key(s[i])})
    IN [n \in DOMAIN s |-> Hashed(s[CHOOSE i \in DOMAIN s : place(i) = n])]

-----------------------------------------------------------------------------
(* EngineResult.violations: how often each rule is cited for an external   *)
(* id.  Unlike everything else the result depends on the clock.            *)
Flags(s, now) ==
    [c \in ExternalIds \X ValidationRules |->
        Cardinality({i \in DOMAIN s : s[i].external_id = c[1] /\ c[2] \in Violations(s[i], now)})]

(* build_report: what a report of the transactions s says when it is made  *)
(* at time now.  No transactions give a report without line items.         *)
BuildReport(s, now) ==
    [input_transaction_count |-> Len(s), input_data_hash |-> InputDataHash(s),
     line_items |-> LineItems(s), violations |-> Flags(s, now)]

-----------------------------------------------------------------------------
Init == table = <<>>

(* A row is committed by an upload.                                        *)
Insert(t) ==
    /\ Len(table) < MaxRows
    /\ table' = Append(table, t)

Next == \E t \in Insertable : Insert(t)

Spec == Init /\ [][Next]_table

-----------------------------------------------------------------------------
(* Every transaction of the period is reported once: per currency, in      *)
(* whatever order the groups are gone through, their totals and counts add *)
(* up to those of the input, and each external id is cited exactly as often*)
(* as it was loaded.                                                       *)
ReconcilesWithInput ==
    \A s \in ListForPeriod : \A c \in Currencies :
        LET inCurrency == {i \in DOMAIN s : s[i].currency = c}
            groups == {g \in Groups(s) : g[2] = c}
            Citations(ids, x) == Cardinality({i \in DOMAIN ids : ids[i] = x})
            Sum(w) == SumOver(w, DOMAIN w)
        IN
        \A e \in Bijection(1 .. Cardinality(groups), groups) :
            /\ Sum([k \in DOMAIN e |-> LineItem(s, e[k]).total]) = Total(s, inCurrency)
            /\ Sum([k \in DOMAIN e |-> LineItem(s, e[k]).count]) = Cardinality(inCurrency)
            /\ \A x \in ExternalIds :
                 Sum([k \in DOMAIN e |-> Citations(LineItem(s, e[k]).source_transaction_ids, x)])
                   = Cardinality({i \in inCurrency : s[i].external_id = x})

(* Whatever order the database returned the rows in, the figures are the   *)
(* same.                                                                   *)
FiguresIgnoreLoadOrder ==
    \A s, u \in ListForPeriod : Figures(s) = Figures(u)

(* Large amounts stay visible: every group of generic wires and retail     *)
(* payments is below the threshold in its maximum, and a large transaction *)
(* without counterparty left a critical violation, whatever group it is in.*)
LargeAmountsStandOut ==
    \A s \in ListForPeriod :
        /\ \A g \in Groups(s) : g[1] \in {"wire_transfer", "retail_payment"} =>
             LineItem(s, g).max < Threshold
        /\ \A i \in DOMAIN s, now \in Times : LargeNeedsCounterparty(s[i], now)

(* Money flowing back is never silently netted against payments: a group   *)
(* other than the refunds has a negative minimum only if a transaction of  *)
(* it was flagged.                                                         *)
NegativesAreAccountedFor ==
    \A s \in ListForPeriod : \A g \in Groups(s) :
        g[1] # "refund" /\ LineItem(s, g).min < 0 =>
            \A now \in Times : \E i \in Members(s, g) :
                s[i].amount = LineItem(s, g).min /\ Violations(s[i], now) # {}

(* "Given the same transactions and the same rule set version, the engine  *)
(* is deterministic": once a period has ended, a report of it says the     *)
(* same whenever it is made, and cites the same rules however the rows     *)
(* were loaded.                                                            *)
EndedPeriodsAreReproducible ==
    \A s \in ListForPeriod, now, later \in {t \in Times : t > PeriodEnd} :
        LET first == BuildReport(s, now) IN
        /\ BuildReport(s, later) = first
        /\ \A u \in ListForPeriod : Flags(u, later) = first.violations

(* The fingerprint does not depend on the load order as long as every      *)
(* external id of the period is there once.                                *)
HashIgnoresOrderOfDistinctIds ==
    \A s, u \in ListForPeriod :
        (\A i, j \in DOMAIN s : s[i].external_id = s[j].external_id => i = j) =>
            InputDataHash(s) = InputDataHash(u)

(* "The hash depends only on which transactions were fed in and their      *)
(* values, never on the incidental order they were loaded in".             *)
HashIgnoresLoadOrder ==
    \A s, u \in ListForPeriod : InputDataHash(s) = InputDataHash(u)
=============================================================================
