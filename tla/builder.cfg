SPECIFICATION Spec
CONSTANTS
  NoHint = NoHint
  ExternalIds = {1, 2}
  Times = {1, 2, 3, 4}
  Amounts <- MCAmounts
  Currencies = {"EUR", "USD", "??"}
  IsoCurrencies = {"EUR", "USD"}
  Counterparties = {"acme", "blank"}
  Blank = {"blank"}
  RawHints <- AllHints
  Lowered <- HintTable
  Threshold = 1000000
  MaxRows = 3
  Insertable <- MCInsertable
  PeriodStart = 1
  PeriodEnd = 2
INVARIANTS ReconcilesWithInput FiguresIgnoreLoadOrder HashIgnoresOrderOfDistinctIds
INVARIANTS LargeAmountsStandOut NegativesAreAccountedFor EndedPeriodsAreReproducible
CHECK_DEADLOCK FALSE
