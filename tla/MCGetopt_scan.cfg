SPECIFICATION FairSpec
CONSTANTS
  CommandLines <- MCCommandLines
  Orderings = {"PERMUTE", "REQUIRE_ORDER"}
  Numeral <- MCNumeral
  None = None
INVARIANTS
  TypeOK
  OrderKept
PROPERTIES
  ExchangeRotates
  WordsObeyed
