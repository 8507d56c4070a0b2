CONSTANTS
  Key = {1,2,3,4}
  Value = {1}
  Hashes = {3,6,7,8}
  InitCap = 4
  EmptyKey = 0
  LastYear = 2036
  ClockTimes <- MCTimes
  Letter = {"a","b"}
  Sep = "_"
  Star = "*"
  RuleLines <- MCRules
  FirstDocs <- MCFirst
  NextDocs <- MCNext
  MaxDocs = 2
  MaxMatched = 3
  Cik = {7}
  Form = {"8-K","424B5","S-3", "10-K"}
  Item = {301,302}
  NoItem = 0
  Window <- MCWindow
  Index <- MCIndex
  FirstDay = 20500
  LastDay = 20502
  MaxFilings = 2
  NasdaqRows <- MCNasdaq
  OtherRows <- MCOther
  SecRows <- MCSec
  FundRows <- MCFund
  FinraRows <- MCFinra
  Suffix = {"INC", "CORP", "THE"}
  Derivative = {"WARRANT"}
  ShortName <- MCShort
  Invalid = 0
  Ambiguous = 99
  NewsFiles <- MCNews
  BadLine = 99
  Delay <- MCDelay
  EvalInterval = 2
  ScanInterval = 3
  Life = 3
  LastTime = 9
  MaxMessages = 3
  Never = 1000
SPECIFICATION Spec
INVARIANT FindIsMap
INVARIANT CalendarInv
INVARIANT ScorerInv
INVARIANT FilingsInv
INVARIANT SymbolsInv
INVARIANT BacktestInv
CHECK_DEADLOCK FALSE
