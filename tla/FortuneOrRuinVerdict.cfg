\* One test case, at most three losses or three wins from the end, solved
\* by findOutcome, the one solution the script calls (line 86).
CONSTANTS
  MaxLosses = 3
  MaxWins = 3
  Methods = {"findOutcome"}
SPECIFICATION Spec
INVARIANT VerdictIsOdds
CHECK_DEADLOCK FALSE
