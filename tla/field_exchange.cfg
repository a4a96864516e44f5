SPECIFICATION FairSpec
CONSTANTS
  RanksA = {a, j}
  RanksB = {j, b}
  Fields = {"f", "g"}
  Programs <- Usual
  MaxSteps = 3
  NoCall = NoCall
INVARIANTS TypeOK StepDelivered OncePerStep OnlyRepeatsRefused IInv
PROPERTY StepsEnd
CHECK_DEADLOCK FALSE
