SPECIFICATION Spec
CONSTANTS
  MaxBytes = 1
  MaxRestarts = 1
INVARIANT NoDataLoss
