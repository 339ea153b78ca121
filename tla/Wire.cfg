\* Frames built by the codec, frames built otherwise, and texts that are none.
SPECIFICATION Spec
CONSTANTS
  Built <- MCBuilt
  Loose <- MCLoose
  Unfit <- MCUnfit
  Queued <- MCQueued
  Accounts <- MCAccounts
  Registered <- MCRegistered
  MaxHeard = 3
  Later <- MCLater
  MaxSent = 2
CHECK_DEADLOCK FALSE
INVARIANTS
  TypeOK
  ReadAsBuilt
  ServedOnlyIfAdmitted
  AnsweredInOrder
  EndsThereafter
