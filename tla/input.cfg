\* The application reports the left and the right button.
SPECIFICATION Spec
CONSTANTS
  Buttons <- TwoButtons
  Keys <- KeyCodes
  Xs <- Columns
  Ys <- Rows
  Steps <- WheelSteps
INVARIANTS
  MouseAgrees
  WheelAgrees
  KeysAgree
