SPECIFICATION Spec
CONSTANTS
  Operations = {"update_schedule"}
  MaxPayloads = 2
  MaxBytes = 3
  Sizes = {1}
  MaxLength = 1
  MaxPages = 1
  MaxOthers = 2
PROPERTY UntouchedFieldsSurvive
