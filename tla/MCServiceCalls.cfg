SPECIFICATION Spec
CONSTANTS
  Operations <- Everything
  MaxPayloads = 2
  MaxBytes = 3
  Sizes = {1, 2, 4}
  MaxLength = 4
  MaxPages = 3
  MaxOthers = 3
INVARIANTS ServerIsSpared AnswersAreWhole RoutesToTracked
PROPERTIES SentWhole EditsKeepTheRest ImplementsOneCall
