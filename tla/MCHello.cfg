\* The example and the admin server, from the registration of their resources to
\* the responses to requests.
CONSTANTS
  Letter <- MCLetter
  Delimiters <- MCDelimiters
  Equals = 61
  MaxLength = 10
  Variable = Variable
  NoResource = NoResource
  Asked <- MCAsked
SPECIFICATION HelloSpec
INVARIANTS HelloTypeOK TextsGivenInParts PairsReadBack EveryValueIsThere
PROPERTIES AnswersWhatIsAsked EveryRequestIsAnswered
CHECK_DEADLOCK FALSE
