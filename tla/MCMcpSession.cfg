SPECIFICATION FairSpec
CONSTANTS
  Null = Null
  Blank = Blank  Garbage = Garbage  NotUtf8 = NotUtf8
  Malformed = Malformed
  Names <- EachName
  ModelNames <- EachModel
  Words <- EachWord
  ShortWords <- Short
  Contained <- ContainedIn
  SafeName <- Safe
  ModelName <- Modelled
  Boilerplate <- Everywhere
  RowCount <- Rows
  Lines <- EachLine
  MaxLines = 3
  PipeLines = 2
INVARIANTS MTypeOK AnswersFollowRequests PlansGrounded StoriesGoverned
PROPERTIES RegistrySpec RequestsAnswered
CHECK_DEADLOCK FALSE
