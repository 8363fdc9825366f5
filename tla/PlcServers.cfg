SPECIFICATION Spec
CONSTANTS
  reader = reader
  writer = writer
  Clients = {reader, writer}
  Kind <- Kinds
  Fds = {3, 4}
  Handlers = {1, 2}
  Null = Null
  MaxRequests = 1
  MaxCommands = 1
INVARIANT
  OutputsEndDisabled
PROPERTIES
  AnswersGoHome
  RequestsAreAnswered
  CommandsEnd
CHECK_DEADLOCK FALSE
