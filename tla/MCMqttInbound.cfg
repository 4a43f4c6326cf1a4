\* Two clients, three messages, each sent twice at most; one handler may hang.
SPECIFICATION FairMqttSpec
CONSTANTS
  Messages = {1, 2, 3}
  MaxTries = 2
  MaxPerClient = 2
  Tasks <- AllTries
  Keys = {"a", "b"}
  KeyOf <- ClientOfTry
  MaxPendingTasks = 3
  MaxKeys = 2
  Stuck <- FirstTry
  Null = Null
INVARIANTS BeginsInOrder CountsAreReal DrainIsComplete PubackMeansHandled
PROPERTIES EveryPublishAnswered StopReturns
CHECK_DEADLOCK FALSE
