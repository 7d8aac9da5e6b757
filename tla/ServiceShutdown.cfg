SPECIFICATION ShutdownSpec
CONSTANTS
  Workers = {t1}
  Documents = {object}
  Objects = {object}
  Text = Text
  Empty = Empty
  Torn = Torn
  Absent = Absent
  Messages = {}
  Subscriptions = {s1}
  NoSubscription = NoSubscription
  NoMessage = NoMessage
  MaxTime = 1
  MaxSignals = 2
PROPERTY GracefulExit
