SPECIFICATION MCSpec
CONSTANTS
  Workers = {t1, t2}
  Documents = {object, array}
  Objects = {object}
  Text = Text
  Empty = Empty
  Torn = Torn
  Absent = Absent
  Messages = {1, 2}
  Subscriptions = {1, 2}
  NoSubscription = NoSubscription
  NoMessage = NoMessage
  MaxTime = 1
  MaxSignals = 1
INVARIANT TypeOK
INVARIANT ConfigFileWhole
INVARIANT ConfigFileKept
INVARIANT ReloadExact
INVARIANT FlagsAgree
INVARIANT SubscriptionsClosed
INVARIANT MessagesAccounted
PROPERTY RequestsEnd
