SPECIFICATION Spec
CONSTANTS
  Workers = {t1, t2}
  Documents = {object}
  Objects = {object}
  Text = Text
  Empty = Empty
  Torn = Torn
  Absent = Absent
  Messages = {}
  Subscriptions = {}
  NoSubscription = NoSubscription
  NoMessage = NoMessage
  MaxTime = 0
  MaxSignals = 0
INVARIANT ReplaceAtomic
