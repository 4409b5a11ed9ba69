SPECIFICATION Spec
CONSTANTS
  p = p
  a = a
  s1 = s1
  s2 = s2
  Conns = {p, a}
  Publishers = {p}
  Members <- MCMembers
  Owner <- MCOwner
  MaxPub = 4
  Bytes <- MCBytes
  Oversize = {3}
  ByteCap = 4
  SliceBudget = 2
  Quotas <- MCQuotas
CHECK_DEADLOCK FALSE
INVARIANTS InboxAccounted DeliveredInOrder FlushedBeforeDisconnect
PROPERTIES EverythingDelivered
