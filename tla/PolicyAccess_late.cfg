SPECIFICATION PolicySpec
CONSTANTS
  Asked = {q1, q2}
  UseQuestion = q2
  Requests = {t1}
  TTL = 6
  Timeout = 1
  BatchTimeout = 1
  UseTimeout = 1
  MaxItems = 2
  Horizon = 12
  MaxRequests = 3
  MaxChanges = 1
PROPERTIES PolicyAppliesInTime
CHECK_DEADLOCK FALSE
