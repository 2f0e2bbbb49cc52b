CONSTANTS
  Connection = {c1, c2}
  MaxLines = 2
  AcceptErrors = TRUE
SPECIFICATION ServerSpec
INVARIANT NoWorkerOutlivesMain
INVARIANT ReceivedIsHandled
PROPERTY StopsOnSignal
CHECK_DEADLOCK FALSE
