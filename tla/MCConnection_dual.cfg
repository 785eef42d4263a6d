SPECIFICATION RowSpec
CONSTANTS
  t1 = t1 t2 = t2 m1 = m1
  Tasks = {t1, t2}
  Cycles = {m1}
  Operations = {"connect", "qr", "status", "artifact", "disconnect", "edit", "switch", "delete", "provision"}
  MaxRequests = 1
  MaxMoves = 1
  MaxWebhooks = 1
INVARIANT DualWrite
