CONSTANTS
  Programs <- TwoPrograms
  WithUser = FALSE
  GuestHears = FALSE
  Rogue = TRUE
  Codes2 <- OneSuccess
  Codes3 <- NoGoOn
  Codes5 <- OneError
  Window = 2
  MaxDepth = 6
SPECIFICATION IrSpec
INVARIANTS
  NotWedged
  CodeIsThere
PROPERTIES
  CallsReturn
  Reconnects
