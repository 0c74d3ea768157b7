CONSTANTS
  Programs <- AllPrograms
  WithUser = TRUE
  GuestHears = FALSE
  Rogue = FALSE
  Codes2 <- OneSuccess
  Codes3 <- OneGoOn
  Codes5 <- OneError
  Window = 2
  MaxDepth = 8
SPECIFICATION Spec
INVARIANTS
  TypeOK
  InReplyTruth
  ReplyIsOurs
  LoginComesFirst
  OneHandshake
  StatusTruth
PROPERTIES
  CauselessHangupClears
  OnLineSocket
