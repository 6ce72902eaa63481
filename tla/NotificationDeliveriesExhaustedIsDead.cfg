SPECIFICATION MailSpec
CONSTANTS
  Mailers = {w1}
  Mails = {m1}
  Answers = {"throws"}
  MailAttempts = 2
  MailFaults = 0
  MailOrders = 0
  MailClaims = 4
CHECK_DEADLOCK FALSE
INVARIANTS ExhaustedIsDead
