SPECIFICATION ServicesSpec
CONSTANTS
  Workers = {w1, w2}
  Deliveries = {d1}
  Keys = {k1}
  MaxAttempts = 2
  MaxClaims = 5
  MaxSwitches = 2
  None = None
  Mailers = {w1, w2}
  m1 = m1
  Mails = {m1, m2}
  Answers = {"sent", "retryable_failure", "permanent_failure", "throws"}
  MailAttempts = 2
  MailFaults = 1
  MailOrders = 1
  MailClaims = 5
  Indexers = {w1, w2}
  MaxChanges = 2
  MaxRebuilds = 1
  MaxMishaps = 1
  hold = hold
  release = release
  adjust = adjust
  Operations = {hold, release, adjust}
  Amount <- MCAmount
  Forced = {adjust}
  Openings = {2}
  Reviewers = {r1, r2}
  MaxScans = 2
  MaxDrifts = 1
  Absent = Absent
  Logins = {l1, l2}
  Admins = {a1}
  MaxTokens = 3
  MaxOrders = 2
  Users = {u1, u2}
  Identities = {i1, i2}
  Flows = {f1, f2}
  MaxControls = 1
  Unset = Unset
  Demands = {1, 2, 3}
  MaxRecent = 2
  BackupClasses = {b1, b2, b3}
  MaxMarks = 2
CHECK_DEADLOCK FALSE
INVARIANTS ServicesTypeOK OneOpenAttempt AnswersWithinWindows StoppedIsQuiet MailRecordIsTrue StaleIsQueued BalanceIsExplained OneLiveToken ReuseEndsSession SignInRemains OneLiveDeletion
PROPERTIES MailSettles IndexSettles
