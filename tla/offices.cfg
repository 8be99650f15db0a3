SPECIFICATION OfficesSpec
CONSTANTS
  Handlers = {h1, h2}
  MaxRequests = 5
  MaxFaults = 1
  Employees = {o}
  Owner = o
  Loans = {l1}
  Runs = {a, b}
  Periods = {1}
  Principals = {1, 2}
  Staff = {e, o}
  Boss = o
  Leaves = {a, b}
  LastDay = 2
  Allowances = {1, 2}
  Default = 1
  Newsletters = {c1}
  People = {a, b}
  Ticks = {t1}
  Resolutions = {r1}
  Directors = {a, b}
  Polls <- Figures
SYMMETRY Interchangeable
CHECK_DEADLOCK FALSE
INVARIANTS
  PayslipsDeducted LoanPaidDown OnePayslipEach
  UsedIsApproved NoDayTwice WithinAllowance
  MailedOnce DeliveredGotIt
  OutcomeFollowsVotes
PROPERTIES ProcessedStands AudienceStands VotesAreOwn ResponsesStand
