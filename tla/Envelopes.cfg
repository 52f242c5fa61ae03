\* Every envelope that is built, sent, edited and asked.  Nothing follows a
\* refusal.
SPECIFICATION Spec
CONSTANTS
  Built <- MCBuilt
  Fields <- MCFields
  Routes <- MCRoutes
  Providers = {"p", "q"}
  MaxUsize = 2
INVARIANTS
  HostedEgressIsConsented
  ReceivedSummaryAccounts
CHECK_DEADLOCK FALSE
