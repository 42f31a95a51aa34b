SPECIFICATION FairSpec
CHECK_DEADLOCK FALSE
CONSTANTS
  None = None
  first = first
  second = second
  Alerts = {first, second}
  Scenarios <- MCScenarios
  Assets <- MCAssets
  Tiers <- MCTiers
  Phases <- MCPhases
  TierModifier <- MCTierModifier
  PhaseModifier <- MCPhaseModifier
  PostureModifier <- MCPostureModifier
  LockAt = 1
  EscalateBy <- MCEscalateBy
  DwellAt = 30
  LateralFloor = 2
  EaseBy = 1
  TierWeight <- MCTierWeight
  KeyPhases <- MCKeyPhases
  Dependents <- MCDependents
  Playbooks <- MCPlaybooks
  Workloads <- MCWorkloads
  Builds <- MCBuilds
  RunbookRequired = {"jam"}
  Continuity <- MCContinuity
  MinAlertsPriority = 2
  PriorityCap = 1
  HitlThreshold = 6
  MaxRestarts = 1
INVARIANTS
  NoUnapprovedResponse
  EscalateOnly
  NoDowngradeUnderLock
PROPERTY
  EveryRunSettles
