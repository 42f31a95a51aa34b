SPECIFICATION ReportSpec
CONSTANTS
  actor1 = actor1
  fpA = fpA
  alert1 = alert1
  alert2 = alert2
  alert3 = alert3
  recon = recon
  collection = collection
  control = control
  credentials = credentials
  t1 = t1
  t2 = t2
  t3 = t3
  t4 = t4
  s1 = s1
  s2 = s2
  s3 = s3
  asset1 = asset1
  decoy1 = decoy1
  isr = isr
  NoActor = NoActor
  Blank = Blank
  EmptyFp = EmptyFp
  NoId = NoId
  NoCase = NoCase
  NoTactic = NoTactic
  None = None
  Actors = {actor1}
  Fingerprints = {fpA}
  AlertIds = {alert1, alert2, alert3}
  Alerts <- MCAlerts
  StoreCap = 2
  MemberCap = 3
  MaxReopen = 1
  Matrix <- MCMatrix
  Defenses <- MCDefenses
  Cells <- MCCells
  Plans <- MCPlans
  Chains <- MCChains
  MinMatch = 2
  TopK = 3
  Alphabet <- MCAlphabet
  Lures <- MCLures
  Threats <- MCThreats
  CausalRules <- MCCausalRules
  Degradations <- MCDegradations
  Says <- MCSays
  Outcomes <- MCOutcomes
  Runs <- MCRuns
  ChainCap = 2
  AdvancedOrder = 11
  DecoyAssets = {decoy1}
  MainEffort = {}
  Surface <- MCSurface
  Delegate <- MCDelegate
  Unreadable = TRUE
  Catalog <- MCCatalog
  Templates <- MCTemplates
  ForceTactics = {control}
  CpconThresholds <- MCThresholds
  Cpcon = 3
  TerrainDelta = 2
  RiskDelta = 2
  MaxQueries = 3
  ForwardSpan = 1
  BackwardSpan = 1
  ForceSpan = 2
  MaxLookback = 3
  HuntEnabled = TRUE
  Producer = "soc"
  Public = {t1, t2}
  Patterned = {"ip"}
  PartnerTiers <- MCTiers
  NoAdversary = NoActor
  MaxTime = 1
  MaxConfirms = 2
INVARIANTS
  CampaignIsGrounded
  AnswersCoverReach
  AuthorityIsEarned
  FlaggedIsNotBenign
  EntryIsTraced
