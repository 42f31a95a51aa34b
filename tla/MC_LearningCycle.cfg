SPECIFICATION Spec
CONSTANTS
  Feeds <- MCFeeds
  Techniques = {1, 2}
  Shapes = {"list", "mapping"}
  AddedCap = 1
  MaxDrafts = 2
  Answers <- MCAnswers
  Stops = 2
INVARIANTS
  DraftedOnce
PROPERTIES
  NewIsCatalogued
  MissingComesBack
CHECK_DEADLOCK FALSE
