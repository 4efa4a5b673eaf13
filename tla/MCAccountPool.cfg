SPECIFICATION Spec
CONSTANTS
  Profile = {p1, p2}
  Account = {a1, a2}
  Tx = {t1, t2}
  NoTx = NoTx
  NoProfile = NoProfile
INVARIANTS PrimaryUnique DecisionStillValid LinksOfLiveProfiles OrphanedOnlyByDelete
PROPERTIES NeverStolen RefinesRegistry ImportsEnd
