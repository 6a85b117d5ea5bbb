\* Two claimants, two firings, two faults: deaths of the module, refused writes.
\* A claim lapses and is granted again within a run.
SPECIFICATION ClaimSpec
CONSTANTS
  Claimants = {c1, c2}
  MaxFirings = 2
  Lease = 1
  Budget = 3
  MaxFaults = 2
  None = None
INVARIANTS HistorianClaimTypeOK OfferedIsWanted ClaimIsAdmissible
PROPERTIES LiveClaimsLast StoredAnswersAreKept LaneProperty SessionRecovers
CHECK_DEADLOCK FALSE
