SPECIFICATION MergeSpec
INVARIANT OrderIrrelevant
INVARIANT StopNeverAbsorbed
INVARIANT RefusalExplained
