INIT EvidenceInit
NEXT EvidenceNext
INVARIANT ConfirmedIsNotFaulted
