SPECIFICATION FairSpec
CONSTANTS
    s1 = s1
    s2 = s2
    s3 = s3
    l1 = l1
    l2 = l2
    Sharers <- MCSharers
    Loners <- MCLoners
    Programs <- MCPrograms
INVARIANTS
    Exclusion
PROPERTIES
    EntriesGoOn
