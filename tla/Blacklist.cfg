\* Two addresses counted while an update runs, with failures, and edits of the set.
CONSTANTS
    ip1 = ip1
    ip2 = ip2
    IPs = {ip1, ip2}
    BlacklistThreshold = 2
    Failures = TRUE
    MaxRequests <- TwoAndOne
    MaxEdits = 1
    MaxRepeats = 1
SPECIFICATION FairSpec
INVARIANTS TypeOK ReportMatches ReportedOnce
PROPERTIES ReloadTakesEffect
