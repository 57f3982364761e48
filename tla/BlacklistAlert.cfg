\* Alerts against the README.
CONSTANTS
    ip1 = ip1
    ip2 = ip2
    IPs = {ip1}
    BlacklistThreshold = 2
    Failures = FALSE
    MaxRequests <- Three
    MaxEdits = 0
    MaxRepeats = 0
SPECIFICATION FairSpec
PROPERTIES BusyIsAlerted
