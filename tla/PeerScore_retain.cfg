SPECIFICATION MCSpec
CONSTANTS
 Senders = {s, t, u}
 Asynchronous = {TRUE, FALSE}
 MaxRepeats = 2
 Peers = {p, q}
 IPs = {a}
 RetainScore = 1
 IPThreshold = 1
 Threshold = 1
 Activation = 0
 FirstCap = 1
 MeshCap = 1
 MaxPenalty = 2
 MaxMeshTime = 1
 TimeWeight = 1
 FirstWeight = 1
 MeshWeight = 1
 PenaltyWeight = 2
 IPWeight = 1
INVARIANTS TypeOK ConnectedAreCounted AddressesCountTheRemembered MeshAsScored RetainedAsLong VerdictReachesAll
PROPERTIES DeficitCharged
SYMMETRY Symmetry
