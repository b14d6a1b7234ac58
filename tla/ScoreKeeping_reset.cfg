SPECIFICATION Spec
CONSTANTS
 Peers = {p}
 IPs = {a}
 RetainScore = 1
 IPThreshold = 1
 Threshold = 1
 Activation = 0
 FirstCap = 1
 MeshCap = 1
 MaxPenalty = 1
 MaxMeshTime = 1
 TimeWeight = 1
 FirstWeight = 1
 MeshWeight = 1
 PenaltyWeight = 2
 IPWeight = 1
PROPERTIES ReconnectKeepsScore
