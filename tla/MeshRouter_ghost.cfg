SPECIFICATION Spec
CONSTANTS
 Peers = {p}
 Topics = {t1}
 Direct = {}
 Dialable = {}
 V10 = {p}
 D = 1
 Dlo = 1
 Dhi = 1
 Dscore = 1
 Dout = 0
 OppGraftPeers = 1
 OppGraftTicks = 2
 OppGraftThreshold = 0
 PruneBackoff = 2
 UnsubBackoff = 1
 MinQuiet = 1
 MaxPruneTopics = 1
 PeerBackoffs = {0, 1}
 BackoffSlack = 0
 PruneBackoffTicks = 2
 DirectConnectTicks = 2
 TickCycle = 2
 Scores <- SignedScores
 PublishThreshold <- BelowZero
 FloodPublish = TRUE
 FanoutTTL = 0
 LateRpcs = {p}
 PxMayFail = FALSE
INVARIANTS MeshIsConnected
