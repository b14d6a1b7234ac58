SPECIFICATION SwarmSpec
CONSTANTS
 Peers = {p1,p2,p3,p4}
 Topics = {t1}
 Direct = {}
 Dialable = {}
 V10 = {}
 D = 2
 Dlo = 1
 Dhi = 2
 Dscore = 1
 Dout = 1
 OppGraftPeers = 1
 OppGraftTicks = 2
 OppGraftThreshold = 1
 PruneBackoff = 1
 UnsubBackoff = 1
 MinQuiet = 1
 MaxPruneTopics = 1
 PeerBackoffs = {0}
 BackoffSlack = 0
 PruneBackoffTicks = 2
 DirectConnectTicks = 2
 TickCycle = 2
 Scores <- GoodScores
 PublishThreshold <- BelowZero
 FloodPublish = TRUE
 FanoutTTL = 1
 LateRpcs = {}
 PxMayFail = FALSE
INVARIANTS InboundBounded
PROPERTIES HeartbeatRestoresDegree
SYMMETRY Symmetry
