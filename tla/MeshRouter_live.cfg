SPECIFICATION FairSpec
CONSTANTS
 Peers = {p1,p2}
 Topics = {t1}
 Direct = {}
 Dialable = {}
 V10 = {}
 D = 1
 Dlo = 1
 Dhi = 1
 Dscore = 1
 Dout = 0
 OppGraftPeers = 1
 OppGraftTicks = 1
 OppGraftThreshold = 0
 PruneBackoff = 1
 UnsubBackoff = 1
 MinQuiet = 1
 MaxPruneTopics = 2
 PeerBackoffs = {0}
 BackoffSlack = 0
 PruneBackoffTicks = 1
 DirectConnectTicks = 1
 TickCycle = 1
 Scores <- SignedScores
 PublishThreshold <- BelowZero
 FloodPublish = TRUE
 FanoutTTL = 1
 LateRpcs = {}
 PxMayFail = TRUE
PROPERTIES NegativeScoreLeaves UnderfullMeshRefills BackoffIsCleared
