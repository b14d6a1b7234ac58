SPECIFICATION Spec
CONSTANTS
 Peers = {p, q, r}
 Msgs = {m}
 Capacity = 3
 Gossip = 2
 Modes = {TRUE, FALSE}
 SeenTTL = 6
 MaxAborts = 1
 MaxEntries = 2
INVARIANTS TypeOK DeliveredOnce CachedInHistory AdvertisedIsKept UnvalidatedCounted
PROPERTIES EchoesOnlyMissed
SYMMETRY Symmetry
