SPECIFICATION Spec
CONSTANTS
 Peers = {p1, p2, p3, p4, p5, p6}
 D = 4
 Dscore = 2
 Dout = 2
 Scores = {0, 1, 2}
INVARIANTS OrderDecides SurvivorsExact OutboundQuota
SYMMETRY Symmetry
CHECK_DEADLOCK FALSE
