SPECIFICATION Spec
CONSTANTS
    Conns = {1, 2, 3}
    Spans = {s1, s2}
    Execs = {e1}
    MaxDrops = 2
    MaxBuffer = 2
SYMMETRY SpanSymmetry
CHECK_DEADLOCK FALSE
INVARIANT AbandonedIsAborted
INVARIANT TimelineRecovered
