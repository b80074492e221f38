--------------------------- MODULE MCDeviceStream ---------------------------
(* Instances of DeviceStream for TLC.                                      *)
EXTENDS DeviceStream

CONSTANTS d1, u1, u2, w1, w2

\* One device; a client of its owner and a client of somebody else.
MCOwner == [d \in {d1} |-> u1]
MCUserOf == [w \in {w1, w2} |-> IF w = w1 THEN u1 ELSE u2]

\* The stranger connects before the first reading and stays.
MCNext ==
    /\ Next
    /\ published' # published => stream[w2] = "open"
    /\ w2 \notin gone'

MCSpec == Init /\ [][MCNext]_vars /\ Fairness
=============================================================================
