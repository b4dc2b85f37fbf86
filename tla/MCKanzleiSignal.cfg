SPECIFICATION Spec
CONSTANTS
    Conns = {k1}
    Grace = 3
    HeaderTimeout = 1
INVARIANT
    SignalsGiveTheGrace
