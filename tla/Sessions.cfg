\* Two local connections, a Ctrl-C, and an agent that stops, dies and returns.
CONSTANT Conn = {c1, c2}
SPECIFICATION Spec
INVARIANT
    ReturnedMeansReleased
PROPERTIES
    ConnectionsAreAnswered
    StopsEnd
CHECK_DEADLOCK FALSE
