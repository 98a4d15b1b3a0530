\* Requests end and the router follows the supervisor.
CONSTANTS
    Srv = {s0}
    ModelOf <- OneModel
    Req = {q1}
    Strategy = "least"
    Polls = TRUE
    MaxServers = 2
    QueueCap = 0
    MaxTries = 1
    MaxNotes = 2
    MaxWaiting = 0
    Counts <- SomeCounts
    Main = Main
    Note = Note
    None = None
SPECIFICATION FairSpec
INVARIANTS DriftBounded
PROPERTIES ForwardEnds RouterConverges
