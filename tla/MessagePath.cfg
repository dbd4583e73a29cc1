\* One session of two transactions, or one old file of any shape.
CONSTANTS
    good = good  bad = bad  other = other
    alice = alice  daemon = daemon  nobody = nobody
    bob = bob  carol = carol  train = train
    gateway = gateway  unknown = unknown
    Client = {good, bad, other}
    Rules <- MCRules
    Sender = {alice, daemon}
    NullSender = nobody
    Daemon = daemon
    Rcpt = {bob, carol, train}
    Tagged = {train}
    Host = {gateway}
    NoHost = unknown
    MaxMails = 2
    MaxRcpts = 2
    HeaderRoom = 3
    LineRoom = 2
    Cut = Cut
    Field = Field
    BodyRoom = 3
    MaxAttachments = 2
    None = None
    OldFile <- MCOldFile
    Tree <- MCTree
    PlainTree <- MCPlainTree
    TextOf <- FileOf
    Pair = {"p1", "p2"}
    Suspect = {"p2"}
    Word = {"w1"}
    Counts <- MCCounts
    Totals <- MCTotals
    MaxSlips = 2
SPECIFICATION Spec
INVARIANTS TypeOK ReadAsTree DeliveredAsAsked RemovedWasAccepted
INVARIANTS SpamNeedsEvidence EvidenceIsUsed
PROPERTIES ReadsOn SignoDecides CountedAsTrained HandlesMessage
CHECK_DEADLOCK FALSE
