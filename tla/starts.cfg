SPECIFICATION LibrarySpec
CONSTANTS
    NULL = NULL
    BufSz = 3
    Width = 2
    MaxRequest = 4
    MaxBytes = 8
    MayWakeSpuriously = TRUE
    Fifos = {q1, q2}
    Elements = {e1, e2}
    Spurious = {q1}
    MaxPushes = 2
    MaxWakeups = 1
    Elem = {1, 2, 3}
    Junk = Junk
    Forever = Forever
    Nil = Nil
    MaxLength = 4
    MaxHeap = 5
    Start = 1
    Block = 3
    Key = {"a", "b", "c", "d"}
    Val = {1, 2}
    None = None
    Hash <- KeyHash
    primes <- Lengths
    LoadDivisor = 1
    Tables = {"one", "two", "three", "faulty", "other"}
    Readable = {"one", "two", "three", "faulty"}
    Faulty = {"faulty"}
    Length <- MCLength
    Capacity = 2
    Links <- AllLinks
    MaxLosses = 3
    Video = Video
    Scte35 = Scte35
    Video2 = Video2
    Map1 = Map1
    Map2 = Map2
    Streams <- MCStreams
    TypeOf <- MCTypeOf
    MapPids <- MCMapPids
    Unused = NoPid
    Pats <- MCPats
    Cats <- MCCats
    Pmts <- MCPmts
    Sides = {"ingest", "preread"}
    MaxPackets = 5
    MaxMaps = 2
    MaxLost = 1
INVARIANTS StartsAndEndsMayRepeat
CHECK_DEADLOCK FALSE
