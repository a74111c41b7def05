CONSTANTS
    MaxUint8 = 15
    MaxUint64 = 255
    ByteBase = 16
    U64Bytes = 2
    U128Bytes = 3
    PriceLimit = 8
    DigitBase = 2
    IntervalToExecute = 2
    CouldNotGet = CouldNotGet
    AbortedCode = "4016"
    KnownCodes = {"4016"}
    Requests <- MCRequests
    Queries <- MCQueries
    Store0 <- MCStore0
    Outcomes <- MCOutcomes
    Sources = {"script", "modules", "mixed"}
    Limits = {2}
    MaxSent = 2
SPECIFICATION Spec
INVARIANTS
    DoorsAgree
    PagesAreComplete
    StatusIsTold
    CompiledIsWhatRuns
