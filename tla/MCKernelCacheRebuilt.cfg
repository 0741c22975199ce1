SPECIFICATION Spec
CONSTANTS
    Threads = {t1}
    k1 = k1
    c1 = c1
    k2 = k2
    c2 = c2
    ce = ce
    Symbols <- MCSymbols
    name <- MCName
    file <- MCFile
    getInstrumentedName <- MCInstrumentedName
    AppSymbols <- MCAppSymbols
    StartSymbols <- MCStartSymbols
    WatchedFiles <- MCWatchedFiles
    Filters <- MCFilters
    Excluded <- MCExcluded
    Located <- MCLocated
    Described <- MCSymbols
    MaxDispatches = 2
CHECK_DEADLOCK FALSE
INVARIANT DescriptorOfAlternative
