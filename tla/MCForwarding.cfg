SPECIFICATION FairSpec
CONSTANTS
    Cap = 1
    MaxUp <- MCMaxUp
    MaxDown = 1
    Cases <- MCCases
    Alphabet = {0, 3}
    ZstdChunkSize = 5
    ZstdMinSize = 3
    MaxStored = 5
    Base = 3
    Compress <- MCCompress
    Decompress <- MCDecompress
CHECK_DEADLOCK FALSE
INVARIANTS
    TypeOK
    CodecCarriesPrefix
PROPERTIES
    ImplementsTunnel
    
    ServerReleases
    LoopsEnd
