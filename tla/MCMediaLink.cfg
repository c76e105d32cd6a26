\* Two streams of two packets of two fragments, started twice and stopped once;
\* frames of up to four cells that TCP cuts anywhere.
CONSTANTS
    HeaderCells = 2
    MaxLength = 2
    CompactAt = 4
    Packets = 2
    Fragments = 2
    MaxPlays = 2
    MaxStops = 1
SPECIFICATION LinkSpec
INVARIANTS
    FramesAreRecovered
    PacketsAreWhole
CHECK_DEADLOCK FALSE
