SPECIFICATION Spec
CONSTANTS
    Mb = 16
    PartSizes = {2, 4, 8}
    Prime = 8
    Depth = 2
    Blank = Blank
    Junk = Junk
    Sizes = {1, 8, 13, 21, 39}
    MaxPos = 40
    MaxAttempts = 2
INVARIANTS TypeOK BytesInOrder WholeBody RangeIsWhatWasAsked WindowsAreLegal
PROPERTIES DeliversTheRange
CHECK_DEADLOCK FALSE
