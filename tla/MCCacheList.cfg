SPECIFICATION Spec
CONSTANTS
    Size = 4
    HandDiff <- DefaultSpread
    Block = {b1, b2, b3, b4, b5}
INVARIANTS MapsAgree LoopBound
PROPERTIES ColdFill SecondChance AbstractSpec
