SPECIFICATION TreeSpec
CONSTANTS
    PointTimes <- MCPointTimes
    Amounts = {0, 1, 2, 3}
    Starts <- MCStarts
INVARIANTS DescentsAgree TreeSound
