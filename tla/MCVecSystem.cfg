SPECIFICATION BatchSpec
CONSTANTS
    Lanes = {1, 2, 3}
    Texts <- MCTexts
    Golden <- MCGolden
    Vector = 7
    Timecmp = 4
    Budget = 5
PROPERTY LanesMatchScalar
