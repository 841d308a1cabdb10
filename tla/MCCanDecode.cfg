SPECIFICATION Spec
CONSTANTS
    Numerals <- MCNumerals
    stod <- MCStod
    Unit = 4
    stoul <- MCStoul
    stoi <- MCStoi
    rank <- MCRank
    ByteBits = 3
    PayloadBytes = 2
    Documents <- MCDocuments
INVARIANTS
    DatabaseMatchesDocument
    TruncatedIsRefused
    DecodedIsBitField
