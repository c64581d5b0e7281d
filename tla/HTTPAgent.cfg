SPECIFICATION Spec
CONSTANTS
    Exchanges <- MCExchanges
    MaxPieces = 3
    SmallBufferSize = 8
    MaxUint64 = 1000
INVARIANTS DecodedAsSent ResponsePublished SettingsTakeEffect
 
