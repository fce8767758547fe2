SPECIFICATION Spec
CONSTANTS
  ByteBits = 2
  Base = 4
  SHA256_IV <- MCIV
  SHA256_K <- MCK
  Xor <- MCXor
  And <- MCAnd
  RotR <- MCRotR
  ShR <- MCShR
  Offers <- MCOffers
  Extranonces <- MCExtranonces
  Difficulties = {0, 3, 5}
  Seeds = {255}
  Rolled = {0}
  Nonces = {0, 1, 63, 77, 200, 255}
  Full = {2, 3}
  NotHex = NotHex
  Nothing = Nothing
INVARIANT SameVerdict
CHECK_DEADLOCK FALSE
