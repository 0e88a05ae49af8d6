SPECIFICATION FairSoundSpec
CONSTANTS
  b1 = b1
  b2 = b2
  b3 = b3
  b4 = b4
  NULL = NULL
  Buf <- MCBuf
  Periods = 3
INVARIANTS SoundInv
PROPERTIES KeepsElapsing
