CONSTANTS
  Blocks = 3
  Others = 2
  Word = 64
  FirstCount = 40
SPECIFICATION AesSpec
INVARIANTS ProgramLives ChainContinues MessageComesBack
