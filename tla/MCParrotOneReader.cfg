CONSTANTS
  Readers = {r1, r2}
  Writers = {w1, w2}
  PARROT_MSG_FIFO_SIZE = 4
  PARROT_MSG_FIFO_MAX = 3
  Lengths = {1, 2, 3}
  OneShot = TRUE
  MaxMessages = 1
SPECIFICATION ParrotSpec
INVARIANT OneReader
