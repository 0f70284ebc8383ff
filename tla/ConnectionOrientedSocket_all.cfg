\* receiveAll() when the peer closes: expected to be violated.
SPECIFICATION FairSpec
CONSTANTS
  Readers = {r1}
  Bytes = {a, nul}
  Nul = nul
  Amounts = {1}
  Flags = {"none"}
  UIntMax = 7
  MaxMessage = 2
  MaxSent = 1
PROPERTY AllReturns
