\* One reader, every receive method, blocking and not.
SPECIFICATION FairSpec
CONSTANTS
  Readers = {r1}
  Bytes = {a, d, nul}
  Nul = nul
  Amounts = {1, 2, 3}
  Flags = {"none", "MSG_DONTWAIT"}
  UIntMax = 7
  MaxMessage = 2
  MaxSent = 3
INVARIANT InOrder
PROPERTIES NeverOverruns ImplementsByteStream DelimiterReturns AllReturnsWhileOpen AmountReturnsOnceStarted
