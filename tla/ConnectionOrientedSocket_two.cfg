\* Two threads read through the same descriptor.
SPECIFICATION Spec
CONSTANTS
  Readers = {r1, r2}
  Bytes = {a, nul}
  Nul = nul
  Amounts = {1, 3}
  Flags = {"none"}
  UIntMax = 7
  MaxMessage = 2
  MaxSent = 3
SYMMETRY ReaderSymmetry
INVARIANTS TypeOK ExactlyOnce NoTerminatorInside
PROPERTY ReturnsEarlyOnlyWhenDrained
