SPECIFICATION FairSpec
CONSTANTS
  two = two
  three = three
  Senders = {a, b}
  Packets = {two, three}
  Length <- MCLength
  BufNum = 3
  None = None
INVARIANT TypeOK
PROPERTIES WholeWhenApart GetsThrough
