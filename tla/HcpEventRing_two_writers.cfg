SPECIFICATION FairSpec
CONSTANTS
  Tasks = {bus, loop}
  Reader = loop
  Entries = {e1, e2}
  NoEntry = none
  N = 2
  SeqMod = 8
  MaxOvertaken = 1
  MaxDropped = 3
INVARIANTS
  NoEntryIsTorn
PROPERTIES
  ImplementsQueue
  EntriesAreRead
