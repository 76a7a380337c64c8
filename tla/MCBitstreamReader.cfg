CONSTANTS
  BlockIds <- MCBlockIds
  CodeWidths <- MCCodeWidths
  Payloads <- MCPayloads
  StartWords <- MCStartWords
  Abbrevs = {a1, a2, a3}
  RefMod = 256
  MaxDepth = 3
  MaxWords = 13
SYMMETRY Symmetry
SPECIFICATION RTSpec
INVARIANTS TypeOK RefsExact SizesExact WellNested Balanced ReaderAgrees
PROPERTY ClosedFrozen
CHECK_DEADLOCK FALSE
