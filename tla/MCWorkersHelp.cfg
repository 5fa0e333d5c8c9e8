SPECIFICATION WorkersSpec
CONSTANTS
  Texts = {t1, t2}
  OnOpen = 2
  OnSave = 2
  MaxGeneration = 3
  MaxVersion = 3
  MaxChain = 2

PROPERTY CancelledChainStops
