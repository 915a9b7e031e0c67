SPECIFICATION FairSpec
CONSTANTS
  Flows = {f1}
  MainLcore = 1
  GenLcore = 2
  NoFlow = NoFlow
PROPERTIES
  EventsFire
