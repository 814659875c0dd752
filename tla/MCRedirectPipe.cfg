CONSTANTS
  Num <- MCNum
  Size <- MCSize
  MaxCell <- MCMaxCell
SPECIFICATION FairSpec
PROPERTIES InOrder NoOverwriteUnsent Drained
