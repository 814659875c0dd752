CONSTANTS
  Num <- MCNum
  Size <- MCSize
  MaxCell <- MCMaxCell
  MaxCount <- MCMaxCount
SPECIFICATION FairSpec
PROPERTIES InOrder NoOverwriteDuringCopy NoLostWakeup
