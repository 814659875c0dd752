CONSTANTS
  Num <- MCNum
  Size <- MCSize
  MaxCell <- MCMaxCell
  MaxFeeds <- MCMaxFeeds
  Width <- MCWidth
SPECIFICATION FairSpec
PROPERTIES BuffersInOrder NoOverwriteDuringFilter LossExact BufferDelivered
