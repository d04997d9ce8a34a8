SPECIFICATION GpsSpec
CONSTANTS
  BUF_SIZE = 5
  BYTE = 2
  MaxReceived = 14
PROPERTIES
  TakenInOrder
  NothingIsSkipped
  AllIsTaken
