SPECIFICATION ChannelFairSpec
CONSTANTS
  MaxIds = 3
  MaxRotations = 1

  
  
PROPERTIES
  EveryTurnEnds
