CONSTANTS
  SafeModeOn = FALSE
  Threshold = 2
  RemoteSigner = FALSE
  MaxTrouble = 2
SPECIFICATION FairSpec
PROPERTY SilentPeerDropped
