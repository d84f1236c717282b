CONSTANTS
  SafeModeOn = TRUE
  Threshold = 2
  RemoteSigner = TRUE
  MaxTrouble = 6
SPECIFICATION FairSpec
INVARIANTS STypeOK OneSocket CountersAgree SafeModeSound
PROPERTY ComesBack
