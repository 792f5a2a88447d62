CONSTANTS
  MaxLe = 3
  MaxAnswer = 8
  MaxHeld = 2
SPECIFICATION Spec
PROPERTY CollectsWhatIsAnnounced
