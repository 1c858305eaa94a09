SPECIFICATION FairSpec
CHECK_DEADLOCK FALSE
CONSTANTS
  Texts <- MCTexts
  MaxEdits = 2
INVARIANT ReloadConverges
INVARIANT SettingsOfOneFile
INVARIANT UsableSettings
PROPERTY ReloadHappens
