SPECIFICATION Spec
CONSTANTS
    Devices <- MCDevices
    LineLen <- MCLineLen
    MaxLosses = 1
    MaxSaves = 2
INVARIANTS SavedListIsRead SettingsTakeEffect MenuSound
PROPERTIES ChosenGoesOnTop
