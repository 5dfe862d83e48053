\* Status, events and display of a device, three events retained.
SPECIFICATION DeviceSpec
CONSTANTS
    RingSize = 3
    Fallback <- ThreeByOne
    Incoming <- MachineBytes
    Texts <- SomeTexts
INVARIANTS
    DeviceTypeOK
    ViewConverges
    EndUnderstood
    DisplayHonoured
