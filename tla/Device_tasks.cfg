SPECIFICATION Spec
CONSTANTS
    DeviceCount = 2
    Slots = {u1}
    u1 = u1
INVARIANT TypeOK
PROPERTIES SecondPressToggles ReportIsTrue
