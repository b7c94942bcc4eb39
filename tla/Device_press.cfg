SPECIFICATION Spec
CONSTANTS
    DeviceCount = 1
    Slots = {u1}
    u1 = u1
PROPERTY PressToggles
