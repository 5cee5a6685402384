SPECIFICATION MCFairSpec
CONSTANTS
    a1 = a1
    a2 = a2
    Addresses <- Addrs
    AutoAddress = Auto0
    AnyAddress = Any0
    DeviceVersions = {33, 34, 35}
    UserVersions = {33, 34}
    UserTypes = {"default", "device22"}
    MaxChanges = 1
INVARIANTS KeyAgreement
PROPERTIES VersionKept DetectionSound Works
