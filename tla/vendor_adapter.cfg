CONSTANTS
  Vendor = {"uniview", "onvif", "hikvision", "dahua", "hanwha"}
  Alarm = {a1, a2, a3}
  Retries = 1
  PageSize = 2
  Codes = 2
  LookBack = 1
  Unlogged = Unlogged
  NoCursor = NoCursor
  MaxTime = 4
  MaxCopies = 2
SPECIFICATION Spec
INVARIANTS TypeOK SilentDeviceIsUnavailable
PROPERTIES CursorPassesOnlyStored RepeatedOnlyAtCursor
SYMMETRY AlarmSymmetry
CHECK_DEADLOCK FALSE
