SPECIFICATION Spec
CONSTANTS
  MaxReboots = 1
  None = None
  FileRequest = {f1, f2}
  Record <- MCRecord
  Start <- MCStart
  Foreign <- MCForeign
  Within <- MCWithin
  Matching <- MCMatching
  MountRequest = {"m1", "m2", "m3"}
  Device = {"sdb", "sdc"}
  DeviceOf <- MCDeviceOf
  ConfigRequest = {c1, c2}
  Setting = {"A", "B"}
  Manifest <- MCManifest
SYMMETRY Requests
INVARIANTS BystandersKept NameserverOnce MountedMeansGrown RetryNeverCompletes ManifestKept
PROPERTIES DoesAsAsked ConfigurationInEffect OidcTakesEffect
CHECK_DEADLOCK FALSE
