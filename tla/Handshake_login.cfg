SPECIFICATION Spec
CONSTANTS
  Names <- MCNames
  Lens <- MCLens
  Secrets <- MCSecrets
  Versions <- MCVersions
  Name = "us"
  Secret = "agreed"
  Version = 30
  N = 1
  MaxTries = 2
INVARIANT
  AgreedLoginAccepted
