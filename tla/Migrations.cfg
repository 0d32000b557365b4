SPECIFICATION Spec
CONSTANTS
  Server = {s1, s2, s3}
  Build = {"old", "new", "edited"}
  Script = {"init", "accounts", "accounts, edited", "covers"}
  Files <- ReleaseFiles
  Versions = 3
  None = None
INVARIANTS SchemaIsRecorded UpMeansMigrated
