SPECIFICATION Spec
CONSTANTS
  Images <- Files
  Offered <- SentFor
  Kind <- KindOf
  Secure <- SecureVersion
  Build <- BuildDate
INVARIANT ShaIsContent
INVARIANT UploadedIsWhole
INVARIANT TrialHasFallback
