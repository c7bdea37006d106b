SPECIFICATION Spec
CONSTANTS
  Default = default
  Chosen = chosen
  Versions <- TwoVersions
  NotJson <- HalfADocument
  NotText <- Utf16
  NoFile = "no file"
  Torn = "torn"
  Unusable = "unusable"
PROPERTIES
  StoresWholeValues
  OnlyReadableFilesReplaceTheBackup
