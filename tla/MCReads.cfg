\* Every read of the two clients, against services that answer anything, and
\* the redaction of every short text, and the unpacking of archives.
SPECIFICATION MCSpec
CONSTANTS
  MaxWord = 1048576
  Headers <- SomeHeaders
  MaxRedirects = 2
  Polls = 3
  PageSize = 2
  MaxPages = 3
  MaxEdits = 2
  MaxEntries = 6
  Bytes = {"a", "b", "lead", "tail"}
  Starts = {"a", "b", "lead"}
  Width <- MCWidth
  Texts <- MCTexts
  SecretLists <- MCSecretLists
  Names <- MCNames
  Portable <- MCPortable
  NoName = ""
  Stored <- MCStored
  Tarballs <- MCTarballs
  OuterPaths <- MCOuterPaths
  Erlang <- MCErlang
  MaxTarEntries = 4
  MaxEntrySize = 2
  MaxTotal = 4
  MaxArchive = 1
INVARIANTS
  CredentialStaysHome
  EffortIsBounded
  ResultsAreTrue
  RedactsExactly
  UnpacksAsDeclared
PROPERTY CallsEnd
