\* Commands over a cache of a required file, an optional directory and an optional file without a URL.
SPECIFICATION FairSpec
CONSTANTS
  v1 = v1  v2 = v2
  ProductCount = 3
  Directory = {2}
  Inside = {2}
  Optional = {2, 3}
  NoUrl = {3}
  Name = {own, other}
  UrlName = own
  Version = {v1, v2}
  Partial = Partial
  Candidate <- Candidates
  Template <- Templates
  Stamp = {10, 11, 12}
  Given = Given
  Command = Command
  NoFile = NoFile  NoCandidate = NoCandidate  NoDigest = NoDigest  NoLabel = NoLabel
  Lost = Lost
  MaxChanges = 1
  MaxFaults = 1
INVARIANTS
  VerifiedHolds
PROPERTIES
  PinKept
  DownloadsRepair
