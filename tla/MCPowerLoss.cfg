\* Two payloads that are submitted and upgraded side by side, on file systems
\* that order the renames that replace a file and on those that order every
\* rename.  With two inodes a temporary file can be created beside one payload
\* that is stored, and not beside two.
SPECIFICATION FairSpec
CONSTANTS
  None = None
  Ids = {p, q}
  Inodes = {i1, i2}
  FileSystems <- MCFileSystems
INVARIANTS
  PowerTypeOK
  SurvivorsLoad
PROPERTIES
  MediumKeepsRecords
  AcknowledgedReachesMedium
  IsCheckpointed
