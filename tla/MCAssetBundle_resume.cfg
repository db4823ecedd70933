\* Plain downloads that are resumed from a host that ignores If-Range.
SPECIFICATION AssetSpec
CONSTANTS
  Length <- Lengths
  FirstPlain = 1
  LaterPlain = 2
  MaxRestarts = 2
  NoTag = NoTag
  AssetSetups <- PlainResumes
INVARIANT OtherObjectResets
\* A download ends.
CHECK_DEADLOCK FALSE
