\* A Load of two loaders, started at any point, racing one Unmarshal of a
\* three-field struct; durations checked against the reference parse.
CONSTANTS
  W = 8
  UnitMap <- MCUnitMap
  Key <- MCKey
  DefKey = DefKey
  Value <- MCValue
  LoaderResult <- MCLoaderResult
  NLoaders = 2
  MaxLoads = 1
  Fields <- MCFields
  Absent = Absent
  NotRead = NotRead
  LoadErr = LoadErr

SPECIFICATION SSpec
\* The program stops: Unmarshal returns and no more Load calls are made.
CHECK_DEADLOCK FALSE
INVARIANT DurationExact
PROPERTY UnmarshalReturns
