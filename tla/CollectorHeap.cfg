\* Two request goroutines charging buckets of two keys, two bucket
\* objects, capacity 2, two sub-ticks per drip.
CONSTANTS
  Key = {k1, k2}
  Thread = {t1, t2}
  Bucket = {1, 2}
  Capacity = 2
  Res = 2
  NoBucket = NoBucket
SPECIFICATION CSpec
INVARIANT CTypeOK
INVARIANT HeapOrdered
INVARIANT BucketConservation
PROPERTY EmptyBucketCollected
