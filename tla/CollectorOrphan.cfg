\* One request goroutine, one key: a bucket removed by the GC between the
\* lookup and the charge takes the charge away with it.
CONSTANTS
  Key = {k1}
  Thread = {t1}
  Bucket = {1, 2}
  Capacity = 2
  Res = 2
  NoBucket = NoBucket
SPECIFICATION CSpec
PROPERTY AdmissionRefinesBucket
