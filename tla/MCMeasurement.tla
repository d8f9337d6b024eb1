---------------------------- MODULE MCMeasurement ----------------------------
\* Buckets of two instants, hours of two buckets.  At most instants the sensor
\* may report either of two things: readings are carried in, sit on bucket
\* and hour boundaries, and leave buckets half or wholly silent.
EXTENDS MeasurementStats

Day ==
  [t \in Times |-> CASE t = 0 -> {1, Nothing}
                     [] t = 1 -> {2, Nothing}
                     [] t = 2 -> {2, Nothing}
                     [] t = 3 -> {1, Unavailable}
                     [] t = 4 -> {Nothing}
                     [] t = 5 -> {2, Nothing}
                     [] t = 6 -> {Nothing}
                     [] t = 7 -> {Nothing}]
=============================================================================
