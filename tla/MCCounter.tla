------------------------------ MODULE MCCounter ------------------------------
\* Buckets of two instants, hours of two buckets, a meter that may stand still,
\* rise, dip by a tenth (once, or twice within a bucket), restart or be out of
\* reach for a whole bucket.
EXTENDS CounterStats

Meters ==
  [t \in Times |-> CASE t = 0 -> {20}
                     [] t = 1 -> {Nothing}
                     [] t = 2 -> {1, 18}
                     [] t = 3 -> {17, Nothing}
                     [] t = 4 -> {18, Unavailable}
                     [] t = 5 -> {Nothing}
                     [] t = 6 -> {20}
                     [] t = 7 -> {20, Nothing}]
=============================================================================
