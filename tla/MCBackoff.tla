----------------------------- MODULE MCBackoff -----------------------------
\* Backoff for TLC: the default intervals, and lists of up to two items out of
\* some of them and a blank.
EXTENDS Backoff

MCDefaultActionRetryIntervals ==
    <<"1m", "5m", "10m", "30m", "1h", "2h", "4h", "8h", "16h", "1d">>

MCDefaultTowerPollIntervals == <<"20s", "30s", "1m", "1m", "2m", "5m">>

MCEntries == {MCDefaultActionRetryIntervals[i] : i \in 1..10} \cup {"20s", "30s", "2m", Blank}

\* time.ParseDuration has no unit for days, and a blank is no duration.
MCParseDuration ==
    [e \in MCEntries |->
        CASE e = "20s" -> 20
          [] e = "30s" -> 30
          [] e = "1m"  -> 60
          [] e = "2m"  -> 120
          [] e = "5m"  -> 300
          [] e = "10m" -> 600
          [] e = "30m" -> 1800
          [] e = "1h"  -> 3600
          [] e = "2h"  -> 7200
          [] e = "4h"  -> 14400
          [] e = "8h"  -> 28800
          [] e = "16h" -> 57600
          [] OTHER     -> Invalid]

MCEnvironments == UNION {[1..n -> {"30s", "5m", "1d", Blank}] : n \in 0..2}

\* Nothing set in the environment.
NoEnvironment == {<<>>}
=============================================================================
