----------------------------- MODULE MCProfiles -----------------------------
(* Instances of Profiles for TLC. *)
EXTENDS Profiles, TLC

Profile(name, from, to, capabilities) ==
  [id |-> name, min |-> from, max |-> to, capabilities |-> capabilities]

\* The four profiles of the repository, with the capabilities in which they differ.
Same == ("recovery_progress" :> "conditional") @@ ("replication_lag" :> "derived")
          @@ ("bucket_performance" :> "unavailable")
Of(performance, rates) ==
  Same @@ ("vdc_performance" :> performance) @@ ("flux_interval_rates" :> rates)

P36 == Profile("ecs-3.6", 0, 1, Of("native", "native"))
P37 == Profile("ecs-3.7", 1, 2, Of("conditional", "unavailable"))
P380 == Profile("ecs-3.8.0", 2, 3, Of("conditional", "unavailable"))
P381 == Profile("ecs-3.8.1", 3, 4, Of("conditional", "conditional"))

\* Files that do not go with those: a range over several of theirs, a capability that is
\* missing or has other support, rates everywhere.
Wide == Profile("ecs-3.8.1", 0, 3, Same)
Late == Profile("ecs-3.8.0", 1, 4, Same @@ ("vdc_performance" :> "unavailable"))
Rates == Profile("ecs-3.7", 1, 2, ("flux_interval_rates" :> "native")
                                    @@ ("replication_lag" :> "native"))

\* What a directory may hold; LoadDir refuses most of it.
SomeDirectories ==
  {{P36, P37, P380, P381}} \cup {{p, q} : p, q \in {P36, P37, P381, Wide, Late, Rates}}
    \cup {{P36, Rates, p} : p \in {P380, Wide, Late}}

\* The repository's own.
OwnDirectory == {{P36, P37, P380, P381}}

=============================================================================
