-------------------------------- MODULE Balance --------------------------------
(***************************************************************************)
(* How the console reads the coupling metrics of components: the zone of a *)
(* component (kernel/graph/metric-reading.ts), the counters, the ranking   *)
(* and the distribution of the balance page (kernel/graph/balance-report.ts*)
(* and the charts of contexts/architecture/pages/balance).                 *)
(*                                                                         *)
(* The sentences and colors of a zone are left out.  A distance carries how*)
(* it was rounded, because the buckets of the distribution compare doubles *)
(* that only differ by that.                                               *)
(***************************************************************************)
EXTENDS Orders

CONSTANT Precedes(_, _)   \* localeCompare, as a strict order of identifiers

AtMost(a, b) == a[1] * b[2] <= b[1] * a[2]

AtMostRounded(a, b) ==
  AtMost(a.exact, b.exact) /\ (AtMost(b.exact, a.exact) => a.ulps <= b.ulps)

-----------------------------------------------------------------------------
(* Zones *)

ZONE_LIMIT == <<1, 5>>
BALANCED_DISTANCE == [exact |-> <<3, 10>>, ulps |-> 0]

Complement(q) == <<q[2] - q[1], q[2]>>

IsIsolated(component) == component.afferentCoupling + component.efferentCoupling = 0

IsPainfulMutant(component) == AtMost(component.instability, ZONE_LIMIT)

IsPainful(component) ==
  AtMost(component.instability, ZONE_LIMIT) /\ AtMost(component.abstractness, ZONE_LIMIT)

IsUseless(component) ==
  /\ AtMost(Complement(ZONE_LIMIT), component.instability)
  /\ AtMost(Complement(ZONE_LIMIT), component.abstractness)

readMetrics(component) ==
  CASE IsIsolated(component) -> "isolated"
    [] ~IsIsolated(component) /\ component.afferentCoupling = 0 -> "free"
    [] component.afferentCoupling > 0 /\ IsPainful(component) -> "pain"
    [] component.afferentCoupling > 0 /\ ~IsPainful(component) ->
         IF IsUseless(component) THEN "useless"
         ELSE IF AtMostRounded(component.mainSequenceDistance, BALANCED_DISTANCE)
           THEN "balanced"
           ELSE "drifting"

ZONE_ORDER == <<"pain", "useless", "drifting", "balanced", "free", "isolated">>

Zones == {ZONE_ORDER[z] : z \in 1 .. Len(ZONE_ORDER)}

In(zones, components) == {c \in components : readMetrics(c) \in zones}

summarizeZones(components) ==
  [z \in 1 .. Len(ZONE_ORDER) |->
     [zone |-> ZONE_ORDER[z], count |-> Cardinality(In({ZONE_ORDER[z]}, components))]]

-----------------------------------------------------------------------------
(* The ranking *)

RANKING_LIMIT == 15

Unbalanced == {"pain", "useless", "drifting"}

Risk(component) ==
  LET distance == component.mainSequenceDistance.exact IN
    <<distance[1] * component.afferentCoupling, distance[2]>>

(* A product of doubles is ordered as the quotients it stands for: equal   *)
(* ones are ordered by identifier.                                         *)
RiskierMutant(a, b) == ~AtMost(Risk(a), Risk(b))

Riskier(a, b) ==
  \/ ~AtMost(Risk(a), Risk(b))
  \/ (AtMost(Risk(b), Risk(a)) /\ Precedes(a.id, b.id))

ByRisk(components) == {p \in components \X components : Riskier(p[1], p[2])}

Ranked(components, limit) == Top(In(Unbalanced, components), ByRisk(components), limit)

(* Category of a bar: the name, as a path of one segment, or the identifier*)
(* of a component that shares its name.                                    *)
Label(ranked, i) ==
  IF \E j \in DOMAIN ranked \ {i} : ranked[j].name = ranked[i].name
    THEN ranked[i].id
    ELSE <<ranked[i].name>>

rankOffenders(components, limit) ==
  LET ranked == Ranked(components, limit) IN
    [i \in DOMAIN ranked |->
       [id |-> ranked[i].id, label |-> Label(ranked, i), zone |-> readMetrics(ranked[i]),
        distance |-> ranked[i].mainSequenceDistance,
        dependents |-> ranked[i].afferentCoupling]]

(* The bars of each category of the chart, and what a click on one selects.*)
createBalanceRankingChart(entries) ==
  [category \in {entries[i].label : i \in DOMAIN entries} |->
     {[length |-> entries[i].dependents, selects |-> entries[i].id] :
        i \in {j \in DOMAIN entries : entries[j].label = category}}]

-----------------------------------------------------------------------------
(* The distribution *)

BucketCount == 10

(* index * 0.1 and index * 0.1 + 0.1, as doubles. *)
BucketStart(index) ==
  [exact |-> <<index, 10>>, ulps |-> IF index \in {3, 6, 7} THEN 1 ELSE 0]
BucketEnd(index) ==
  [exact |-> <<index + 1, 10>>, ulps |-> IF index \in {2, 6} THEN 1 ELSE 0]

InBucketMutant(distance, index) ==
  /\ AtMostRounded(BucketStart(index), distance)
  /\ AtMostRounded(distance, BucketEnd(index))

InBucket(distance, index) ==
  /\ AtMostRounded(BucketStart(index), distance)
  /\ IF index = BucketCount - 1
       THEN AtMostRounded(distance, BucketEnd(index))
       ELSE ~AtMostRounded(BucketEnd(index), distance)

Measured == {"balanced", "drifting", "pain", "useless"}

Bucket(components, index) ==
  {c \in In(Measured, components) : InBucket(c.mainSequenceDistance, index)}

IsGreen(index) == ~AtMostRounded(BALANCED_DISTANCE, BucketStart(index))

bucketDistances(components) ==
  [index \in 0 .. BucketCount - 1 |->
     [label |-> <<index, index + 1>>, count |-> Cardinality(Bucket(components, index)),
      green |-> IsGreen(index)]]

createBalanceDistributionChart(buckets) ==
  {[category |-> buckets[index].label, length |-> buckets[index].count,
    green |-> buckets[index].green] : index \in DOMAIN buckets}

-----------------------------------------------------------------------------
(* What the page promises its counters and charts *)

ZoneSummary == [zone : Zones, count : Nat]

(* The ranking is of components that something depends on. *)
IsBalanceEntry(entry) ==
  entry.zone \in Unbalanced /\ entry.dependents \in Nat \ {0}

DistanceBucket == [label : Nat \X Nat, count : Nat, green : BOOLEAN]

=============================================================================
