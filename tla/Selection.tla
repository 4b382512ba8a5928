------------------------------- MODULE Selection -------------------------------
(* The pairing policy (packages/shared/src/matchmaking.ts): pure functions    *)
(* over the snapshots of queued users.                                       *)
(*                                                                           *)
(* What a user asks of gender, language and age is the set of users who suit. *)
(* The shared languages score as the shared interests do and are left out,   *)
(* and so is the priority, which the server always passes as off. Scores are *)
(* in half points, because a second of waiting is worth one and a half.      *)
EXTENDS Integers, FiniteSets, SequencesExt

CONSTANTS
    Country, Nowhere,   \* Nowhere: the profile names no country
    Region, Global,     \* the shards of the queue
    RegionByCountry,    \* REGION_BY_COUNTRY
    Stages              \* the relaxation ladder: [after, drop] in order

Shard == Region \cup {Global}

ASSUME CountryAssumption == Nowhere \notin Country /\ Global \notin Region
ASSUME RegionAssumption  == RegionByCountry \in [Country -> Shard]

Constraint == {"interests", "ageBracket", "language", "country", "gender"}

relaxationStageFor(c) ==
    Max({1} \cup {i \in DOMAIN Stages : c.waited >= Stages[i].after})

(* Mutant of activeConstraints: the ladder is never climbed. *)
activeConstraintsStrict(c) == Constraint \ Stages[1].drop

(* The soft constraints enforced at the stage a candidate has reached. *)
activeConstraints(c) == Constraint \ Stages[relaxationStageFor(c)].drop

(* Hard rules: self and blocks; loadCandidates passes nobody as occupied. *)
checkHardRules(seeker, c) ==
    /\ seeker.userId # c.userId
    /\ c.userId \notin seeker.excluded /\ seeker.userId \notin c.excluded

satisfiesPreferences(seeker, c, active) ==
    /\ "country" \in active /\ seeker.wants # {}
         => c.country # Nowhere /\ c.country \in seeker.wants
    /\ \A k \in active \cap DOMAIN seeker.suits : c.userId \in seeker.suits[k]

Legal(seeker, c) ==
    /\ checkHardRules(seeker, c)
    /\ satisfiesPreferences(seeker, c, activeConstraints(seeker))
    /\ satisfiesPreferences(c, seeker, activeConstraints(c))

Lesser(x, y) == IF x < y THEN x ELSE y

Wants(a, b) == b.country # Nowhere /\ b.country \in a.wants

countryPreference(seeker, c) ==
    IF Wants(seeker, c) /\ Wants(c, seeker) THEN 30
    ELSE IF Wants(seeker, c) \/ Wants(c, seeker) THEN 14 ELSE 0

Recent(seeker, c) == c.userId \in seeker.recent \/ seeker.userId \in c.recent

scorePair(seeker, c) ==
    Lesser(24 * Cardinality(seeker.interests \cap c.interests), 96)
    + countryPreference(seeker, c)
    + Lesser(3 * Max({seeker.waited, c.waited}), 120)
    - (IF Recent(seeker, c) THEN 1000 ELSE 0)

(* Mutant of isBetter: ties go to whoever is seen first. *)
isBetterFirst(seeker, c, d) == scorePair(seeker, c) > scorePair(seeker, d)

(* Ties break on the earliest queuedAt, then on the user id. *)
isBetter(seeker, c, d) ==
    LET x == scorePair(seeker, c)
        y == scorePair(seeker, d)
    IN  \/ x > y
        \/ x = y /\ c.since < d.since
        \/ x = y /\ c.since = d.since /\ c.userId < d.userId

(* The loop of selectBestMatch over the pool in the order it was loaded. The *)
(* result is the set of the candidate found, or empty.                       *)
selectBestMatch(seeker, pool) ==
    FoldLeft(LAMBDA best, c :
                IF Legal(seeker, c) /\ \A b \in best : isBetter(seeker, c, b) THEN {c} ELSE best,
             {}, pool)

--------------------------------------------------------------------------------
shardFor(country) == IF country = Nowhere THEN Global ELSE RegionByCountry[country]

shardsToScan(seeker) ==
    {Global, shardFor(seeker.country)}
    \cup {shardFor(k) : k \in seeker.wants}
    \cup (IF "country" \in activeConstraints(seeker) THEN {} ELSE Region)

================================================================================
