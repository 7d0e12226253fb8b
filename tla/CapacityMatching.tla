-------------------------- MODULE CapacityMatching --------------------------
(***************************************************************************)
(* The matching of a request's cargo with the active assignments: what the *)
(* compatibility function finds missing, and the run that is kept of it,   *)
(* with the result of every built-in rule for every candidate              *)
(* (apps/api/src/matching, migration 0020).  A run is one transaction and  *)
(* keeps snapshots of all that it read.  A preference is only looked up    *)
(* and copied: its minimum score and its limit are applied nowhere, and no *)
(* code writes one.                                                        *)
(***************************************************************************)
EXTENDS Integers, Sequences, FiniteSets

CONSTANTS Offered,       \* active assignments, 1..n in the order of the query
          CargoShapes, OfferShapes, Unknown, MaxMatchings,
          Preferences,   \* rows of matching_preferences
          NoPreference

VARIABLES cargo,         \* the cargo profile of the request
          offer,         \* [Offered -> OfferShapes]
          rules,         \* rows of matching_rules
          matchings      \* Seq(run): matching_runs and what hangs from them

matchingVars == <<cargo, offer, rules, matchings>>

Dimensions == {"length", "width", "height"}

(* Assignments are numbered; what is measured is a number, or unknown.     *)
Measure == Int \cup {Unknown}

ASSUME MatchingAssumption ==
    /\ IsFiniteSet(Offered) /\ Offered \subseteq Int
    /\ \A c \in CargoShapes \cup OfferShapes :
          /\ c.weight \in Int /\ c.volume \in Measure /\ c.tracking \in BOOLEAN
          /\ \A d \in Dimensions : c.size[d] \in Measure
    /\ \A o \in OfferShapes : {o.qualified, o.driverActive, o.vehicleActive} \subseteq BOOLEAN

(* Preferences are rows that are only looked up: what their table takes.   *)
PreferenceTakes(p) == p.minimum \in 0..100 /\ p.most > 0

DefaultIsUnique ==
    \A p, q \in Preferences : p.default /\ p.active /\ q.default /\ q.active => p = q

ASSUME PreferenceAssumption ==
    /\ DefaultIsUnique
    /\ \A p \in Preferences : PreferenceTakes(p)

(* The codes of a mismatch; each is a rule, too.                           *)
DimensionRule == [d \in Dimensions |->
    CASE d = "length" -> "length_capacity_insufficient"
      [] d = "width"  -> "width_capacity_insufficient"
      [] OTHER        -> "height_capacity_insufficient"]

CapacityMismatchCode ==
    {"driver_not_qualified", "driver_not_active", "vehicle_not_active",
     "vehicle_type_mismatch", "body_type_mismatch", "weight_capacity_insufficient",
     "volume_capacity_unknown", "volume_capacity_insufficient",
     "dimensions_capacity_unknown", "tracking_unavailable"}
        \cup {DimensionRule[d] : d \in Dimensions}

(* The rule of each code, by its category.                                 *)
BuiltInRules == [code \in CapacityMismatchCode |->
    CASE code = "driver_not_qualified" -> "compliance"
      [] code \in {"driver_not_active", "vehicle_not_active"} -> "availability"
      [] code \in {"vehicle_type_mismatch", "body_type_mismatch", "tracking_unavailable"} ->
             "equipment"
      [] OTHER -> "capacity"]

-----------------------------------------------------------------------------
HasDimensions(c) == \E d \in Dimensions : c.size[d] # Unknown

(* A slip: one dimension is enough.                                        *)
AnyDimension(o) == \E d \in Dimensions : o.size[d] # Unknown

AllDimensions(o) == \A d \in Dimensions : o.size[d] # Unknown

(* evaluateCapacityCompatibility: the codes of its reasons.                *)
Reasons(c, o) ==
    {rule \in CapacityMismatchCode :
        \/ rule = "driver_not_qualified" /\ ~o.qualified
        \/ rule = "driver_not_active" /\ ~o.driverActive
        \/ rule = "vehicle_not_active" /\ ~o.vehicleActive
        \/ rule = "vehicle_type_mismatch" /\ o.vehicleType # c.vehicleType
        \/ rule = "body_type_mismatch" /\ o.bodyType # c.bodyType
        \/ rule = "weight_capacity_insufficient" /\ o.weight < c.weight
        \/ /\ c.volume # Unknown
           /\ IF o.volume = Unknown THEN rule = "volume_capacity_unknown"
              ELSE rule = "volume_capacity_insufficient" /\ o.volume < c.volume
        \/ /\ rule = "dimensions_capacity_unknown"
           /\ HasDimensions(c) /\ ~AllDimensions(o)
        \/ /\ AllDimensions(o)
           /\ \E d \in Dimensions : /\ rule = DimensionRule[d]
                                    /\ c.size[d] # Unknown /\ o.size[d] # Unknown
                                    /\ o.size[d] < c.size[d]
        \/ rule = "tracking_unavailable" /\ c.tracking /\ ~o.tracking}

Compatible(c, o) == Reasons(c, o) = {}

Applicable(rule, c, o) ==
    CASE rule = "volume_capacity_unknown"      -> c.volume # Unknown /\ o.volume = Unknown
      [] rule = "volume_capacity_insufficient" -> c.volume # Unknown /\ o.volume # Unknown
      [] rule = "dimensions_capacity_unknown"  -> HasDimensions(c) /\ ~AllDimensions(o)
      [] rule \in {DimensionRule[d] : d \in Dimensions} ->
             \E d \in Dimensions : /\ rule = DimensionRule[d]
                                   /\ c.size[d] # Unknown /\ o.size[d] # Unknown
      [] rule = "tracking_unavailable"         -> c.tracking
      [] OTHER                                 -> TRUE

RuleResult(rule, c, o) ==
    IF rule \in Reasons(c, o) THEN "failed"
    ELSE IF Applicable(rule, c, o) THEN "passed" ELSE "not_applicable"

Fits(c, offers) == {a \in Offered : Compatible(c, offers[a])}

(* The rows of a candidate; the compatible ones are ranked in the query's  *)
(* order, and rank 0 stands for NULL.                                      *)
ScoreOf(points) == [raw |-> points, weight |-> 1, weighted |-> points]

ResultOf(rule, c, o) ==
    LET result == RuleResult(rule.code, c, o)
    IN  [code |-> rule.code, version |-> rule.version, result |-> result,
         impact |-> IF result = "failed" THEN "blocker" ELSE "neutral"]

Candidate(c, offers, a, stored) ==
    LET reasons == Reasons(c, offers[a])
        points == IF reasons = {} THEN 100 ELSE 0
    IN  [status     |-> IF reasons = {} THEN "eligible" ELSE "rejected",
         rank       |-> IF reasons = {} THEN Cardinality({b \in Fits(c, offers) : b <= a}) ELSE 0,
         total      |-> points,
         blocking   |-> Cardinality(reasons),
         score      |-> ScoreOf(points),
         results    |-> {ResultOf(rule, c, offers[a]) : rule \in stored},
         rejections |-> {rule.code : rule \in stored} \cap reasons]

Matching(c, offers, preference, stored) ==
    [preference |-> preference, status |-> "completed",
     cargo |-> c, offer |-> offers, rules |-> stored,
     candidates |-> [a \in Offered |-> Candidate(c, offers, a, stored)],
     evaluated |-> Cardinality(Offered),
     eligible |-> Cardinality(Fits(c, offers)),
     rejected |-> Cardinality(Offered \ Fits(c, offers))]

(* ensureBuiltInRules: every code once, the weight it had.                 *)
BuiltIn(code) ==
    [code |-> code, category |-> BuiltInRules[code], version |-> 1,
     blocking |-> TRUE, active |-> TRUE, weight |-> 1]

EnsuredRules ==
    {[BuiltIn(code) EXCEPT !.weight = IF \E r \in rules : r.code = code
                                      THEN (CHOOSE r \in rules : r.code = code).weight
                                      ELSE @] : code \in DOMAIN BuiltInRules}

(* resolvePreference: the one asked for, if it is active, or the default.  *)
Resolves(asked, preference) ==
    IF asked # NoPreference THEN preference = asked /\ asked.active
    ELSE LET defaults == {p \in Preferences : p.default /\ p.active}
         IN  IF defaults = {} THEN preference = NoPreference ELSE preference \in defaults

-----------------------------------------------------------------------------
(* What the tables take; a code is text there, and one of the known codes  *)
(* in the type of the rows the service writes.                             *)
RuleRow == [code: CapacityMismatchCode, version: Nat \ {0}, blocking: BOOLEAN, active: BOOLEAN,
            weight: Nat,
            category: {"eligibility", "capacity", "equipment", "compliance", "availability",
                       "commercial", "preference"}]

CodeIsUnique == \A r, s \in rules : r.code = s.code => r = s

RunTakes(run) ==
    /\ run.status \in {"queued", "running", "completed", "failed", "cancelled"}
    /\ run.evaluated = run.eligible + run.rejected
    /\ run.preference \in Preferences \cup {NoPreference}

CandidateTakes(row) ==
    /\ row.total \in 0..100
    /\ (row.status = "eligible" /\ row.blocking = 0) \/ (row.status = "rejected" /\ row.blocking > 0)

ScoreTakes(score) == score.raw \in 0..100 /\ score.weight >= 0

ResultTakes(row) ==
    /\ \E rule \in rules : rule.code = row.code
    /\ row.version > 0
    /\ row.result \in {"passed", "failed", "not_applicable"}
    /\ row.impact \in {"blocker", "penalty", "bonus", "neutral"}

RejectionTakes(code, row) == \E of \in row.results : of.code = code

-----------------------------------------------------------------------------
MatchingInit == /\ cargo \in CargoShapes
                /\ offer \in [Offered -> OfferShapes]
                /\ rules = {}
                /\ matchings = <<>>

Execute(asked) ==
    /\ Len(matchings) < MaxMatchings
    /\ \E preference \in Preferences \cup {NoPreference} :
          /\ Resolves(asked, preference)
          /\ rules' = EnsuredRules
          /\ matchings' = Append(matchings, Matching(cargo, offer, preference, EnsuredRules))
    /\ UNCHANGED <<cargo, offer>>

(* Reading the rules stores them, too.                                     *)
ListRules == rules' = EnsuredRules /\ UNCHANGED <<cargo, offer, matchings>>

(* The services that own the cargo profile, the driver and the vehicle.    *)
ReviseCargo(c) == cargo' = c /\ UNCHANGED <<offer, rules, matchings>>

ReviseOffer(a, o) ==
    offer' = [offer EXCEPT ![a] = o] /\ UNCHANGED <<cargo, rules, matchings>>

MatchingNext == \/ \E asked \in Preferences \cup {NoPreference} : Execute(asked)
                \/ ListRules
                \/ \E c \in CargoShapes : ReviseCargo(c)
                \/ \E a \in Offered, o \in OfferShapes : ReviseOffer(a, o)

MatchingSpec == MatchingInit /\ [][MatchingNext]_matchingVars

-----------------------------------------------------------------------------
MatchingTypeOK ==
    /\ cargo \in CargoShapes
    /\ offer \in [Offered -> OfferShapes]
    /\ rules \subseteq RuleRow /\ CodeIsUnique

(* A vehicle's limit is known to reach what the cargo asks for, if it asks.*)
Reaches(limit, asked) == asked = Unknown \/ (limit # Unknown /\ limit >= asked)

(* What the run is for: the vehicle is known to carry the cargo.           *)
CanCarry(c, o) ==
    /\ o.qualified /\ o.driverActive /\ o.vehicleActive
    /\ o.vehicleType = c.vehicleType /\ o.bodyType = c.bodyType
    /\ o.weight >= c.weight
    /\ Reaches(o.volume, c.volume)
    /\ HasDimensions(c) => AllDimensions(o)
    /\ \A d \in Dimensions : Reaches(o.size[d], c.size[d])
    /\ c.tracking => o.tracking

(* The rows of a run are rows their tables take.                           *)
TablesTake(run) ==
    /\ RunTakes(run)
    /\ \A a \in Offered :
          LET row == run.candidates[a]
          IN  /\ CandidateTakes(row) /\ ScoreTakes(row.score)
              /\ \A result \in row.results : ResultTakes(result)
              /\ \A code \in row.rejections : RejectionTakes(code, row)

(* Of every run kept: eligible are exactly the candidates known to carry   *)
(* the cargo, ranked 1 to their number; a rejected one has a rejection for *)
(* each of its failed rules and an eligible one none; where all dimensions *)
(* of a vehicle are known, a dimension recorded as passed is one that      *)
(* suffices; and the tables take its rows, whose constraints count the     *)
(* reasons of every candidate once more.                                   *)
RunsAreExplained ==
    \A i \in DOMAIN matchings :
        LET run == matchings[i]
        IN  /\ TablesTake(run)
            /\ \A a \in Offered :
                  LET row == run.candidates[a]
                      o == run.offer[a]
                      Judged(answer) == {of.code : of \in {of \in row.results : of.result = answer}}
                  IN  /\ row.status = "eligible" <=> CanCarry(run.cargo, o)
                      /\ row.rejections = Judged("failed")
                      /\ row.blocking = Cardinality(row.rejections)
                      /\ AllDimensions(o) =>
                            \A d \in Dimensions :
                               DimensionRule[d] \in Judged("passed")
                                  => Reaches(o.size[d], run.cargo.size[d])
            /\ {run.candidates[a].rank : a \in Offered} \ {0} = 1..run.eligible
=============================================================================
