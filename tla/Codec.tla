-------------------------------- MODULE Codec --------------------------------
(***************************************************************************)
(* The canonical binary codec (binary.hpp) and the layout of everything    *)
(* the coordinator and its publishers encode with it: protocol messages    *)
(* (protocol.cpp), snapshots (model.cpp), plan, fence and epoch records    *)
(* (persist.cpp).                                                          *)
(*                                                                         *)
(* Encoders and decoders are separate functions in the code, so a message  *)
(* has two layouts here: XWritten lists what the encoder writes, in order, *)
(* with what the types of the program guarantee of each value; XRead lists *)
(* what the decoder reads, in order, with what it demands of each value.   *)
(* Nothing but the order makes the two agree.                              *)
(*                                                                         *)
(* Abstractions.  A unit stands for the bytes of one integer, digest, boot *)
(* identity or character; a decoder that finds fewer bytes than an integer *)
(* needs finds no unit.  The bounds of limits.hpp are scaled down, every   *)
(* bound on a count to MaxEntries.  The spelling of an identifier is left  *)
(* out: it is valid when it is not empty and no longer than MaxName.       *)
(* validate_structure and canonicalize, which decode_snapshot ends with,   *)
(* judge and order what was read and are not part of the layout.           *)
(***************************************************************************)
EXTENDS Naturals, Sequences, SequencesExt, TLC

CONSTANTS
    MaxName,        \* Limits::max_name_length
    MaxText,        \* Limits::max_text_length
    MaxEntries,     \* the bound on the count of every list
    MaxPayload      \* Limits::max_frame_payload, also kMaxRecordPayload

ASSUME CodecAssumption ==
    /\ MaxName \in Nat \ {0} /\ MaxText \in Nat \ {0} /\ MaxEntries \in Nat \ {0, 1}
    /\ MaxPayload \in Nat

FormatVersion == 1      \* kDurableFormatVersion

\* The last ordinal of each enumeration.
LastState == 10
LastApplicability == 5
LastFeasibility == 9
LastConstraint == 22
LastTerm == 10
LastChurn == 3
LastPreemptibility == 2
LastScope == 2

(***************************************************************************)
(* Fields.  A layout is a sequence of them.                                *)
(***************************************************************************)
Field(name, kind) == <<[name |-> name, kind |-> kind]>>
Num(name) == Field(name, "int")             \* u8 .. u64, i64, digest or raw: any value
Nums(names) == [i \in DOMAIN names |-> [name |-> names[i], kind |-> "int"]]
Gen(name) == Field(name, "gen")             \* a generation, incarnation or boot: never zero
Flag(name) == Field(name, "flag")
Flags(names) == [i \in DOMAIN names |-> [name |-> names[i], kind |-> "flag"]]
Enum(name, last) == <<[name |-> name, kind |-> "enum", last |-> last]>>
Version == Field("version", "version")
Id(name) == Field(name, "id")               \* an identifier
OptId(name) == Field(name, "optid")         \* an identifier or nothing
Text(name) == Field(name, "text")
LongText(name) == Field(name, "longtext")   \* bounded by the payload alone
Opt(name) == Field(name, "opt")             \* a flag and, if it is set, an integer
Ref(name) == Field(name, "ref")             \* a PlanRef that may be absent
Part(name, layout) == <<[name |-> name, kind |-> "part", of |-> layout]>>
List(name, layout) == <<[name |-> name, kind |-> "list", of |-> layout]>>
Blob(name, layout) == <<[name |-> name, kind |-> "blob", of |-> layout]>>
OptBlob(name, layout) == <<[name |-> name, kind |-> "optblob", of |-> layout]>>
Given(name) == Part(name, Id("id") \o Gen("generation"))    \* a reference that must be there
Ids(name) == List(name, Id("id"))

(***************************************************************************)
(* Writer                                                                  *)
(***************************************************************************)
\* The kinds that are one integer, and those that are a length and as many units.
Units == {"int", "gen", "enum", "version"}
Runs == {"id", "optid", "text", "longtext", "opt"}    \* opt: the flag counts the integers

Prefixed(units) == <<Len(units)>> \o units

\* The values of the layout f.of that are part of the value of a field.
Nested(f, v) ==
    CASE f.kind \in {"part", "blob"} -> <<v>>
      [] f.kind \in {"list", "optblob"} -> v
      [] OTHER -> << >>

\* inner[j] is how the j-th of those is written.
Put(f, v, inner) ==
    CASE f.kind \in Units -> <<v>>
      [] f.kind = "flag" -> <<IF v THEN 1 ELSE 0>>
      [] f.kind \in Runs -> Prefixed(v)
      [] f.kind = "ref" -> Prefixed(v.id) \o <<v.generation>>
      [] f.kind = "part" -> inner[1]
      [] f.kind = "list" -> <<Len(v)>> \o FlattenSeq(inner)
      [] f.kind = "blob" -> Prefixed(inner[1])
      [] f.kind = "optblob" -> <<Len(v)>> \o Prefixed(FlattenSeq(inner))

PutFields(layout, v, PutInner(_, _)) ==
    FlattenSeq([i \in DOMAIN layout |->
        LET f == layout[i]
            nested == Nested(f, v[f.name])
        IN  Put(f, v[f.name], [j \in DOMAIN nested |-> PutInner(f.of, nested[j])])])

\* Layouts are nested four deep at most: a plan request holds a snapshot, a list
\* of resources in it, and a list of failure domains in each.
PutAll0(layout, v) == PutFields(layout, v, LAMBDA of, w : << >>)
PutAll1(layout, v) == PutFields(layout, v, PutAll0)
PutAll2(layout, v) == PutFields(layout, v, PutAll1)
PutAll3(layout, v) == PutFields(layout, v, PutAll2)
PutAll(layout, v) == PutFields(layout, v, PutAll3)

\* What the types of the program guarantee of a value that is written.
HasKind(f, w) ==
    /\ f.kind \in Units => w \in Nat
    /\ f.kind = "flag" => w \in BOOLEAN
    /\ f.kind \in Runs => w \in Seq(Nat)
    /\ f.kind = "ref" => /\ w = [id |-> w.id, generation |-> w.generation]
                         /\ w.id \in Seq(Nat) /\ w.generation \in Nat
                         /\ w.id = << >> => w.generation = 0
    /\ Nested(f, w) \in Seq(Range(Nested(f, w)))
    /\ f.kind = "optblob" => Len(w) <= 1

HasFields(layout, v, HasInner(_, _)) ==
    /\ v = [name \in {layout[i].name : i \in DOMAIN layout} |-> v[name]]
    /\ \A i \in DOMAIN layout :
         LET f == layout[i]
             nested == Nested(f, v[f.name])
         IN  HasKind(f, v[f.name]) /\ \A j \in DOMAIN nested : HasInner(f.of, nested[j])
HasType0(layout, v) == HasFields(layout, v, LAMBDA of, w : FALSE)
HasType1(layout, v) == HasFields(layout, v, HasType0)
HasType2(layout, v) == HasFields(layout, v, HasType1)
HasType3(layout, v) == HasFields(layout, v, HasType2)
HasType(layout, v) == HasFields(layout, v, HasType3)

(***************************************************************************)
(* Reader.  b is what is read, at the offset of the next unit.  A read     *)
(* that fails fails everything after it, so one verdict stands for the     *)
(* failed_ flag and the early returns.                                     *)
(***************************************************************************)
Failed == [ok |-> FALSE]
Got(v, at) == [ok |-> TRUE, value |-> v, at |-> at]

\* What follows a read, given its value and the next offset; and a demand on it.
Then(read, Rest(_, _)) == IF read.ok THEN Rest(read.value, read.at) ELSE Failed
Demand(read, Holds(_)) == Then(read, LAMBDA v, next : IF Holds(v) THEN read ELSE Failed)

Unit(b, at) == IF at > Len(b) THEN Failed ELSE Got(b[at], at + 1)

\* Reader::str and Reader::blob: a length within the bound and that many units.
Run(b, at, max) ==
    Then(Unit(b, at), LAMBDA length, next :
        IF length > max \/ length > Len(b) - at THEN Failed
        ELSE Got(SubSeq(b, next, at + length), next + length))

\* Mutant: the unread rest is ignored.
WholeAndMore(read, b) == read
Whole(read, b) ==       \* what was read is all there was to read
    Demand(read, LAMBDA v : read.at = Len(b) + 1)

\* One read after the other: reads[n][i] is what the n-th of them finds at offset i.
GetEach(reads, at) ==
    LET found[n \in 0 .. Len(reads)] ==
            IF n = 0 THEN Got(<< >>, at)
            ELSE Then(found[n - 1], LAMBDA values, i :
                 Then(reads[n][i], LAMBDA v, next : Got(Append(values, v), next)))
    IN  found[Len(reads)]

\* inner[u][i] is what the layout f.of finds at offset i of u.
Get(f, b, at, inner) ==
    CASE f.kind = "int" -> Unit(b, at)
      [] f.kind = "gen" -> Demand(Unit(b, at), LAMBDA v : v # 0)
      [] f.kind = "enum" -> Demand(Unit(b, at), LAMBDA v : v <= f.last)
      [] f.kind = "version" -> Demand(Unit(b, at), LAMBDA v : v = FormatVersion)
      [] f.kind = "flag" ->
            Then(Demand(Unit(b, at), LAMBDA v : v <= 1), LAMBDA v, next : Got(v = 1, next))
      [] f.kind = "id" -> Demand(Run(b, at, MaxName), LAMBDA v : v # << >>)
      [] f.kind = "optid" -> Run(b, at, MaxName)
      [] f.kind = "text" -> Run(b, at, MaxText)
      [] f.kind = "longtext" -> Run(b, at, MaxPayload)
      [] f.kind = "opt" -> Run(b, at, 1)
      [] f.kind = "ref" ->
            Then(Run(b, at, MaxName), LAMBDA id, i :
            Then(Unit(b, i), LAMBDA generation, next :
                IF id = << >> THEN Got([id |-> id, generation |-> 0], next)
                ELSE IF generation = 0 THEN Failed
                ELSE Got([id |-> id, generation |-> generation], next)))
      [] f.kind = "part" -> inner[b][at]
      [] f.kind = "list" ->
            Then(Demand(Unit(b, at), LAMBDA v : v <= MaxEntries), LAMBDA count, next :
                GetEach([n \in 1 .. count |-> inner[b]], next))
      [] f.kind = "blob" ->
            Then(Run(b, at, MaxPayload), LAMBDA units, next :
            Then(Whole(inner[units][1], units), LAMBDA v, end : Got(v, next)))
      [] f.kind = "optblob" ->
            Then(Demand(Unit(b, at), LAMBDA v : v <= 1), LAMBDA has, i :
            Then(Run(b, i, MaxPayload), LAMBDA units, next :
                IF has = 0 THEN Got(<< >>, next)
                ELSE Then(Whole(inner[units][1], units), LAMBDA v, end : Got(<<v>>, next))))

Record(layout, values) ==
    [name \in {layout[i].name : i \in DOMAIN layout} |->
        values[CHOOSE i \in DOMAIN layout : layout[i].name = name]]

GetFields(layout, b, at, GetInner(_, _, _)) ==
    LET inner(f) == [u \in Seq(Nat) |-> [i \in Nat |-> GetInner(f.of, u, i)]]
        reads == [n \in DOMAIN layout |-> [i \in Nat |-> Get(layout[n], b, i, inner(layout[n]))]]
    IN  Then(GetEach(reads, at), LAMBDA values, next : Got(Record(layout, values), next))

GetAll0(layout, b, at) == GetFields(layout, b, at, LAMBDA of, u, i : Failed)
GetAll1(layout, b, at) == GetFields(layout, b, at, GetAll0)
GetAll2(layout, b, at) == GetFields(layout, b, at, GetAll1)
GetAll3(layout, b, at) == GetFields(layout, b, at, GetAll2)
GetAll(layout, b, at) == GetFields(layout, b, at, GetAll3)

(***************************************************************************)
(* Parts shared by several messages                                        *)
(***************************************************************************)
\* MutationBinding.
BindingWritten ==
    Id("publisher") \o Gen("publisher_boot") \o Gen("coordinator_incarnation")
    \o Gen("coordinator_epoch") \o Id("attempt") \o Gen("attempt_generation")
BindingRead ==
    Id("publisher") \o Num("publisher_boot") \o Gen("coordinator_incarnation")
    \o Num("coordinator_epoch") \o Id("attempt") \o Gen("attempt_generation")

\* ChurnReport.
ChurnWritten ==
    Enum("decision", LastChurn)
    \o Nums(<<"incumbent_score", "proposal_score", "improvement_permille",
              "required_improvement_permille", "moved_bandwidth", "total_bandwidth",
              "moved_permille", "max_moved_permille", "demands_changed",
              "max_affected_demands", "paths_added", "paths_removed",
              "failure_domains_changed", "operational_risk_permille">>)
    \o Text("rationale")
ChurnRead ==
    Enum("decision", LastChurn)
    \o Nums(<<"incumbent_score", "proposal_score", "improvement_permille",
              "required_improvement_permille", "moved_bandwidth", "total_bandwidth",
              "moved_permille", "max_moved_permille", "demands_changed",
              "max_affected_demands", "paths_added", "paths_removed",
              "failure_domains_changed", "operational_risk_permille">>)
    \o Text("rationale")

ProvenanceWritten ==
    Id("source") \o Nums(<<"source_generation", "observed_tick", "evidence_digest">>)
    \o Text("detail")
ProvenanceRead ==
    Id("source") \o Nums(<<"source_generation", "observed_tick", "evidence_digest">>)
    \o Text("detail")

IntervalWritten == Nums(<<"start_tick", "end_tick">>) \o Flag("open_ended")
IntervalRead == Nums(<<"start_tick", "end_tick">>) \o Flag("open_ended")

(***************************************************************************)
(* Snapshots (model.cpp)                                                   *)
(***************************************************************************)
ResourceWritten ==
    Id("id") \o Gen("generation") \o Nums(<<"usable_capacity", "committed_load">>)
    \o Ids("failure_domains") \o Part("provenance", ProvenanceWritten)
ResourceRead ==
    Id("id") \o Gen("generation") \o Nums(<<"usable_capacity", "committed_load">>)
    \o Ids("failure_domains") \o Part("provenance", ProvenanceRead)

ReservationWritten ==
    Id("id") \o Gen("generation") \o Ids("paths") \o Ids("resources") \o Num("bandwidth")
    \o Enum("preemptibility", LastPreemptibility) \o Num("priority") \o OptId("owner")
    \o Part("effective", IntervalWritten) \o Part("provenance", ProvenanceWritten)
ReservationRead ==
    Id("id") \o Gen("generation") \o Ids("paths") \o Ids("resources") \o Num("bandwidth")
    \o Enum("preemptibility", LastPreemptibility) \o Num("priority") \o OptId("owner")
    \o Part("effective", IntervalRead) \o Part("provenance", ProvenanceRead)

PathWritten ==
    Id("id") \o Gen("generation") \o Given("authority") \o Given("candidate_set")
    \o Ids("resources") \o Ids("failure_domains") \o List("policy_labels", Text("label"))
    \o Num("cost") \o Opt("latency_micros") \o Enum("scope", LastScope)
    \o OptId("scope_tenant") \o OptId("scope_service_class")
    \o Part("provenance", ProvenanceWritten)
PathRead ==
    Id("id") \o Gen("generation") \o Given("authority") \o Given("candidate_set")
    \o Ids("resources") \o Ids("failure_domains") \o List("policy_labels", Text("label"))
    \o Num("cost") \o Opt("latency_micros") \o Enum("scope", LastScope)
    \o OptId("scope_tenant") \o OptId("scope_service_class")
    \o Part("provenance", ProvenanceRead)

\* A label's key is a name (validate_structure) and is read as a bounded text.
DemandWritten ==
    Id("id") \o Gen("generation") \o Part("provenance", ProvenanceWritten)
    \o OptId("tenant") \o OptId("service_class")
    \o Nums(<<"minimum_bandwidth", "desired_bandwidth", "maximum_bandwidth", "priority">>)
    \o Opt("latency_bound_micros") \o Opt("path_cost_ceiling") \o Given("candidate_set")
    \o Ids("allowed_paths") \o Ids("forbidden_paths") \o Ids("affinity")
    \o Ids("anti_affinity") \o Ids("required_failure_domains")
    \o Num("min_distinct_failure_domains") \o Ids("reservation_bindings")
    \o Part("effective", IntervalWritten) \o Enum("preemptibility", LastPreemptibility)
    \o List("labels", Id("key") \o Text("value"))
DemandRead ==
    Id("id") \o Gen("generation") \o Part("provenance", ProvenanceRead)
    \o OptId("tenant") \o OptId("service_class")
    \o Nums(<<"minimum_bandwidth", "desired_bandwidth", "maximum_bandwidth", "priority">>)
    \o Opt("latency_bound_micros") \o Opt("path_cost_ceiling") \o Given("candidate_set")
    \o Ids("allowed_paths") \o Ids("forbidden_paths") \o Ids("affinity")
    \o Ids("anti_affinity") \o Ids("required_failure_domains")
    \o Num("min_distinct_failure_domains") \o Ids("reservation_bindings")
    \o Part("effective", IntervalRead) \o Enum("preemptibility", LastPreemptibility)
    \o List("labels", OptId("key") \o Text("value"))

PolicyWritten ==
    Id("id") \o Gen("generation") \o Part("provenance", ProvenanceWritten)
    \o Flags(<<"allow_preemption", "require_minimums", "allow_degraded_commit",
               "require_failure_domain_diversity">>)
    \o Nums(<<"max_utilization_permille", "churn_improvement_threshold_permille",
              "churn_max_moved_bandwidth_permille", "churn_max_operational_risk_permille",
              "churn_max_affected_demands", "max_paths_per_demand">>)
    \o Ids("allowed_tenants") \o Ids("allowed_service_classes")
PolicyRead ==
    Id("id") \o Gen("generation") \o Part("provenance", ProvenanceRead)
    \o Flags(<<"allow_preemption", "require_minimums", "allow_degraded_commit",
               "require_failure_domain_diversity">>)
    \o Nums(<<"max_utilization_permille", "churn_improvement_threshold_permille",
              "churn_max_moved_bandwidth_permille", "churn_max_operational_risk_permille",
              "churn_max_affected_demands", "max_paths_per_demand">>)
    \o Ids("allowed_tenants") \o Ids("allowed_service_classes")

ObjectiveWritten ==
    Id("id") \o Gen("generation") \o Part("provenance", ProvenanceWritten)
    \o List("terms", Enum("term", LastTerm) \o Num("weight"))
ObjectiveRead ==
    Id("id") \o Gen("generation") \o Part("provenance", ProvenanceRead)
    \o List("terms", Enum("term", LastTerm) \o Num("weight"))

Generations ==
    Gen("fabric_epoch") \o Gen("topology_generation") \o Gen("link_state_generation")
    \o Gen("path_authority_generation") \o Gen("failure_domain_generation")

SnapshotWritten ==
    Version \o Generations \o Part("provenance", ProvenanceWritten)
    \o Part("capacity", Id("id") \o Gen("generation") \o Gen("fabric_epoch")
                        \o Part("provenance", ProvenanceWritten)
                        \o List("resources", ResourceWritten))
    \o Part("reservations", Id("id") \o Gen("generation") \o Gen("fabric_epoch")
                            \o Part("provenance", ProvenanceWritten)
                            \o List("reservations", ReservationWritten))
    \o Part("policy", PolicyWritten) \o Part("objective", ObjectiveWritten)
    \o Given("candidate_set") \o List("demands", DemandWritten) \o List("paths", PathWritten)
    \o Num("evaluation_tick")
SnapshotRead ==
    Version \o Generations \o Part("provenance", ProvenanceRead)
    \o Part("capacity", Id("id") \o Gen("generation") \o Gen("fabric_epoch")
                        \o Part("provenance", ProvenanceRead)
                        \o List("resources", ResourceRead))
    \o Part("reservations", Id("id") \o Gen("generation") \o Gen("fabric_epoch")
                            \o Part("provenance", ProvenanceRead)
                            \o List("reservations", ReservationRead))
    \o Part("policy", PolicyRead) \o Part("objective", ObjectiveRead)
    \o Given("candidate_set") \o List("demands", DemandRead) \o List("paths", PathRead)
    \o Num("evaluation_tick")

(***************************************************************************)
(* Incumbents on the wire (protocol.cpp)                                   *)
(***************************************************************************)
AllocationWritten ==
    Version
    \o List("demands",
            Id("demand") \o Gen("generation")
            \o Nums(<<"minimum", "desired", "maximum", "granted", "reserved", "effective">>)
            \o List("shares", Id("path") \o Gen("generation") \o Nums(<<"granted", "reserved">>)))
    \o Nums(<<"total_granted", "total_reserved">>) \o Flag("degraded")
AllocationRead ==
    Version
    \o List("demands",
            Id("demand") \o Gen("generation")
            \o Nums(<<"minimum", "desired", "maximum", "granted", "reserved", "effective">>)
            \o List("shares", Id("path") \o Gen("generation") \o Nums(<<"granted", "reserved">>)))
    \o Nums(<<"total_granted", "total_reserved">>) \o Flag("degraded")

(***************************************************************************)
(* Durable records (persist.cpp)                                           *)
(***************************************************************************)
AuthorityWritten ==
    Generations \o Given("capacity") \o Given("reservations") \o Given("policy")
    \o Given("objective") \o Given("candidate_set")
    \o Nums(<<"demand_set_digest", "candidate_set_digest", "resource_catalog_digest",
              "reservation_set_digest", "policy_digest", "objective_digest">>)
AuthorityRead ==
    Generations \o Given("capacity") \o Given("reservations") \o Given("policy")
    \o Given("objective") \o Given("candidate_set")
    \o Nums(<<"demand_set_digest", "candidate_set_digest", "resource_catalog_digest",
              "reservation_set_digest", "policy_digest", "objective_digest">>)

\* The path shares of one demand.  The encoder writes as many as the solver gave
\* it: one for each path used, however many paths a policy without a path limit
\* makes eligible.
ShareWritten ==
    Id("path") \o Gen("generation")
    \o Nums(<<"minimum", "desired", "granted", "reserved", "delta_from_incumbent">>)
    \o Flag("newly_used")
ShareRead ==
    Id("path") \o Gen("generation")
    \o Nums(<<"minimum", "desired", "granted", "reserved", "delta_from_incumbent">>)
    \o Flag("newly_used")

GrantedWritten ==
    Id("demand") \o Gen("generation")
    \o Nums(<<"minimum", "desired", "maximum", "granted", "reserved", "effective",
              "observed_applied">>)
    \o Flag("applied_known")
    \o Nums(<<"shortfall_against_minimum", "shortfall_against_desired">>)
    \o List("shares", ShareWritten)
GrantedRead ==
    Id("demand") \o Gen("generation")
    \o Nums(<<"minimum", "desired", "maximum", "granted", "reserved", "effective",
              "observed_applied">>)
    \o Flag("applied_known")
    \o Nums(<<"shortfall_against_minimum", "shortfall_against_desired">>)
    \o List("shares", ShareRead)

UtilizationWritten ==
    Id("resource") \o Gen("generation")
    \o Nums(<<"usable_capacity", "committed_load", "reserved", "available", "allocated",
              "headroom", "utilization_permille">>)
    \o Flag("saturated")
UtilizationRead ==
    Id("resource") \o Gen("generation")
    \o Nums(<<"usable_capacity", "committed_load", "reserved", "available", "allocated",
              "headroom", "utilization_permille">>)
    \o Flag("saturated")

ConstraintWritten ==
    Enum("kind", LastConstraint) \o Text("subject") \o OptId("demand") \o OptId("resource")
    \o OptId("path") \o Nums(<<"required", "available", "slack">>) \o Text("detail")
ConstraintRead ==
    Enum("kind", LastConstraint) \o Text("subject") \o OptId("demand") \o OptId("resource")
    \o OptId("path") \o Nums(<<"required", "available", "slack">>) \o Text("detail")

\* The churn report of a plan leaves out the bounds it was judged against.
JudgedWritten ==
    Enum("decision", LastChurn)
    \o Nums(<<"incumbent_score", "proposal_score", "improvement_permille", "moved_bandwidth",
              "moved_permille", "demands_changed", "paths_added", "paths_removed",
              "failure_domains_changed", "operational_risk_permille">>)
    \o Text("rationale")
JudgedRead ==
    Enum("decision", LastChurn)
    \o Nums(<<"incumbent_score", "proposal_score", "improvement_permille", "moved_bandwidth",
              "moved_permille", "demands_changed", "paths_added", "paths_removed",
              "failure_domains_changed", "operational_risk_permille">>)
    \o Text("rationale")

PlanWritten ==
    Version \o Id("id") \o Gen("generation") \o Enum("state", LastState)
    \o Enum("applicability", LastApplicability) \o Id("attempt") \o Gen("attempt_generation")
    \o Id("publisher") \o Gen("publisher_boot") \o Gen("coordinator_incarnation")
    \o Part("authority", AuthorityWritten)
    \o List("components", Enum("term", LastTerm) \o Nums(<<"weight", "raw", "weighted">>))
    \o List("alternatives", Text("subject") \o Text("reason") \o Num("delta"))
    \o Text("summary") \o Enum("status", LastFeasibility) \o List("binding", ConstraintWritten)
    \o List("demands", GrantedWritten) \o List("resources", UtilizationWritten)
    \o Nums(<<"total_granted", "total_reserved">>) \o Flag("degraded")
    \o Part("churn", JudgedWritten) \o Num("objective_score")
    \o OptId("explanation") \o Num("explanation_digest")
    \o Ref("supersedes") \o Ref("superseded_by") \o Ref("commit")
    \o Nums(<<"committed_tick", "declared_tick", "proposed_tick">>)
PlanRead ==
    Version \o Id("id") \o Gen("generation") \o Enum("state", LastState)
    \o Enum("applicability", LastApplicability) \o Id("attempt") \o Gen("attempt_generation")
    \o Id("publisher") \o Gen("publisher_boot") \o Gen("coordinator_incarnation")
    \o Part("authority", AuthorityRead)
    \o List("components", Enum("term", LastTerm) \o Nums(<<"weight", "raw", "weighted">>))
    \o List("alternatives", Text("subject") \o Text("reason") \o Num("delta"))
    \o Text("summary") \o Enum("status", LastFeasibility) \o List("binding", ConstraintRead)
    \o List("demands", GrantedRead) \o List("resources", UtilizationRead)
    \o Nums(<<"total_granted", "total_reserved">>) \o Flag("degraded")
    \o Part("churn", JudgedRead) \o Num("objective_score")
    \o OptId("explanation") \o Num("explanation_digest")
    \o Ref("supersedes") \o Ref("superseded_by") \o Ref("commit")
    \o Nums(<<"committed_tick", "declared_tick", "proposed_tick">>)

FenceWritten ==
    Version \o Id("publisher") \o Gen("boot") \o Gen("incarnation") \o Text("reason")
    \o Num("tick")
\* Mutant: two integers change places.
FenceReadSwapped ==
    Version \o Id("publisher") \o Gen("incarnation") \o Gen("boot") \o Text("reason")
    \o Num("tick")
FenceRead ==
    Version \o Id("publisher") \o Gen("boot") \o Gen("incarnation") \o Text("reason")
    \o Num("tick")

EpochWritten ==
    Version \o Id("coordinator") \o Gen("incarnation") \o Gen("boot") \o Gen("epoch")
EpochRead ==
    Version \o Id("coordinator") \o Gen("incarnation") \o Gen("boot") \o Gen("epoch")

(***************************************************************************)
(* Protocol messages (protocol.cpp)                                        *)
(***************************************************************************)
HelloRequestWritten == Gen("protocol_version")
HelloRequestRead == Num("protocol_version")

HelloResponseWritten ==
    Gen("protocol_version") \o Gen("coordinator_epoch") \o Gen("coordinator_incarnation")
    \o Gen("coordinator_boot") \o Flag("accepting")
HelloResponseRead ==
    Nums(<<"protocol_version", "coordinator_epoch">>) \o Gen("coordinator_incarnation")
    \o Num("coordinator_boot") \o Flag("accepting")

RegisterRequestWritten ==
    Id("publisher") \o Gen("boot") \o Gen("coordinator_incarnation") \o Gen("coordinator_epoch")
    \o Text("description")
RegisterRequestRead ==
    Id("publisher") \o Num("boot") \o Gen("coordinator_incarnation") \o Num("coordinator_epoch")
    \o Text("description")

RegisterResponseWritten ==
    Flags(<<"accepted", "fenced">>) \o Gen("coordinator_epoch")
    \o Gen("coordinator_incarnation") \o Text("detail")
RegisterResponseRead ==
    Flags(<<"accepted", "fenced">>) \o Num("coordinator_epoch")
    \o Gen("coordinator_incarnation") \o Text("detail")

\* The snapshot and the incumbent travel as blobs that the handler decodes.
PlanRequestWritten ==
    Part("binding", BindingWritten) \o Id("plan_id") \o Blob("snapshot", SnapshotWritten)
    \o Flag("allow_degraded") \o OptBlob("incumbent", AllocationWritten) \o Ref("incumbent_ref")
PlanRequestRead ==
    Part("binding", BindingRead) \o Id("plan_id") \o Blob("snapshot", SnapshotRead)
    \o Flag("allow_degraded") \o OptBlob("incumbent", AllocationRead) \o Ref("incumbent_ref")

PlanResponseWritten ==
    Num("code") \o Text("detail") \o Ref("plan") \o Enum("state", LastState)
    \o Enum("applicability", LastApplicability) \o Enum("feasibility", LastFeasibility)
    \o Nums(<<"objective_score", "plan_digest", "explanation_digest">>)
    \o LongText("explanation_json") \o Flag("superseded_incumbent") \o Ref("incumbent")
PlanResponseRead ==
    Num("code") \o Text("detail") \o Ref("plan") \o Enum("state", LastState)
    \o Enum("applicability", LastApplicability) \o Enum("feasibility", LastFeasibility)
    \o Nums(<<"objective_score", "plan_digest", "explanation_digest">>)
    \o LongText("explanation_json") \o Flag("superseded_incumbent") \o Ref("incumbent")

CommitRequestWritten ==
    Part("binding", BindingWritten) \o Given("plan") \o Id("commit") \o Gen("commit_generation")
CommitRequestRead ==
    Part("binding", BindingRead) \o Given("plan") \o Id("commit") \o Gen("commit_generation")

CommitResponseWritten ==
    Num("code") \o Text("detail") \o Ref("plan") \o Enum("state", LastState)
    \o Nums(<<"commit_generation", "commit_digest">>) \o Flag("idempotent_replay")
    \o Part("churn", ChurnWritten)
\* Mutant: two integers change places.
CommitResponseReadSwapped ==
    Num("code") \o Text("detail") \o Ref("plan") \o Enum("state", LastState)
    \o Nums(<<"commit_digest", "commit_generation">>) \o Flag("idempotent_replay")
    \o Part("churn", ChurnRead)
CommitResponseRead ==
    Num("code") \o Text("detail") \o Ref("plan") \o Enum("state", LastState)
    \o Nums(<<"commit_generation", "commit_digest">>) \o Flag("idempotent_replay")
    \o Part("churn", ChurnRead)

SupersedeRequestWritten ==
    Part("binding", BindingWritten) \o Given("incumbent") \o Given("replacement")
SupersedeRequestRead ==
    Part("binding", BindingRead) \o Given("incumbent") \o Given("replacement")
SupersedeResponseWritten ==
    Num("code") \o Text("detail") \o Ref("incumbent") \o Ref("replacement")
SupersedeResponseRead ==
    Num("code") \o Text("detail") \o Ref("incumbent") \o Ref("replacement")

RetireRequestWritten == Part("binding", BindingWritten) \o Given("plan")
RetireRequestRead == Part("binding", BindingRead) \o Given("plan")
RetireResponseWritten ==
    Num("code") \o Text("detail") \o Ref("plan") \o Enum("state", LastState)
RetireResponseRead ==
    Num("code") \o Text("detail") \o Ref("plan") \o Enum("state", LastState)

QueryRequestWritten == Given("plan") \o Flag("include_explanation")
QueryRequestRead == Given("plan") \o Flag("include_explanation")
QueryResponseWritten ==
    Num("code") \o Text("detail") \o Enum("applicability", LastApplicability)
    \o LongText("explanation_json") \o Blob("plan", PlanWritten)
QueryResponseRead ==
    Num("code") \o Text("detail") \o Enum("applicability", LastApplicability)
    \o LongText("explanation_json") \o Blob("plan", PlanRead)

ErrorResponseWritten == Num("code") \o Text("detail")
ErrorResponseRead == Num("code") \o Text("detail")

Written ==
    [hello_request |-> HelloRequestWritten, hello_response |-> HelloResponseWritten,
     register_publisher_request |-> RegisterRequestWritten,
     register_publisher_response |-> RegisterResponseWritten,
     plan_request |-> PlanRequestWritten, plan_response |-> PlanResponseWritten,
     commit_request |-> CommitRequestWritten, commit_response |-> CommitResponseWritten,
     supersede_request |-> SupersedeRequestWritten,
     supersede_response |-> SupersedeResponseWritten,
     retire_request |-> RetireRequestWritten, retire_response |-> RetireResponseWritten,
     query_request |-> QueryRequestWritten, query_response |-> QueryResponseWritten,
     error_response |-> ErrorResponseWritten,
     plan |-> PlanWritten, fence |-> FenceWritten, coordinator_epoch |-> EpochWritten]

Read ==
    [hello_request |-> HelloRequestRead, hello_response |-> HelloResponseRead,
     register_publisher_request |-> RegisterRequestRead,
     register_publisher_response |-> RegisterResponseRead,
     plan_request |-> PlanRequestRead, plan_response |-> PlanResponseRead,
     commit_request |-> CommitRequestRead, commit_response |-> CommitResponseRead,
     supersede_request |-> SupersedeRequestRead, supersede_response |-> SupersedeResponseRead,
     retire_request |-> RetireRequestRead, retire_response |-> RetireResponseRead,
     query_request |-> QueryRequestRead, query_response |-> QueryResponseRead,
     error_response |-> ErrorResponseRead,
     plan |-> PlanRead, fence |-> FenceRead, coordinator_epoch |-> EpochRead]

Encode(type, message) == PutAll(Written[type], message)

\* decode_strict and the ends of the other decoders: every field, then at_end.
Decode(type, payload) == Whole(GetAll(Read[type], payload, 1), payload)
====
