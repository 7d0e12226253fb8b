-------------------------- MODULE CapacityRegister --------------------------
(***************************************************************************)
(* Drivers and capacity assets, the assignments that pair a driver with a  *)
(* vehicle, and the records kept on both: blocks, availability and the     *)
(* qualification dossier (apps/api/src/capacity, migrations 0011 and 0017).*)
(* An update, an assignment and a close read first and write later, with   *)
(* no lock in between: they are two steps.  Everything else checks what    *)
(* never goes away and writes one row: one step.  Carriers are active.     *)
(***************************************************************************)
EXTENDS Integers, Sequences, FiniteSets

CONSTANTS Drivers, Assets, Carriers, NoCarrier, CapacityCalls, NoWork, Keys,
          MaxAssignments, MaxBlocks, MaxFiled

VARIABLES subject,     \* [Subjects -> SubjectRow]: drivers, capacity_assets
          assignment,  \* Seq(AssignmentRow): capacity_assignments
          block,       \* Seq(BlockRow): driver_blocks, capacity_asset_blocks
          filed,       \* the other rows of the dossier
          work         \* [CapacityCalls -> NoWork or a write to commit]

capacityVars == <<subject, assignment, block, filed, work>>

Subjects == Drivers \cup Assets

(* eligible: a qualified and active driver; an active asset that is a      *)
(* vehicle.                                                                *)
SubjectRow == [eligible : BOOLEAN, carrier : Carriers \cup {NoCarrier}]

AssignmentRow == [driver : Drivers, vehicle : Assets, carrier : Carriers,
                  status : {"active", "ended", "cancelled"}]

BlockRow == [owner : Subjects, released : BOOLEAN]

DriverKinds == {"document", "qualification", "course", "unavailability",
                "contact", "rating", "availability"}

AssetKinds == {"document", "plan", "maintenance", "item", "insurance", "inspection",
               "unavailability", "location", "capabilities", "availability"}

(* key: what tells apart the rows of a kind (code, policy number), or what *)
(* such a row hangs from (the plan of a maintenance).                      *)
Filing == [kind : DriverKinds \cup AssetKinds, owner : Subjects, key : Keys]

CapacityInit ==
    /\ subject \in [Subjects -> [eligible : {TRUE}, carrier : {NoCarrier}]]
    /\ assignment = <<>>
    /\ block = <<>>
    /\ filed = {}
    /\ work = [k \in CapacityCalls |-> NoWork]

-----------------------------------------------------------------------------
Begin(k, write) == /\ work[k] = NoWork
                   /\ work' = [work EXCEPT ![k] = write]
                   /\ UNCHANGED <<subject, assignment, block, filed>>

(* update of a driver or an asset: every column is written back, what the  *)
(* patch leaves alone as it was read.                                      *)
UpdateSubject(k, s, row) ==
    /\ \/ row = subject[s]
       \/ \E c \in Carriers \cup {NoCarrier} : row = [subject[s] EXCEPT !.carrier = c]
       \/ row = [subject[s] EXCEPT !.eligible = ~@]
    /\ Begin(k, [op |-> "update", of |-> s, row |-> row])

CommitUpdate(k) ==
    /\ work[k] # NoWork /\ work[k].op = "update"
    /\ subject' = [subject EXCEPT ![work[k].of] = work[k].row]
    /\ work' = [work EXCEPT ![k] = NoWork]
    /\ UNCHANGED <<assignment, block, filed>>

(* validateDriver and validateVehicle.                                     *)
MayCarryFor(s, c) ==
    subject[s].eligible /\ subject[s].carrier \in {c, NoCarrier}

CreateAssignment(k, d, v, c) ==
    /\ Len(assignment) < MaxAssignments
    /\ MayCarryFor(d, c) /\ MayCarryFor(v, c)
    /\ Begin(k, [op |-> "assign",
                 row |-> [driver |-> d, vehicle |-> v, carrier |-> c,
                          status |-> "active"]])

ActiveAssignments == {i \in DOMAIN assignment : assignment[i].status = "active"}

(* capacity_assignments_active_driver_unique and _active_vehicle_unique.   *)
Unassigned(row) ==
    \A i \in ActiveAssignments : /\ assignment[i].driver # row.driver
                                 /\ assignment[i].vehicle # row.vehicle

CommitAssignment(k) ==
    /\ work[k] # NoWork /\ work[k].op = "assign"
    /\ assignment' = IF Unassigned(work[k].row) THEN Append(assignment, work[k].row)
                                                ELSE assignment
    /\ work' = [work EXCEPT ![k] = NoWork]
    /\ UNCHANGED <<subject, block, filed>>

CloseAssignment(k, i, status) ==
    /\ i \in ActiveAssignments
    /\ Begin(k, [op |-> "close", of |-> i, status |-> status])

(* A slip: the UPDATE does not ask for status='active' again.              *)
CommitCloseUnchecked(k) ==
    /\ work[k] # NoWork /\ work[k].op = "close"
    /\ assignment' = [assignment EXCEPT ![work[k].of].status = work[k].status]
    /\ work' = [work EXCEPT ![k] = NoWork]
    /\ UNCHANGED <<subject, block, filed>>

(* A close that lost the race writes nothing and answers with the row.     *)
CommitClose(k) ==
    /\ work[k] # NoWork /\ work[k].op = "close"
    /\ assignment' = IF work[k].of \in ActiveAssignments
                     THEN [assignment EXCEPT ![work[k].of].status = work[k].status]
                     ELSE assignment
    /\ work' = [work EXCEPT ![k] = NoWork]
    /\ UNCHANGED <<subject, block, filed>>

-----------------------------------------------------------------------------
SetBlocks(rows) == block' = rows /\ UNCHANGED <<subject, assignment, filed, work>>

CreateBlock(s) == /\ Len(block) < MaxBlocks
                  /\ SetBlocks(Append(block, [owner |-> s, released |-> FALSE]))

ReleaseBlock(s, i) == /\ i \in DOMAIN block
                      /\ block[i].owner = s /\ ~block[i].released
                      /\ SetBlocks([block EXCEPT ![i].released = TRUE])

-----------------------------------------------------------------------------
(* The dossier.                                                            *)
Row(kind, s, key) == [kind |-> kind, owner |-> s, key |-> key]

File(row) == /\ Cardinality(filed) < MaxFiled
             /\ filed' = filed \cup {row}
             /\ UNCHANGED <<subject, assignment, block, work>>

(* ON CONFLICT DO UPDATE: one row for each owner, the last call's.         *)
Upsert(row) ==
    /\ filed' = {f \in filed : f.kind # row.kind \/ f.owner # row.owner} \cup {row}
    /\ Cardinality(filed') <= MaxFiled
    /\ UNCHANGED <<subject, assignment, block, work>>

CreateDriverDocument(d, type) == File(Row("document", d, type))

(* driver_qualifications_tenant_driver_code_unique                         *)
CreateDriverQualification(d, code) ==
    /\ Row("qualification", d, code) \notin filed
    /\ File(Row("qualification", d, code))

CreateDriverCourse(d, course) == File(Row("course", d, course))

SetDriverAvailability(d, status) == Upsert(Row("availability", d, status))

CreateDriverUnavailability(d, period) == File(Row("unavailability", d, period))

(* Active primary contacts, of which a driver has one (..._primary_unique);*)
(* any number of others is left out.                                       *)
CreateDriverEmergencyContact(d, name) ==
    /\ \A f \in filed : f.kind # "contact" \/ f.owner # d
    /\ File(Row("contact", d, name))

CreateDriverRating(d, dimension) == File(Row("rating", d, dimension))

SetAssetCapabilities(a, capabilities) == Upsert(Row("capabilities", a, capabilities))

CreateAssetDocument(a, type) == File(Row("document", a, type))

CreateMaintenancePlan(a, plan) == File(Row("plan", a, plan))

(* requireOwnedChild: the plan is of the same asset.                       *)
CreateMaintenance(a, plan) ==
    /\ Row("plan", a, plan) \in filed
    /\ File(Row("maintenance", a, plan))

CreateMaintenanceItem(a, maintenance) ==
    /\ Row("maintenance", a, maintenance) \in filed
    /\ File(Row("item", a, maintenance))

(* capacity_asset_insurances_tenant_policy_unique: of the whole tenant.    *)
CreateInsurance(a, number) ==
    /\ \A f \in filed : f.kind # "insurance" \/ f.key # number
    /\ File(Row("insurance", a, number))

CreateInspection(a, inspection) == File(Row("inspection", a, inspection))

SetAssetAvailability(a, status) == Upsert(Row("availability", a, status))

CreateAssetUnavailability(a, period) == File(Row("unavailability", a, period))

CreateAssetLocation(a, position) == File(Row("location", a, position))

DossierNext ==
    \/ \E s \in Subjects : CreateBlock(s) \/ \E i \in DOMAIN block : ReleaseBlock(s, i)
    \/ \E d \in Drivers, x \in Keys :
          \/ CreateDriverDocument(d, x) \/ CreateDriverQualification(d, x)
          \/ CreateDriverCourse(d, x) \/ SetDriverAvailability(d, x)
          \/ CreateDriverUnavailability(d, x) \/ CreateDriverEmergencyContact(d, x)
          \/ CreateDriverRating(d, x)
    \/ \E a \in Assets, x \in Keys :
          \/ SetAssetCapabilities(a, x) \/ CreateAssetDocument(a, x)
          \/ CreateMaintenancePlan(a, x) \/ CreateMaintenance(a, x)
          \/ CreateMaintenanceItem(a, x) \/ CreateInsurance(a, x)
          \/ CreateInspection(a, x) \/ SetAssetAvailability(a, x)
          \/ CreateAssetUnavailability(a, x) \/ CreateAssetLocation(a, x)

CapacityNext ==
    \/ \E k \in CapacityCalls :
          \/ \E s \in Subjects, row \in SubjectRow : UpdateSubject(k, s, row)
          \/ \E d \in Drivers, v \in Assets, c \in Carriers : CreateAssignment(k, d, v, c)
          \/ \E i \in DOMAIN assignment, status \in {"ended", "cancelled"} :
                CloseAssignment(k, i, status)
          \/ CommitUpdate(k) \/ CommitAssignment(k) \/ CommitClose(k)
    \/ DossierNext

CapacitySpec == CapacityInit /\ [][CapacityNext]_capacityVars

-----------------------------------------------------------------------------
CapacityTypeOK ==
    /\ subject \in [Subjects -> SubjectRow]
    /\ assignment \in Seq(AssignmentRow)
    /\ block \in Seq(BlockRow)
    /\ filed \subseteq Filing
    /\ \A k \in CapacityCalls :
          work[k] = NoWork \/ work[k].op \in {"update", "assign", "close"}

(* An assignment that was closed keeps the end it was given, and a block   *)
(* that was released stays released, although a second call had read the   *)
(* row before: no answer a caller got is taken back.                       *)
EndedStaysEnded ==
    [][/\ \A i \in DOMAIN assignment :
             assignment[i].status # "active" => assignment'[i] = assignment[i]
       /\ \A i \in DOMAIN block : block[i].released => block'[i] = block[i]]_capacityVars
=============================================================================
