----------------------------- MODULE MCPlanning -----------------------------
(***************************************************************************)
(* One instance of every component that holds what is planned with: the    *)
(* demand of a request, the master data, the table of rate windows, and    *)
(* the forms that become rows.                                             *)
(* An initial state chooses the part that moves; the others stand still.   *)
(***************************************************************************)
EXTENDS FreightDemand, MasterData, ApiRateLimit, RecordAdmission

CONSTANTS MaxVersion,  \* versions of commercial terms
          MaxNumber,   \* numbers of a sequence
          FirstParty   \* the party that is updated

VARIABLE part          \* which part moves

FreightParts == {"route", "terms", "cargo", "lanes"}
MasterParts == {"parties", "directory", "catalogues", "numbers"}
Parts == FreightParts \cup MasterParts \cup {"rate", "forms"}

LimitValue == [k \in Kinds |-> IF k = "sensitive" THEN 1 ELSE 2]

-----------------------------------------------------------------------------
(* Bounds.                                                                 *)
Ops == {planCall[k].op : k \in PlanCalls} \ {"none"}

\* Normalised rows: items with their packages, or one table alone.
FreightBound ==
  /\ terms'.version <= MaxVersion
  /\ CASE part = "route" -> UNCHANGED <<terms, lane, children>> /\ Ops' \subseteq {"route", "request"}
                            /\ \A k \in PlanCalls : planCall'[k].op = "request" =>
                                 planCall'[k].to.status = request.status
       [] part = "terms" -> UNCHANGED <<request, lane, children>> /\ Ops' \subseteq {"terms", "status"}
       [] part = "cargo" -> /\ UNCHANGED <<request, lane>> /\ Ops' \subseteq {"profile"}
                            /\ \/ \A t \in {"requirements", "references"} : Present(t)' = {}
                               \/ \E t \in Tables : \A u \in Tables \ {t} : Present(u)' = {}
       [] part = "lanes" -> UNCHANGED <<request, children>> /\ Ops' \subseteq {"lane"}

\* A patch of one column, or of the roles.
Narrow(call) ==
  call.op = "party" =>
    Cardinality({c \in {"tax", "active"} : call.row[c] # call.before.row[c]}
                  \cup (IF call.roles # Keep THEN {"roles"}
                        ELSE IF call.row.homologation # call.before.row.homologation
                             THEN {"homologation"} ELSE {})) = 1

MasterBound ==
  CASE part = "parties" ->
         /\ UNCHANGED <<address, contact, entry, linked, next>>
         /\ \A k \in MasterCalls : masterCall'[k].op \in {"none", "party"} /\ Narrow(masterCall'[k])
         /\ \A k \in MasterCalls : masterCall'[k] # NoMasterCall => masterCall'[k].of = FirstParty
         /\ \A p \in Parties : party[p] = Keep /\ party'[p] # Keep =>
              /\ party'[p].roles = IF p = FirstParty THEN PartnerRoles ELSE Roles
              /\ party'[p].row.homologation = "pending"
    [] part = "directory" ->
         /\ UNCHANGED <<party, entry, linked>>
         /\ \A k \in MasterCalls : masterCall'[k].op \in {"none", "address", "contact"}
    [] part = "catalogues" -> /\ UNCHANGED <<party, address, contact, masterCall>>
                              /\ (linked' # linked => \A t \in Catalogs, e \in Entries : entry[t][e] = Keep)
                              /\ Cardinality({t \in Catalogs : \E e \in Entries : entry'[t][e] # Keep}) <= 1
                              /\ Cardinality({t \in LinkTables : \E l \in Links : linked'[t][l] # Keep}) <= 1
    [] part = "numbers" -> /\ UNCHANGED <<party, address, contact, entry, linked>>
                           /\ \A s \in Scopes : next'[s] <= MaxNumber + 1
                           /\ \A k \in MasterCalls : masterCall'[k].op \in {"none", "number"}

\* A window counts one request past its limit.
RateBound == \A b \in Tracked(window') : window'[b].count <= Limit[b[2]] + 1

-----------------------------------------------------------------------------
MCInit ==
  /\ part \in Parts
  /\ FreightInit
  /\ request.status = "ready_for_quote"
  /\ MasterInit
  /\ RateInit
  /\ AdmissionInit /\ (part # "forms" => desk.table = "drivers")

MCNext ==
  /\ UNCHANGED part
  /\ IF part \in FreightParts THEN FreightNext /\ FreightBound ELSE UNCHANGED freightVars
  /\ IF part \in MasterParts THEN MasterNext /\ MasterBound ELSE UNCHANGED masterVars
  /\ IF part = "rate" THEN RateNext /\ RateBound ELSE UNCHANGED rateVars
  /\ IF part = "forms" THEN AdmissionNext ELSE UNCHANGED admissionVars

MCSpec == MCInit /\ [][MCNext]_<<part, freightVars, masterVars, rateVars, admissionVars>>

\* Every part keeps its types.
PlanningTypeOK == FreightTypeOK /\ MasterTypeOK /\ RateTypeOK /\ AdmissionTypeOK
=============================================================================
