------------------------------- MODULE MasterData -------------------------------
(***************************************************************************)
(* The tenant's master data: business parties with their roles, their      *)
(* homologation and the audit of their changes; the addresses and contacts *)
(* of a party; the coded catalogues; links, values and settings that are   *)
(* put in place whatever was there; and the sequences that number things.  *)
(*                                                                         *)
(* An update of a party, an address or a contact reads the row, merges the *)
(* patch with it and writes every column back: two steps, no lock between. *)
(***************************************************************************)
EXTENDS Naturals, Sequences, FiniteSets

CONSTANTS
  Parties, TaxIds,
  Roles,         \* of a party
  PartnerRoles,  \* carrier, partner and supplier: roles that are homologated
  Addresses, Contacts, Channels,
  Codes, Entries, \* codes and rows of a catalogue
  Links,         \* pairs a row can join, or a value can be set for
  Scopes,        \* of number sequences
  UpdateStarts,  \* instants the transaction of an update can start at
  MasterCalls,   \* calls in flight together
  Keep           \* in a patch: leave alone; in a table: no row

VARIABLES
  party,       \* row and roles of each party
  partyAudit,  \* rows of business_party_audit
  address,     \* whether each address of the party is active
  contact,     \* the address, the channels and the activity of each contact
  entry,       \* rows of the coded catalogues
  linked,      \* what was last set for each pair
  next,        \* next_value of each sequence
  allocated,   \* the numbers committed by each sequence, in order
  masterCall   \* what each call is about to write

masterVars ==
  <<party, partyAudit, address, contact, entry, linked, next, allocated, masterCall>>

Homologation == {"none", "pending", "approved", "rejected"}
PartyRow == [tax: TaxIds, active: BOOLEAN, homologation: Homologation]
Party == [row: PartyRow, roles: (SUBSET Roles) \ {{}}]

ASSUME MasterAssumption ==
  /\ PartnerRoles \subseteq Roles
  /\ Keep \notin Addresses \cup TaxIds \cup Party
  /\ UpdateStarts \subseteq Nat \ {0}

\* created_at is when the transaction began, and the order the rows are read in.
AuditRow == [at: {0} \cup UpdateStarts, before: Party \cup {Keep}, after: Party]

AddressRow == {"absent", "active", "inactive"}
ContactRow == [at: Addresses \cup {Keep}, channels: (SUBSET Channels) \ {{}}, active: BOOLEAN]

\* Catalogues the tenant edits, and those whose rows are only created.
Equipment == {"vehicle_types", "body_types"}
Classifications == {"cargo_types", "package_types", "document_types", "tags"}
TenantCatalogs == Equipment \cup Classifications
Dimensions == {"departments", "cost_centers"}
Commodities == {"commodities"}
PartyGroups == {"business_party_groups"}
FieldDefinitions == {"custom_field_definitions"}
Locations == {"locations"}
Catalogs == TenantCatalogs \cup Dimensions \cup Commodities \cup PartyGroups
              \cup FieldDefinitions \cup Locations
\* Only a location that was deleted is not live.
EntryRow == [code: Codes, active: BOOLEAN, live: BOOLEAN]

\* Tables whose row for a pair is inserted, or overwritten when it is there.
Memberships == {"business_party_group_members"}
FieldValues == {"custom_field_values"}
EntityTags == {"entity_tags"}
TenantSettings == {"module_settings", "feature_flags"}
LinkTables == Memberships \cup FieldValues \cup EntityTags \cup TenantSettings

Patch == [tax: TaxIds \cup {Keep}, active: BOOLEAN \cup {Keep},
          homologation: (Homologation \ {"none"}) \cup {Keep},
          roles: ((SUBSET Roles) \ {{}}) \cup {Keep}]

NoMasterCall == [op |-> "none"]
MasterPending ==
  {NoMasterCall}
    \cup [op: {"party"}, of: Parties, at: UpdateStarts, before: Party, row: PartyRow,
          roles: ((SUBSET Roles) \ {{}}) \cup {Keep}]
    \cup [op: {"address"}, of: Addresses, row: AddressRow \ {"absent"}]
    \cup [op: {"contact"}, of: Contacts, row: ContactRow]
    \cup [op: {"number"}, of: Scopes, value: Nat]

MasterTypeOK ==
  /\ party \in [Parties -> Party \cup {Keep}]
  /\ partyAudit \in [Parties -> SUBSET AuditRow]
  /\ address \in [Addresses -> AddressRow]
  /\ contact \in [Contacts -> ContactRow \cup {Keep}]
  /\ entry \in [Catalogs -> [Entries -> EntryRow \cup {Keep}]]
  /\ linked \in [LinkTables -> [Links -> BOOLEAN \cup {Keep}]]
  /\ next \in [Scopes -> Nat]
  /\ \A s \in Scopes : \A i \in DOMAIN allocated[s] : allocated[s][i] \in Nat
  /\ masterCall \in [MasterCalls -> MasterPending]

MasterInit ==
  /\ party = [p \in Parties |-> Keep]
  /\ partyAudit = [p \in Parties |-> {}]
  /\ address = [a \in Addresses |-> "absent"]
  /\ contact = [c \in Contacts |-> Keep]
  /\ entry = [t \in Catalogs |-> [e \in Entries |-> Keep]]
  /\ linked = [t \in LinkTables |-> [l \in Links |-> Keep]]
  /\ next = [s \in Scopes |-> 1]
  /\ allocated = [s \in Scopes |-> <<>>]
  /\ masterCall = [k \in MasterCalls |-> NoMasterCall]

Starts(k, ready, pending) ==
  /\ masterCall[k] = NoMasterCall
  /\ ready
  /\ masterCall' = [masterCall EXCEPT ![k] = pending]
  /\ UNCHANGED <<party, partyAudit, address, contact, entry, linked, next, allocated>>

Ends(k) == masterCall' = [masterCall EXCEPT ![k] = NoMasterCall]

-----------------------------------------------------------------------------
(* Business parties *)

Partner(roles) == roles \cap PartnerRoles # {}

\* The column of the patch, or of the row as read.
Given(value, old) == IF value = Keep THEN old ELSE value
TaxIdFree(p, tax) == \A q \in Parties \ {p} : party[q] # Keep => party[q].row.tax # tax

Audits(p, at, before, after) ==
  partyAudit' =
    [partyAudit EXCEPT ![p] = @ \cup {[at |-> at, before |-> before, after |-> after]}]

\* No other update of the party began at this instant.
BeganAlone(p, at) ==
  /\ \A row \in partyAudit[p] : row.at # at
  /\ \A k \in MasterCalls :
       masterCall[k].op = "party" /\ masterCall[k].of = p => masterCall[k].at # at

\* A party with a partner role begins pending unless the caller says otherwise. Its id
\* is known when this has committed: every update of it begins later.
CreateParty(p) ==
  \E tax \in TaxIds, roles \in (SUBSET Roles) \ {{}}, h \in Homologation :
    LET created == [row |-> [tax |-> tax, active |-> TRUE, homologation |-> h],
                    roles |-> roles]
    IN /\ party[p] = Keep
       /\ TaxIdFree(p, tax)
       /\ Partner(roles) <=> h # "none"
       /\ party' = [party EXCEPT ![p] = created]
       /\ Audits(p, 0, Keep, created)
       /\ UNCHANGED <<address, contact, entry, linked, next, allocated, masterCall>>

\* Homologation belongs to a partner role, of the patch or of the row as read.
Merged(before, patch) ==
  [tax |-> Given(patch.tax, before.row.tax),
   active |-> Given(patch.active, before.row.active),
   homologation |->
     IF ~Partner(Given(patch.roles, before.roles)) THEN "none"
     ELSE IF patch.homologation # Keep THEN patch.homologation
     ELSE IF before.row.homologation # "none" THEN before.row.homologation
     ELSE "pending"]

UpdateParty(k, p) ==
  \E patch \in Patch, at \in UpdateStarts :
    Starts(k, /\ party[p] # Keep
              /\ BeganAlone(p, at)
              /\ \E column \in DOMAIN patch : patch[column] # Keep
              /\ patch.homologation # Keep => Partner(Given(patch.roles, party[p].roles)),
           [op |-> "party", of |-> p, at |-> at, before |-> party[p],
            row |-> Merged(party[p], patch), roles |-> patch.roles])

\* Fault: the audit keeps what the update computed from the party it had read.
AuditedAfterMerge(k, written) ==
  [row |-> masterCall[k].row, roles |-> Given(masterCall[k].roles, masterCall[k].before.roles)]

\* What the audit keeps as the party after the update is read from the tables.
AuditedAfter(k, written) == written

\* The roles are replaced only when the patch has them.
CommitParty(k) ==
  /\ masterCall[k].op = "party"
  /\ LET p == masterCall[k].of
         written == [row |-> masterCall[k].row,
                     roles |-> Given(masterCall[k].roles, party[p].roles)]
     IN /\ TaxIdFree(p, masterCall[k].row.tax)
        /\ party' = [party EXCEPT ![p] = written]
        /\ Audits(p, masterCall[k].at, masterCall[k].before, AuditedAfter(k, written))
  /\ Ends(k)
  /\ UNCHANGED <<address, contact, entry, linked, next, allocated>>

PartyConflicts(k) ==
  /\ masterCall[k].op = "party"
  /\ ~TaxIdFree(masterCall[k].of, masterCall[k].row.tax)
  /\ Ends(k)
  /\ UNCHANGED <<party, partyAudit, address, contact, entry, linked, next, allocated>>

-----------------------------------------------------------------------------
(* The directory of one party *)

CreateAddress(a) ==
  /\ address[a] = "absent"
  /\ address' = [address EXCEPT ![a] = "active"]
  /\ UNCHANGED <<party, partyAudit, contact, entry, linked, next, allocated, masterCall>>

\* A patch of any column writes the activity back, as patched or as read.
UpdateAddress(k, a) ==
  \E row \in {"active", "inactive"} :
    Starts(k, address[a] # "absent", [op |-> "address", of |-> a, row |-> row])

CommitAddress(k) ==
  /\ masterCall[k].op = "address"
  /\ address' = [address EXCEPT ![masterCall[k].of] = masterCall[k].row]
  /\ Ends(k)
  /\ UNCHANGED <<party, partyAudit, contact, entry, linked, next, allocated>>

\* A contact is reached through at least one channel; its address need not be active.
AtKnownAddress(row) == row.at # Keep => address[row.at] # "absent"

CreateContact(c) ==
  \E row \in ContactRow :
    /\ contact[c] = Keep
    /\ row.active /\ AtKnownAddress(row)
    /\ contact' = [contact EXCEPT ![c] = row]
    /\ UNCHANGED <<party, partyAudit, address, entry, linked, next, allocated, masterCall>>

UpdateContact(k, c) ==
  \E row \in ContactRow :
    Starts(k, contact[c] # Keep /\ AtKnownAddress(row),
           [op |-> "contact", of |-> c, row |-> row])

CommitContact(k) ==
  /\ masterCall[k].op = "contact"
  /\ contact' = [contact EXCEPT ![masterCall[k].of] = masterCall[k].row]
  /\ Ends(k)
  /\ UNCHANGED <<party, partyAudit, address, entry, linked, next, allocated>>

-----------------------------------------------------------------------------
(* Catalogues, links and settings *)

Live(t) == {e \in Entries : entry[t][e] # Keep /\ entry[t][e].live}
CodeFree(t, e, code) == \A f \in Live(t) \ {e} : entry[t][f].code # code

SetEntry(t, e, row) ==
  /\ row.live => CodeFree(t, e, row.code)
  /\ entry' = [entry EXCEPT ![t][e] = row]
  /\ UNCHANGED <<party, partyAudit, address, contact, linked, next, allocated, masterCall>>

CreateEntry(t, e) ==
  \E code \in Codes, active \in BOOLEAN :
    /\ entry[t][e] = Keep
    /\ SetEntry(t, e, [code |-> code, active |-> active, live |-> TRUE])

CreateLocation(e) == CreateEntry("locations", e)
CreateDimension(e) == \E t \in Dimensions : CreateEntry(t, e)
CreateCommodity(e) == \E t \in Commodities : CreateEntry(t, e)
CreatePartyGroup(e) == \E t \in PartyGroups : CreateEntry(t, e)
CreateCustomFieldDefinition(e) == \E t \in FieldDefinitions : CreateEntry(t, e)

\* Only the columns of the patch are written.
UpdateEntry(t, e) ==
  \E row \in EntryRow :
    /\ entry[t][e] # Keep /\ row.live
    /\ SetEntry(t, e, row)

\* Switching a location off deletes it, switching it on brings it back, if its code
\* was not taken meanwhile.
SetLocationLifecycle(e) ==
  \E active \in BOOLEAN :
    /\ entry["locations"][e] # Keep
    /\ SetEntry("locations", e, [entry["locations"][e] EXCEPT !.active = active, !.live = active])

PutLink(t, l, on) ==
  /\ linked' = [linked EXCEPT ![t][l] = on]
  /\ UNCHANGED <<party, partyAudit, address, contact, entry, next, allocated, masterCall>>

\* A member who comes back has no end; one who never came cannot be ended.
SetPartyGroupMembership(t, l) ==
  \E active \in BOOLEAN :
    /\ active \/ linked[t][l] # Keep
    /\ PutLink(t, l, active)

\* A value that is set again replaces the one there is.
SetCustomFieldValue(t, l) == PutLink(t, l, TRUE)

\* The row of a tag tells whether it is on; taking one off may make the row.
SetTag(t, l) == \E active \in BOOLEAN : PutLink(t, l, active)

\* A flag is off unless the payload says otherwise; settings are only there.
UpsertTenantConfiguration(t, l) ==
  \E enabled \in BOOLEAN :
    /\ t = "feature_flags" \/ enabled
    /\ PutLink(t, l, enabled)

-----------------------------------------------------------------------------
(* Number sequences *)

\* Fault: the number is read without taking the row.
SequenceUnlocked(s) == s \in Scopes

\* The UPDATE that takes a number holds the row until its transaction ends.
SequenceFree(s) ==
  \A k \in MasterCalls : masterCall[k].op = "number" => masterCall[k].of # s

TakeNumber(k, s) ==
  Starts(k, SequenceFree(s), [op |-> "number", of |-> s, value |-> next[s]])

CommitNumber(k) ==
  /\ masterCall[k].op = "number"
  /\ next' = [next EXCEPT ![masterCall[k].of] = masterCall[k].value + 1]
  /\ allocated' = [allocated EXCEPT ![masterCall[k].of] = Append(@, masterCall[k].value)]
  /\ Ends(k)
  /\ UNCHANGED <<party, partyAudit, address, contact, entry, linked>>

\* A connection lost before the commit gives the number back.
NumberRollsBack(k) ==
  /\ masterCall[k].op = "number"
  /\ Ends(k)
  /\ UNCHANGED <<party, partyAudit, address, contact, entry, linked, next, allocated>>

-----------------------------------------------------------------------------
MasterNext ==
  \/ \E p \in Parties : CreateParty(p) \/ \E k \in MasterCalls : UpdateParty(k, p)
  \/ \E a \in Addresses : CreateAddress(a) \/ \E k \in MasterCalls : UpdateAddress(k, a)
  \/ \E c \in Contacts : CreateContact(c) \/ \E k \in MasterCalls : UpdateContact(k, c)
  \/ \E k \in MasterCalls :
       \/ CommitParty(k) \/ PartyConflicts(k)
       \/ CommitAddress(k) \/ CommitContact(k)
       \/ CommitNumber(k) \/ NumberRollsBack(k)
       \/ \E s \in Scopes : TakeNumber(k, s)
  \/ \E e \in Entries :
       \/ CreateLocation(e) \/ SetLocationLifecycle(e)
       \/ CreateDimension(e) \/ CreateCommodity(e) \/ CreatePartyGroup(e)
       \/ CreateCustomFieldDefinition(e)
       \/ \E t \in TenantCatalogs : CreateEntry(t, e) \/ UpdateEntry(t, e)
  \/ \E l \in Links :
       \/ \E t \in Memberships : SetPartyGroupMembership(t, l)
       \/ \E t \in FieldValues : SetCustomFieldValue(t, l)
       \/ \E t \in EntityTags : SetTag(t, l)
       \/ \E t \in TenantSettings : UpsertTenantConfiguration(t, l)

MasterSpec == MasterInit /\ [][MasterNext]_masterVars

-----------------------------------------------------------------------------
(* Properties *)

\* What audit rows tell of what something became, read from the one that began first.
Explains(rows, now) ==
  /\ \E created \in rows :
       /\ created.before = Keep
       /\ \A row \in rows \ {created} : row.before # Keep /\ row.at > created.at
  /\ \A row \in rows : row.before # Keep => \E told \in rows : told.after = row.before
  /\ \E told \in rows : told.after = now

\* The audit of a party explains it. Its first entry, as the entries are read, is the
\* creation and the only one; what any other says the party was, an entry says it became;
\* and what the party is now, an entry says it became. Two updates may each write back
\* columns and roles the other has changed: what an entry keeps as the party after it is
\* read after the write, and not computed from what was merged. Nothing is claimed of the
\* last entry: of two updates that overlap, the one that began first can write last.
AuditTellsParty ==
  \A p \in Parties : party[p] # Keep => Explains(partyAudit[p], party[p])

\* A sequence gives each number once, in order and without gaps, to callers that
\* allocate at the same time and to callers whose transactions do not commit.
NumbersAreOnce ==
  \A s \in Scopes : allocated[s] = [i \in 1..(next[s] - 1) |-> i]

\* Both of these hold for every overlap of calls.
BookkeepingHolds == AuditTellsParty /\ NumbersAreOnce
=============================================================================
