------------------------------ MODULE BackOfficeProofs ------------------------------
(***************************************************************************)
(* Proofs about the back office's rows, for any number of them and of the  *)
(* calls that change them: threads, documents and their risk, notices,     *)
(* capacity assignments, the records of a trip and their histories, the    *)
(* runs of the matching.  A call that decides in one step and writes in    *)
(* another is right when it writes because of a lock (threads,             *)
(* occurrences), because of a unique key (notices), because it asks again  *)
(* (assignments) or because what it saw is never taken away (trip records).*)
(***************************************************************************)
EXTENDS MCBackOffice, FinanceProofs,
        SequenceTheorems, FiniteSetTheorems, TLAPS

-----------------------------------------------------------------------------
(* Threads.                                                                *)

\* The changes that wait to be committed, by operation.
ThreadChange ==
    [of : Threads, op : {"create", "add"}, who : Members \cup Externals]
    \cup [of : Threads, op : {"status"}, status : {"closed", "cancelled"}]
    \cup [of : Threads, op : {"remove"}, participant : Nat]
    \cup [of : Threads, op : {"post"}, author : Nat, reply : Nat]

Held(k) == change[k] # NoChange

\* What a change decided on the row it locked still holds when it is committed.
ChangeHolds(c) ==
    /\ c.op = "create" => thread[c.of] = "absent" /\ c.who \in Members
    /\ c.op # "create" => thread[c.of] = "open"
    /\ c.op = "add" => \A i \in Present(c.of) : participant[c.of][i].who # c.who
    /\ c.op = "remove" =>
          /\ c.participant \in Present(c.of)
          /\ InternalPresent(c.of) \ {c.participant} # {}

\* FOR UPDATE: a thread has at most one change to commit.
OneChangeEach ==
    \A j, k \in ThreadCalls :
        Held(j) /\ Held(k) /\ change[j].of = change[k].of => j = k

ThreadInv ==
    /\ ThreadTypeOK
    /\ change \in [ThreadCalls -> ThreadChange \cup {NoChange}]
    /\ \A k \in ThreadCalls : Held(k) => ChangeHolds(change[k])
    /\ OneChangeEach
    /\ \A t \in Threads : thread[t] = "absent" => participant[t] = <<>>
    /\ AlwaysStaffed

\* The fields of a change, by its operation.
LEMMA ThreadChangeFields ==
  ASSUME NEW c \in ThreadChange
  PROVE  /\ c.of \in Threads
         /\ c.op \in {"create", "status", "add", "remove", "post"}
         /\ c.op \in {"create", "add"} => c.who \in Members \cup Externals
         /\ c.op = "status" => c.status \in {"closed", "cancelled"}
         /\ c.op = "remove" => c.participant \in Nat
         /\ c.op = "post" => c.author \in Nat /\ c.reply \in Nat
BY DEF ThreadChange

\* One of several is not the only one.
LEMMA AnotherInternal ==
  ASSUME NEW t \in Threads, NEW i \in InternalPresent(t),
         Cardinality(InternalPresent(t)) > 1
  PROVE  InternalPresent(t) \ {i} # {}
<1>1. SUFFICES ASSUME InternalPresent(t) \ {i} = {} PROVE FALSE
  OBVIOUS
<1>2. InternalPresent(t) = {i}
  BY <1>1
<1>3. Cardinality(InternalPresent(t)) = 1
  BY <1>2, FS_Singleton
<1> QED BY <1>3

\* What a change relies on is in the rows of its own thread.
LEMMA ChangeFrame ==
  ASSUME NEW c, ChangeHolds(c),
         thread'[c.of] = thread[c.of], participant'[c.of] = participant[c.of]
  PROVE  ChangeHolds(c)'
BY DEF ChangeHolds, Present, InternalPresent

\* The staff of a thread, too.
LEMMA StaffFrame ==
  ASSUME NEW t, thread'[t] = thread[t], participant'[t] = participant[t],
         thread[t] # "absent" =>
            /\ InternalPresent(t) # {}
            /\ \A i, j \in Present(t) : participant[t][i].who = participant[t][j].who => i = j
  PROVE  thread'[t] # "absent" =>
            /\ InternalPresent(t)' # {}
            /\ \A i, j \in Present(t)' : participant'[t][i].who = participant'[t][j].who => i = j
BY DEF Present, InternalPresent

\* A call that decides locks its thread.  What it decided holds, by the
\* guards of the call; nobody else's decision is about the same thread.
LEMMA AttemptStep ==
  ASSUME ThreadInv, NEW k \in ThreadCalls, NEW c \in ThreadChange,
         ThreadFree(c.of), ChangeHolds(c), Attempt(k, c)
  PROVE  ThreadInv'
<1>1. UNCHANGED <<negotiable, membership, thread, participant, posted>>
  BY DEF Attempt
<1>2. /\ change' \in [ThreadCalls -> ThreadChange \cup {NoChange}]
      /\ \A j \in ThreadCalls : change'[j] = IF j = k THEN c ELSE change[j]
  BY DEF Attempt, ThreadInv
<1>3. ThreadTypeOK'
  <2>1. \A j \in ThreadCalls :
          change'[j] = NoChange \/ change'[j].op \in {"create", "status", "add", "remove", "post"}
    BY <1>2, ThreadChangeFields
  <2> QED BY <1>1, <2>1 DEF ThreadInv, ThreadTypeOK
<1>4. ASSUME NEW j \in ThreadCalls, Held(j)'
      PROVE  ChangeHolds(change[j])'
  <2>1. CASE j = k
    <3>1. ChangeHolds(c)'
      BY <1>1, ChangeFrame
    <3> QED BY <1>2, <2>1, <3>1
  <2>2. CASE j # k
    <3>1. change'[j] = change[j] /\ ChangeHolds(change[j])
      BY <1>2, <1>4, <2>2 DEF ThreadInv, Held
    <3>2. thread'[change[j].of] = thread[change[j].of] /\ participant'[change[j].of] = participant[change[j].of]
      BY <1>1
    <3> QED BY <1>1, <3>1, <3>2 DEF ChangeHolds, Present, InternalPresent
  <2> QED BY <2>1, <2>2
<1>5. OneChangeEach'
  BY <1>2 DEF ThreadInv, OneChangeEach, Held, ThreadFree
<1>6. AlwaysStaffed' /\ \A t \in Threads : thread'[t] = "absent" => participant'[t] = <<>>
  BY <1>1 DEF ThreadInv, AlwaysStaffed, Present, InternalPresent
<1> QED BY <1>2, <1>3, <1>4, <1>5, <1>6 DEF ThreadInv

\* Every call that locks a thread decides something that holds.
LEMMA ThreadCallStep ==
  ASSUME ThreadInv, NEW k \in ThreadCalls, NEW t \in Threads,
         \/ \E actor \in Members :
               \/ CreateThread(k, t, actor)
               \/ \E status \in {"closed", "cancelled"} : SetThreadStatus(k, t, actor, status)
               \/ \E who \in Members \cup Externals : AddParticipant(k, t, actor, who)
               \/ \E i \in DOMAIN participant[t] : RemoveParticipant(k, t, actor, i)
         \/ \E i \in DOMAIN participant[t], reply \in {0} \cup DOMAIN posted[t] :
               CreateMessage(k, t, i, reply)
  PROVE  ThreadInv'
<1> USE DEF ChangeOpen, ChangeHolds
<1>0. /\ participant[t] \in Seq(ParticipantRow) /\ DOMAIN participant[t] \subseteq Nat
      /\ posted[t] \in Seq(MessageRow) /\ DOMAIN posted[t] \subseteq Nat
  BY DEF ThreadInv, ThreadTypeOK
<1>1. ASSUME NEW actor \in Members, CreateThread(k, t, actor)
      PROVE  ThreadInv'
  <2> DEFINE c == [of |-> t, op |-> "create", who |-> actor]
  <2>1. c \in ThreadChange
    BY DEF ThreadChange
  <2>2. ThreadFree(c.of) /\ ChangeHolds(c) /\ Attempt(k, c)
    BY <1>1 DEF CreateThread
  <2> HIDE DEF c
  <2> QED BY <2>1, <2>2, AttemptStep
<1>2. ASSUME NEW actor \in Members, NEW status \in {"closed", "cancelled"},
             SetThreadStatus(k, t, actor, status)
      PROVE  ThreadInv'
  <2> DEFINE c == [of |-> t, op |-> "status", status |-> status]
  <2>1. c \in ThreadChange
    BY DEF ThreadChange
  <2>2. ThreadFree(c.of) /\ ChangeHolds(c) /\ Attempt(k, c)
    BY <1>2 DEF SetThreadStatus
  <2> HIDE DEF c
  <2> QED BY <2>1, <2>2, AttemptStep
<1>3. ASSUME NEW actor \in Members, NEW who \in Members \cup Externals,
             AddParticipant(k, t, actor, who)
      PROVE  ThreadInv'
  <2> DEFINE c == [of |-> t, op |-> "add", who |-> who]
  <2>1. c \in ThreadChange
    BY DEF ThreadChange
  <2>2. ThreadFree(c.of) /\ ChangeHolds(c) /\ Attempt(k, c)
    BY <1>3 DEF AddParticipant
  <2> HIDE DEF c
  <2> QED BY <2>1, <2>2, AttemptStep
<1>4. ASSUME NEW actor \in Members, NEW i \in DOMAIN participant[t],
             RemoveParticipant(k, t, actor, i)
      PROVE  ThreadInv'
  <2> DEFINE c == [of |-> t, op |-> "remove", participant |-> i]
  <2>1. c \in ThreadChange
    BY <1>0 DEF ThreadChange
  <2>2. thread[t] = "open" /\ i \in Present(t)
    BY <1>4 DEF RemoveParticipant
  <2>3. InternalPresent(t) \ {i} # {}
    <3>1. CASE i \in InternalPresent(t)
      BY <1>4, <3>1, AnotherInternal DEF RemoveParticipant
    <3>2. CASE i \notin InternalPresent(t)
      BY <2>2, <3>2 DEF ThreadInv, AlwaysStaffed
    <3> QED BY <3>1, <3>2
  <2>4. ChangeHolds(c)
    BY <2>2, <2>3
  <2>5. ThreadFree(c.of) /\ Attempt(k, c)
    BY <1>4 DEF RemoveParticipant
  <2> HIDE DEF c
  <2> QED BY <2>1, <2>4, <2>5, AttemptStep
<1>5. ASSUME NEW i \in DOMAIN participant[t], NEW reply \in {0} \cup DOMAIN posted[t],
             CreateMessage(k, t, i, reply)
      PROVE  ThreadInv'
  <2> DEFINE c == [of |-> t, op |-> "post", author |-> i, reply |-> reply]
  <2>1. c \in ThreadChange
    BY <1>0 DEF ThreadChange
  <2>2. ThreadFree(c.of) /\ ChangeHolds(c) /\ Attempt(k, c)
    BY <1>5 DEF CreateMessage
  <2> HIDE DEF c
  <2> QED BY <2>1, <2>2, AttemptStep
<1> QED BY <1>1, <1>2, <1>3, <1>4, <1>5

\* Whoever joins is the last participant; those before are as they were.
LEMMA JoinedPresent ==
  ASSUME ThreadTypeOK, NEW t \in Threads, NEW who \in Members \cup Externals,
         participant'[t] = Append(participant[t], [who |-> who, left |-> FALSE])
  PROVE  /\ Present(t)' = Present(t) \cup {Len(participant[t]) + 1}
         /\ Len(participant[t]) + 1 \notin Present(t)
         /\ \A i \in Present(t) : participant'[t][i] = participant[t][i]
         /\ participant'[t][Len(participant[t]) + 1].who = who
<1> DEFINE row == [who |-> who, left |-> FALSE]
<1>1. participant[t] \in Seq(ParticipantRow) /\ row \in ParticipantRow
  BY DEF ThreadTypeOK, ParticipantRow
<1>2. /\ participant'[t] \in Seq(ParticipantRow)
      /\ Len(participant'[t]) = Len(participant[t]) + 1
      /\ \A i \in 1..Len(participant[t]) : participant'[t][i] = participant[t][i]
      /\ participant'[t][Len(participant[t]) + 1] = row
  BY <1>1, AppendProperties
<1>3. /\ DOMAIN participant[t] = 1..Len(participant[t])
      /\ DOMAIN participant'[t] = 1..(Len(participant[t]) + 1)
      /\ Len(participant[t]) \in Nat
  BY <1>1, <1>2
<1> QED BY <1>2, <1>3 DEF Present

\* Whoever is removed is present no more; the others are as they were.
LEMMA RemovedPresent ==
  ASSUME ThreadTypeOK, NEW t \in Threads, NEW p \in Present(t),
         participant'[t] = [participant[t] EXCEPT ![p].left = TRUE]
  PROVE  /\ Present(t)' = Present(t) \ {p}
         /\ \A i \in Present(t)' : participant'[t][i] = participant[t][i]
<1>1. DOMAIN participant'[t] = DOMAIN participant[t] /\ p \in DOMAIN participant[t]
  BY DEF Present
<1>2. \A i \in DOMAIN participant[t] \ {p} : participant'[t][i] = participant[t][i]
  OBVIOUS
<1>3. participant[t][p] \in ParticipantRow
  BY <1>1 DEF ThreadTypeOK
<1>4. participant'[t][p].left = TRUE
  BY <1>1, <1>3 DEF ParticipantRow
<1> QED BY <1>1, <1>2, <1>4 DEF Present

\* The thread of a committed change keeps its staff.
LEMMA CommittedStaff ==
  ASSUME ThreadInv, NEW k \in ThreadCalls, CommitChange(k),
         NEW c, c = change[k], NEW t, t = c.of
  PROVE  /\ thread'[t] \in ThreadStatus \ {"absent"}
         /\ participant'[t] \in Seq(ParticipantRow)
         /\ posted'[t] \in Seq(MessageRow)
         /\ InternalPresent(t)' # {}
         /\ \A i, j \in Present(t)' :
               participant'[t][i].who = participant'[t][j].who => i = j
<1>1. c \in ThreadChange /\ ChangeHolds(c) /\ c # NoChange
  BY DEF CommitChange, ThreadInv, Held
<1>2. /\ t \in Threads
      /\ c.op \in {"create", "status", "add", "remove", "post"}
  BY <1>1, ThreadChangeFields
<1>3. /\ thread[t] \in ThreadStatus /\ participant[t] \in Seq(ParticipantRow)
      /\ posted[t] \in Seq(MessageRow)
  BY <1>2 DEF ThreadInv, ThreadTypeOK
<1>4. /\ thread'[t] = StatusAfter(c)
      /\ participant'[t] = ParticipantsAfter(c)
      /\ posted'[t] = PostedAfter(c)
  BY <1>2 DEF CommitChange, ThreadInv, ThreadTypeOK
<1>5. thread'[t] \in ThreadStatus \ {"absent"}
  BY <1>1, <1>2, <1>3, <1>4, ThreadChangeFields DEF StatusAfter, ChangeHolds, ThreadStatus
<1>6. posted'[t] \in Seq(MessageRow)
  <2>1. CASE c.op = "post"
    <3>1. c.author \in Nat /\ c.reply \in Nat
      BY <1>1, <2>1, ThreadChangeFields
    <3>2. [author |-> c.author, reply |-> c.reply] \in MessageRow
      BY <3>1 DEF MessageRow
    <3>3. posted'[t] = Append(posted[t], [author |-> c.author, reply |-> c.reply])
      BY <1>4, <2>1 DEF PostedAfter
    <3> QED BY <1>3, <3>2, <3>3
  <2>2. CASE c.op # "post"
    BY <1>3, <1>4, <2>2 DEF PostedAfter
  <2> QED BY <2>1, <2>2
<1>7. c.op # "create" =>
        /\ InternalPresent(t) # {}
        /\ \A i, j \in Present(t) : participant[t][i].who = participant[t][j].who => i = j
  BY <1>1, <1>2 DEF ThreadInv, AlwaysStaffed, ChangeHolds
<1>a. CASE c.op \in {"create", "add"}
  <2>1. c.who \in Members \cup Externals
    BY <1>1, <1>a, ThreadChangeFields
  <2>2. participant'[t] = Append(participant[t], [who |-> c.who, left |-> FALSE])
    BY <1>4, <1>a DEF ParticipantsAfter
  <2>3. [who |-> c.who, left |-> FALSE] \in ParticipantRow
    BY <2>1 DEF ParticipantRow
  <2>4. participant'[t] \in Seq(ParticipantRow)
    BY <1>3, <2>2, <2>3
  <2>l. PICK last : last = Len(participant[t]) + 1
    OBVIOUS
  <2>5. /\ Present(t)' = Present(t) \cup {last}
        /\ last \notin Present(t)
        /\ \A i \in Present(t) : participant'[t][i] = participant[t][i]
        /\ participant'[t][last].who = c.who
    BY <1>2, <2>1, <2>2, <2>l, JoinedPresent DEF ThreadInv
  <2>6. CASE c.op = "create"
    <3>1. participant[t] = <<>> /\ c.who \in Members
      BY <1>1, <1>2, <2>6 DEF ThreadInv, ChangeHolds
    <3>2. Present(t) = {}
      BY <3>1 DEF Present
    <3>3. InternalPresent(t)' = {last} /\ Present(t)' = {last}
      BY <2>5, <3>1, <3>2 DEF InternalPresent
    <3> QED BY <1>5, <1>6, <2>4, <3>3
  <2>7. CASE c.op = "add"
    <3>1. \A i \in Present(t) : participant[t][i].who # c.who
      BY <1>1, <2>7 DEF ChangeHolds
    <3>2. InternalPresent(t) \subseteq InternalPresent(t)'
      BY <2>5 DEF InternalPresent
    <3>3. InternalPresent(t)' # {}
      BY <1>7, <2>7, <3>2
    <3>4. \A i, j \in Present(t)' : participant'[t][i].who = participant'[t][j].who => i = j
      BY <1>7, <2>5, <2>7, <3>1
    <3> QED BY <1>5, <1>6, <2>4, <3>3, <3>4
  <2> QED BY <1>a, <2>6, <2>7
<1>b. CASE c.op = "remove"
  <2>1. participant'[t] = [participant[t] EXCEPT ![c.participant].left = TRUE]
    BY <1>4, <1>b DEF ParticipantsAfter
  <2>2. c.participant \in Present(t) /\ InternalPresent(t) \ {c.participant} # {}
    BY <1>1, <1>b DEF ChangeHolds
  <2>3. /\ Present(t)' = Present(t) \ {c.participant}
        /\ \A i \in Present(t)' : participant'[t][i] = participant[t][i]
    BY <1>2, <2>1, <2>2, RemovedPresent DEF ThreadInv
  <2>4. InternalPresent(t)' = InternalPresent(t) \ {c.participant}
    BY <2>3 DEF InternalPresent
  <2>5. participant'[t] \in Seq(ParticipantRow)
    <3>1. c.participant \in DOMAIN participant[t]
      BY <2>2 DEF Present
    <3>2. participant[t][c.participant] \in ParticipantRow
      BY <1>3, <3>1
    <3>3. [participant[t][c.participant] EXCEPT !.left = TRUE] \in ParticipantRow
      BY <3>2 DEF ParticipantRow
    <3> QED BY <1>3, <2>1, <3>1, <3>3, ExceptSeq
  <2> QED BY <1>5, <1>6, <1>7, <1>b, <2>2, <2>3, <2>4, <2>5
<1>c. CASE c.op \in {"status", "post"}
  <2>1. participant'[t] = participant[t]
    BY <1>4, <1>c DEF ParticipantsAfter
  <2>2. Present(t)' = Present(t) /\ InternalPresent(t)' = InternalPresent(t)
    BY <2>1 DEF Present, InternalPresent
  <2> QED BY <1>3, <1>5, <1>6, <1>7, <1>c, <2>1, <2>2
<1> QED BY <1>2, <1>a, <1>b, <1>c

\* A commit writes the thread it locked and no other.
LEMMA CommitChangeStep ==
  ASSUME ThreadInv, NEW k \in ThreadCalls, CommitChange(k)
  PROVE  ThreadInv'
<1>c. PICK c : c = change[k]
  OBVIOUS
<1>1. c \in ThreadChange /\ Held(k)
  BY <1>c DEF CommitChange, ThreadInv, Held
<1>2. c.of \in Threads
  BY <1>1, ThreadChangeFields
<1>3. /\ change' \in [ThreadCalls -> ThreadChange \cup {NoChange}]
      /\ \A j \in ThreadCalls : change'[j] = IF j = k THEN NoChange ELSE change[j]
  BY DEF CommitChange, ThreadInv
<1>4. /\ thread' = [thread EXCEPT ![c.of] = thread'[c.of]]
      /\ participant' = [participant EXCEPT ![c.of] = participant'[c.of]]
      /\ posted' = [posted EXCEPT ![c.of] = posted'[c.of]]
  BY <1>2, <1>c DEF CommitChange, ThreadInv, ThreadTypeOK
<1>5. \A t \in Threads : t # c.of => thread'[t] = thread[t] /\ participant'[t] = participant[t]
  BY <1>2, <1>4 DEF ThreadInv, ThreadTypeOK
<1>s. /\ thread'[c.of] \in ThreadStatus \ {"absent"}
      /\ participant'[c.of] \in Seq(ParticipantRow)
      /\ posted'[c.of] \in Seq(MessageRow)
      /\ InternalPresent(c.of)' # {}
      /\ \A i, j \in Present(c.of)' :
            participant'[c.of][i].who = participant'[c.of][j].who => i = j
  BY <1>c, CommittedStaff
<1>6. ThreadTypeOK'
  <2>1. /\ thread' \in [Threads -> ThreadStatus]
        /\ participant' \in [Threads -> Seq(ParticipantRow)]
        /\ posted' \in [Threads -> Seq(MessageRow)]
    BY <1>2, <1>4, <1>s DEF ThreadInv, ThreadTypeOK
  <2>2. negotiable' \in BOOLEAN /\ membership' \subseteq Members
    BY DEF CommitChange, ThreadInv, ThreadTypeOK
  <2>3. \A j \in ThreadCalls :
          change'[j] = NoChange \/ change'[j].op \in {"create", "status", "add", "remove", "post"}
    BY <1>3, ThreadChangeFields
  <2> QED BY <2>1, <2>2, <2>3 DEF ThreadTypeOK
<1>7. ASSUME NEW j \in ThreadCalls, Held(j)'
      PROVE  ChangeHolds(change[j])'
  <2>1. j # k /\ change'[j] = change[j] /\ Held(j)
    BY <1>3, <1>7 DEF Held
  <2>2. change[j].of # c.of
    BY <1>1, <1>c, <2>1 DEF ThreadInv, OneChangeEach
  <2>3. change[j] \in ThreadChange /\ ChangeHolds(change[j])
    BY <2>1 DEF ThreadInv, Held
  <2>4. change[j].of \in Threads
    BY <2>3, ThreadChangeFields
  <2>5. thread'[change[j].of] = thread[change[j].of]
        /\ participant'[change[j].of] = participant[change[j].of]
    BY <1>5, <2>2, <2>4
  <2> QED BY <2>1, <2>3, <2>5 DEF ChangeHolds, Present, InternalPresent
<1>8. OneChangeEach'
  BY <1>3 DEF ThreadInv, OneChangeEach, Held
<1>9. ASSUME NEW t \in Threads
      PROVE  /\ thread'[t] = "absent" => participant'[t] = <<>>
             /\ thread'[t] # "absent" =>
                  /\ InternalPresent(t)' # {}
                  /\ \A i, j \in Present(t)' :
                        participant'[t][i].who = participant'[t][j].who => i = j
  <2>1. CASE t = c.of
    BY <1>s, <2>1
  <2>2. CASE t # c.of
    <3>1. thread'[t] = thread[t] /\ participant'[t] = participant[t]
      BY <1>5, <2>2
    <3> QED BY <3>1 DEF ThreadInv, AlwaysStaffed, Present, InternalPresent
  <2> QED BY <2>1, <2>2
<1> QED BY <1>3, <1>6, <1>7, <1>8, <1>9 DEF ThreadInv, AlwaysStaffed

\* A transaction that rolls back gives up its lock.
LEMMA AbandonChangeStep ==
  ASSUME ThreadInv, NEW k \in ThreadCalls, AbandonChange(k)
  PROVE  ThreadInv'
<1>1. UNCHANGED <<negotiable, membership, thread, participant, posted>>
  BY DEF AbandonChange
<1>2. /\ change' \in [ThreadCalls -> ThreadChange \cup {NoChange}]
      /\ \A j \in ThreadCalls : change'[j] = IF j = k THEN NoChange ELSE change[j]
  BY DEF AbandonChange, ThreadInv
<1>3. ThreadTypeOK'
  BY <1>1, <1>2 DEF ThreadInv, ThreadTypeOK
<1>4. ASSUME NEW j \in ThreadCalls, Held(j)'
      PROVE  ChangeHolds(change[j])'
  <2>1. change'[j] = change[j] /\ Held(j)
    BY <1>2, <1>4 DEF Held
  <2>2. ChangeHolds(change[j])
    BY <2>1 DEF ThreadInv
  <2> QED BY <1>1, <2>1, <2>2 DEF ChangeHolds, Present, InternalPresent
<1>5. OneChangeEach'
  BY <1>2 DEF ThreadInv, OneChangeEach, Held
<1>6. AlwaysStaffed' /\ \A t \in Threads : thread'[t] = "absent" => participant'[t] = <<>>
  BY <1>1 DEF ThreadInv, AlwaysStaffed, Present, InternalPresent
<1> QED BY <1>2, <1>3, <1>4, <1>5, <1>6 DEF ThreadInv

\* Requests and memberships change under a call; nothing a call decided on its
\* thread depends on them.
LEMMA ThreadFrame ==
  ASSUME ThreadInv, UNCHANGED <<thread, participant, posted, change>>,
         negotiable' \in BOOLEAN, membership' \subseteq Members
  PROVE  ThreadInv'
BY DEF ThreadInv, ThreadTypeOK, Held, ChangeHolds, OneChangeEach, AlwaysStaffed, Present,
       InternalPresent

\* Every step keeps the invariant.
LEMMA ThreadNextStep ==
  ASSUME ThreadInv, [ThreadNext]_threadVars
  PROVE  ThreadInv'
<1>1. CASE UNCHANGED threadVars
  <2>1. UNCHANGED <<negotiable, membership, thread, participant, posted, change>>
    BY <1>1 DEF threadVars
  <2> QED BY <2>1, ThreadFrame DEF ThreadInv, ThreadTypeOK
<1>2. CASE NegotiationMoves
  BY <1>2, ThreadFrame DEF NegotiationMoves, ThreadInv, ThreadTypeOK
<1>3. ASSUME NEW u \in Members, MembershipChanges(u)
      PROVE  ThreadInv'
  BY <1>3, ThreadFrame DEF MembershipChanges, ThreadInv, ThreadTypeOK
<1>4. ASSUME NEW k \in ThreadCalls, CommitChange(k) \/ AbandonChange(k)
      PROVE  ThreadInv'
  BY <1>4, CommitChangeStep, AbandonChangeStep
<1>5. ASSUME NEW k \in ThreadCalls, NEW t \in Threads,
             \/ \E actor \in Members :
                   \/ CreateThread(k, t, actor)
                   \/ \E status \in {"closed", "cancelled"} : SetThreadStatus(k, t, actor, status)
                   \/ \E who \in Members \cup Externals : AddParticipant(k, t, actor, who)
                   \/ \E i \in DOMAIN participant[t] : RemoveParticipant(k, t, actor, i)
             \/ \E i \in DOMAIN participant[t], reply \in {0} \cup DOMAIN posted[t] :
                   CreateMessage(k, t, i, reply)
      PROVE  ThreadInv'
  BY <1>5, ThreadCallStep
<1> QED BY <1>1, <1>2, <1>3, <1>4, <1>5 DEF ThreadNext

\* Nothing is created and nothing is pending at first.
LEMMA ThreadInitStep ==
  ASSUME ThreadInit
  PROVE  ThreadInv
<1>1. thread \in [Threads -> ThreadStatus]
  BY DEF ThreadInit, ThreadStatus
<1>2. \A t \in Threads : participant[t] = <<>> /\ posted[t] = <<>>
  BY DEF ThreadInit
<1>3. /\ participant \in [Threads -> Seq(ParticipantRow)]
      /\ posted \in [Threads -> Seq(MessageRow)]
  BY EmptySeq DEF ThreadInit
<1>4. /\ change \in [ThreadCalls -> ThreadChange \cup {NoChange}]
      /\ \A k \in ThreadCalls : change[k] = NoChange
  BY DEF ThreadInit
<1>5. ThreadTypeOK
  BY <1>1, <1>3, <1>4 DEF ThreadInit, ThreadTypeOK
<1> QED BY <1>2, <1>4, <1>5 DEF ThreadInit, ThreadInv, Held, OneChangeEach, AlwaysStaffed

\* The invariant of the threads is inductive.
THEOREM ThreadInvariant == ThreadSpec => []ThreadInv
<1>1. ThreadInit => ThreadInv
  BY ThreadInitStep
<1>2. ThreadInv /\ [ThreadNext]_threadVars => ThreadInv'
  BY ThreadNextStep
<1> QED BY <1>1, <1>2, PTL DEF ThreadSpec

\* However many calls add, remove, close and post at once, a thread that exists
\* has an internal participant, and nobody is in it twice.
THEOREM ThreadsStaffed == ThreadSpec => []AlwaysStaffed
<1>1. ThreadInv => AlwaysStaffed
  BY DEF ThreadInv
<1> QED BY <1>1, ThreadInvariant, PTL


-----------------------------------------------------------------------------
(* Notices.                                                                *)

\* A key has at most one emission in flight, and one that exists is told to
\* nobody again.
NoticeInv ==
    /\ NoticeTypeOK
    /\ \A j, k \in EmitCalls :
          emission[j] # NoEmission /\ emission[k] # NoEmission
            /\ emission[j].key = emission[k].key => j = k
    /\ \A k \in EmitCalls :
          emission[k] # NoEmission /\ notified[emission[k].key] => emission[k].to = {}

\* Emissions keep the invariant; what is inserted is decided when nobody else
\* can insert the key.
LEMMA EmitStep ==
  ASSUME NoticeInv, NEW k \in EmitCalls, NEW key \in EventKeys, Emit(k, key)
  PROVE  NoticeInv'
<1>1. UNCHANGED <<roleOf, notified, inbox, seen>>
  BY DEF Emit
<1>2. Deliveries(key) \in SUBSET Users
  BY DEF Deliveries, Recipients
<1>3. [key |-> key, to |-> Deliveries(key)] \in [key : EventKeys, to : SUBSET Users]
  BY <1>2
<1>4. /\ emission' \in [EmitCalls -> {NoEmission} \cup [key : EventKeys, to : SUBSET Users]]
      /\ \A j \in EmitCalls : emission'[j] = IF j = k THEN [key |-> key, to |-> Deliveries(key)]
                                                      ELSE emission[j]
  BY <1>3 DEF Emit, NoticeInv, NoticeTypeOK
<1>5. notified[key] => Deliveries(key) = {}
  BY DEF Deliveries
<1> QED BY <1>1, <1>4, <1>5 DEF Emit, KeyFree, NoticeInv, NoticeTypeOK

\* A committed emission is the one of its key; what follows tells nobody.
LEMMA CommitEmissionStep ==
  ASSUME NoticeInv, NEW k \in EmitCalls, CommitEmission(k)
  PROVE  /\ NoticeInv'
         /\ \A key \in EventKeys : notified[key] => notified'[key] /\ inbox'[key] = inbox[key]
<1>1. PICK key \in EventKeys : key = emission[k].key
  BY DEF CommitEmission, NoticeInv, NoticeTypeOK
<1>2. PICK to \in SUBSET Users : to = emission[k].to
  BY DEF CommitEmission, NoticeInv, NoticeTypeOK
<1>3. /\ notified' \in [EventKeys -> BOOLEAN]
      /\ \A x \in EventKeys : notified'[x] = IF x = key THEN TRUE ELSE notified[x]
  BY <1>1 DEF CommitEmission, NoticeInv, NoticeTypeOK
<1>4. /\ inbox' \in [EventKeys -> SUBSET Users]
      /\ \A x \in EventKeys : inbox'[x] = IF x = key THEN inbox[key] \cup to ELSE inbox[x]
  BY <1>1, <1>2 DEF CommitEmission, NoticeInv, NoticeTypeOK
<1>5. /\ emission' \in [EmitCalls -> {NoEmission} \cup [key : EventKeys, to : SUBSET Users]]
      /\ \A j \in EmitCalls : emission'[j] = IF j = k THEN NoEmission ELSE emission[j]
  BY DEF CommitEmission, NoticeInv, NoticeTypeOK
<1>6. UNCHANGED <<roleOf, seen>> /\ emission[k] # NoEmission
  BY DEF CommitEmission
<1>7. NoticeTypeOK'
  BY <1>3, <1>4, <1>5, <1>6 DEF NoticeInv, NoticeTypeOK
<1>8. \A j \in EmitCalls : emission'[j] # NoEmission => emission[j].key # key
  BY <1>1, <1>5, <1>6 DEF NoticeInv
<1>9. \A j \in EmitCalls :
        emission'[j] # NoEmission /\ notified'[emission'[j].key] => emission'[j].to = {}
  <2> SUFFICES ASSUME NEW j \in EmitCalls, emission'[j] # NoEmission,
                      notified'[emission'[j].key]
               PROVE  emission'[j].to = {}
    OBVIOUS
  <2>1. emission'[j] = emission[j] /\ emission[j] # NoEmission
    BY <1>5
  <2>2. emission[j].key \in EventKeys
    BY <2>1 DEF NoticeInv, NoticeTypeOK
  <2>3. notified[emission[j].key]
    BY <1>3, <1>8, <2>1, <2>2
  <2> QED BY <2>1, <2>3 DEF NoticeInv
<1>a. notified[key] => to = {}
  BY <1>1, <1>2, <1>6 DEF NoticeInv
<1>b. \A x, j \in EmitCalls :
        emission'[x] # NoEmission /\ emission'[j] # NoEmission
          /\ emission'[x].key = emission'[j].key => x = j
  BY <1>5 DEF NoticeInv
<1> QED BY <1>3, <1>4, <1>7, <1>9, <1>a, <1>b DEF NoticeInv

\* Every step keeps the invariant, and the recipients of what was told.
LEMMA NoticeNextStep ==
  ASSUME NoticeInv, [NoticeNext]_noticeVars
  PROVE  /\ NoticeInv'
         /\ \A key \in EventKeys :
               /\ notified[key] => notified'[key] /\ inbox'[key] = inbox[key]
               /\ seen[key] \subseteq seen'[key]
<1>1. CASE UNCHANGED noticeVars
  BY <1>1 DEF noticeVars, NoticeInv, NoticeTypeOK
<1>2. ASSUME NEW k \in EmitCalls, NEW key \in EventKeys, Emit(k, key)
      PROVE  NoticeInv' /\ UNCHANGED <<notified, inbox, seen>>
  BY <1>2, EmitStep DEF Emit
<1>3. ASSUME NEW k \in EmitCalls, CommitEmission(k)
      PROVE  /\ NoticeInv' /\ UNCHANGED seen
             /\ \A key \in EventKeys : notified[key] => notified'[key] /\ inbox'[key] = inbox[key]
  BY <1>3, CommitEmissionStep DEF CommitEmission
<1>4. ASSUME NEW k \in EmitCalls, RollBackEmission(k)
      PROVE  NoticeInv' /\ UNCHANGED <<notified, inbox, seen>>
  <2>1. /\ emission' \in [EmitCalls -> {NoEmission} \cup [key : EventKeys, to : SUBSET Users]]
        /\ \A j \in EmitCalls : emission'[j] = IF j = k THEN NoEmission ELSE emission[j]
    BY <1>4 DEF RollBackEmission, NoticeInv, NoticeTypeOK
  <2>2. UNCHANGED <<roleOf, notified, inbox, seen>>
    BY <1>4 DEF RollBackEmission
  <2> QED BY <2>1, <2>2 DEF NoticeInv, NoticeTypeOK
<1>5. ASSUME NEW u \in Users, NEW key \in EventKeys, MarkRead(u, key)
      PROVE  /\ NoticeInv' /\ UNCHANGED <<notified, inbox>>
             /\ \A x \in EventKeys : seen[x] \subseteq seen'[x]
  <2>1. UNCHANGED <<roleOf, notified, inbox, emission>>
    BY <1>5 DEF MarkRead
  <2>2. /\ seen' \in [EventKeys -> SUBSET Users]
        /\ \A x \in EventKeys : seen'[x] \subseteq inbox[x] /\ seen[x] \subseteq seen'[x]
    BY <1>5 DEF MarkRead, NoticeInv, NoticeTypeOK
  <2> QED BY <2>1, <2>2 DEF NoticeInv, NoticeTypeOK
<1>6. ASSUME NEW u \in Users, NEW role \in Roles, ChangeRole(u, role)
      PROVE  NoticeInv' /\ UNCHANGED <<notified, inbox, seen>>
  <2>1. UNCHANGED <<notified, inbox, seen, emission>> /\ roleOf' \in [Users -> Roles]
    BY <1>6 DEF ChangeRole, NoticeInv, NoticeTypeOK
  <2> QED BY <2>1 DEF NoticeInv, NoticeTypeOK
<1> QED BY <1>1, <1>2, <1>3, <1>4, <1>5, <1>6 DEF NoticeNext, noticeVars

\* Nothing is told at first.
LEMMA NoticeInitStep ==
  ASSUME NoticeInit
  PROVE  NoticeInv
BY DEF NoticeInit, NoticeInv, NoticeTypeOK

\* The invariant of the notices is inductive.
THEOREM NoticeInvariant == NoticeSpec => []NoticeInv
<1>1. NoticeInit => NoticeInv
  BY NoticeInitStep
<1>2. NoticeInv /\ [NoticeNext]_noticeVars => NoticeInv'
  BY NoticeNextStep
<1> QED BY <1>1, <1>2, PTL DEF NoticeSpec

\* Whatever roles change and however often an event is emitted again, its
\* recipients are the ones of the first emission that committed.
THEOREM RecipientsFixed == NoticeSpec => RecipientsAreFixed
<1>1. NoticeInv /\ [NoticeNext]_noticeVars =>
        [\A key \in EventKeys :
            /\ notified[key] => notified'[key] /\ inbox'[key] = inbox[key]
            /\ seen[key] \subseteq seen'[key]]_noticeVars
  BY NoticeNextStep
<1> QED BY <1>1, NoticeInvariant, PTL DEF NoticeSpec, RecipientsAreFixed


-----------------------------------------------------------------------------
(* Capacity.                                                               *)

CapacityWrite ==
    [op : {"update"}, of : Subjects, row : SubjectRow]
    \cup [op : {"assign"}, row : AssignmentRow]
    \cup [op : {"close"}, of : Nat, status : {"ended", "cancelled"}]

CapacityInv ==
    /\ CapacityTypeOK
    /\ work \in [CapacityCalls -> CapacityWrite \cup {NoWork}]

\* A pending write, by its operation.
LEMMA WriteFields ==
  ASSUME NEW w \in CapacityWrite
  PROVE  /\ w.op \in {"update", "assign", "close"}
         /\ w.op = "update" => w.of \in Subjects /\ w.row \in SubjectRow
         /\ w.op = "assign" => w.row \in AssignmentRow
         /\ w.op = "close" => w.of \in Nat /\ w.status \in {"ended", "cancelled"}
BY DEF CapacityWrite

\* What a call may do to the rows that others read: types stay, an ended
\* assignment and a released block stay as they are.
EndsStand ==
  /\ subject' \in [Subjects -> SubjectRow]
  /\ assignment' \in Seq(AssignmentRow)
  /\ block' \in Seq(BlockRow)
  /\ \A i \in DOMAIN assignment :
        assignment[i].status # "active" => assignment'[i] = assignment[i]
  /\ \A i \in DOMAIN block : block[i].released => block'[i] = block[i]

\* The first step of a call: what it read becomes what it will write.
LEMMA BeginStep ==
  ASSUME CapacityInv, NEW k \in CapacityCalls, NEW w \in CapacityWrite, Begin(k, w)
  PROVE  CapacityInv' /\ EndsStand
<1>1. UNCHANGED <<subject, assignment, block, filed>>
  BY DEF Begin
<1>2. work' \in [CapacityCalls -> CapacityWrite \cup {NoWork}]
  BY DEF Begin, CapacityInv
<1>3. CapacityTypeOK'
  BY <1>1, <1>2, WriteFields DEF CapacityInv, CapacityTypeOK
<1> QED BY <1>1, <1>2, <1>3 DEF CapacityInv, CapacityTypeOK, EndsStand

\* The second step: the write is made, and the call is over.
LEMMA CapacityCommit ==
  ASSUME CapacityInv, NEW k \in CapacityCalls,
         work' = [work EXCEPT ![k] = NoWork], EndsStand, UNCHANGED filed
  PROVE  CapacityInv'
<1>1. work' \in [CapacityCalls -> CapacityWrite \cup {NoWork}]
  BY DEF CapacityInv
<1>2. CapacityTypeOK'
  BY <1>1, WriteFields DEF CapacityInv, CapacityTypeOK, EndsStand
<1> QED BY <1>1, <1>2 DEF CapacityInv

\* A write back of a whole row touches no assignment.
LEMMA CommitUpdateStep ==
  ASSUME CapacityInv, NEW k \in CapacityCalls, CommitUpdate(k)
  PROVE  CapacityInv' /\ EndsStand
<1>1. work[k] \in CapacityWrite
  BY DEF CommitUpdate, CapacityInv
<1>2. work[k].of \in Subjects /\ work[k].row \in SubjectRow
  BY <1>1, WriteFields DEF CommitUpdate
<1>3. EndsStand
  BY <1>2 DEF CommitUpdate, CapacityInv, CapacityTypeOK, EndsStand
<1> QED BY <1>3, CapacityCommit DEF CommitUpdate

\* A new assignment comes after the others.
LEMMA CommitAssignmentStep ==
  ASSUME CapacityInv, NEW k \in CapacityCalls, CommitAssignment(k)
  PROVE  CapacityInv' /\ EndsStand
<1>1. work[k] \in CapacityWrite
  BY DEF CommitAssignment, CapacityInv
<1>2. PICK row \in AssignmentRow : row = work[k].row
  BY <1>1, WriteFields DEF CommitAssignment
<1>3. assignment \in Seq(AssignmentRow)
  BY DEF CapacityInv, CapacityTypeOK
<1>4. /\ Append(assignment, row) \in Seq(AssignmentRow)
      /\ \A i \in DOMAIN assignment : Append(assignment, row)[i] = assignment[i]
  BY <1>2, <1>3, AppendProperties
<1>5. assignment' \in {assignment, Append(assignment, row)} /\ UNCHANGED <<subject, block>>
  BY <1>2 DEF CommitAssignment
<1>6. EndsStand
  BY <1>3, <1>4, <1>5 DEF CapacityInv, CapacityTypeOK, EndsStand
<1> QED BY <1>6, CapacityCommit DEF CommitAssignment

\* A close that lost the race writes nothing.
LEMMA CommitCloseStep ==
  ASSUME CapacityInv, NEW k \in CapacityCalls, CommitClose(k)
  PROVE  CapacityInv' /\ EndsStand
<1>1. work[k] \in CapacityWrite
  BY DEF CommitClose, CapacityInv
<1>2. PICK i \in Nat, status \in {"ended", "cancelled"} :
        i = work[k].of /\ status = work[k].status
  BY <1>1, WriteFields DEF CommitClose
<1>3. assignment \in Seq(AssignmentRow)
  BY DEF CapacityInv, CapacityTypeOK
<1>4. CASE i \in ActiveAssignments
  <2> DEFINE row == [assignment[i] EXCEPT !.status = status]
  <2>1. i \in DOMAIN assignment /\ assignment[i].status = "active"
    BY <1>4 DEF ActiveAssignments
  <2>2. assignment[i] \in AssignmentRow
    BY <1>3, <2>1
  <2>3. row \in AssignmentRow
    BY <2>2 DEF AssignmentRow
  <2>4. assignment' = [assignment EXCEPT ![i] = row]
    BY <1>2, <1>4 DEF CommitClose
  <2>5. assignment' \in Seq(AssignmentRow)
    BY <1>3, <2>1, <2>3, <2>4, ExceptSeq
  <2>6. \A j \in DOMAIN assignment : j # i => assignment'[j] = assignment[j]
    BY <2>4
  <2>7. EndsStand
    BY <2>1, <2>5, <2>6 DEF CommitClose, CapacityInv, CapacityTypeOK, EndsStand
  <2> QED BY <2>7, CapacityCommit DEF CommitClose
<1>5. CASE i \notin ActiveAssignments
  <2>1. assignment' = assignment
    BY <1>2, <1>5 DEF CommitClose
  <2>2. EndsStand
    BY <2>1 DEF CommitClose, CapacityInv, CapacityTypeOK, EndsStand
  <2> QED BY <2>2, CapacityCommit DEF CommitClose
<1> QED BY <1>4, <1>5

\* The calls of the register: each becomes a pending write or makes one.
LEMMA RegisterStep ==
  ASSUME CapacityInv, NEW k \in CapacityCalls,
         \/ \E s \in Subjects, row \in SubjectRow : UpdateSubject(k, s, row)
         \/ \E d \in Drivers, v \in Assets, c \in Carriers : CreateAssignment(k, d, v, c)
         \/ \E i \in DOMAIN assignment, status \in {"ended", "cancelled"} :
               CloseAssignment(k, i, status)
         \/ CommitUpdate(k) \/ CommitAssignment(k) \/ CommitClose(k)
  PROVE  CapacityInv' /\ EndsStand
<1>1. ASSUME NEW s \in Subjects, NEW row \in SubjectRow, UpdateSubject(k, s, row)
      PROVE  CapacityInv' /\ EndsStand
  <2> DEFINE w == [op |-> "update", of |-> s, row |-> row]
  <2>1. w \in CapacityWrite /\ Begin(k, w)
    BY <1>1 DEF CapacityWrite, UpdateSubject
  <2> HIDE DEF w
  <2> QED BY <2>1, BeginStep
<1>2. ASSUME NEW d \in Drivers, NEW v \in Assets, NEW c \in Carriers,
             CreateAssignment(k, d, v, c)
      PROVE  CapacityInv' /\ EndsStand
  <2> DEFINE w == [op |-> "assign", row |-> [driver |-> d, vehicle |-> v, carrier |-> c,
                                             status |-> "active"]]
  <2>1. w \in CapacityWrite /\ Begin(k, w)
    BY <1>2 DEF CapacityWrite, AssignmentRow, CreateAssignment
  <2> HIDE DEF w
  <2> QED BY <2>1, BeginStep
<1>3. ASSUME NEW i \in DOMAIN assignment, NEW status \in {"ended", "cancelled"},
             CloseAssignment(k, i, status)
      PROVE  CapacityInv' /\ EndsStand
  <2> DEFINE w == [op |-> "close", of |-> i, status |-> status]
  <2>1. i \in Nat
    BY DEF CapacityInv, CapacityTypeOK
  <2>2. w \in CapacityWrite /\ Begin(k, w)
    BY <1>3, <2>1 DEF CapacityWrite, CloseAssignment
  <2> HIDE DEF w
  <2> QED BY <2>2, BeginStep
<1> QED BY <1>1, <1>2, <1>3, CommitUpdateStep, CommitAssignmentStep, CommitCloseStep

\* A new block comes after the others, and a released one is not released twice.
LEMMA BlockStep ==
  ASSUME CapacityInv, NEW s \in Subjects,
         CreateBlock(s) \/ \E i \in DOMAIN block : ReleaseBlock(s, i)
  PROVE  CapacityInv' /\ EndsStand
<1>1. block \in Seq(BlockRow) /\ UNCHANGED <<subject, assignment, filed, work>>
  BY DEF CapacityInv, CapacityTypeOK, CreateBlock, ReleaseBlock, SetBlocks
<1>2. /\ block' \in Seq(BlockRow)
      /\ \A i \in DOMAIN block : block[i].released => block'[i] = block[i]
  <2>1. CASE CreateBlock(s)
    <3>1. [owner |-> s, released |-> FALSE] \in BlockRow
      BY DEF BlockRow
    <3> QED BY <1>1, <2>1, <3>1, AppendProperties DEF CreateBlock, SetBlocks
  <2>2. ASSUME NEW i \in DOMAIN block, ReleaseBlock(s, i)
        PROVE  /\ block' \in Seq(BlockRow)
               /\ \A j \in DOMAIN block : block[j].released => block'[j] = block[j]
    <3>1. block[i] \in BlockRow /\ ~block[i].released
      BY <1>1, <2>2 DEF ReleaseBlock
    <3>2. [block[i] EXCEPT !.released = TRUE] \in BlockRow
      BY <3>1 DEF BlockRow
    <3>3. block' = [block EXCEPT ![i] = [block[i] EXCEPT !.released = TRUE]]
      BY <2>2 DEF ReleaseBlock, SetBlocks
    <3> QED BY <1>1, <3>1, <3>2, <3>3, ExceptSeq
  <2> QED BY <2>1, <2>2
<1> QED BY <1>1, <1>2 DEF CapacityInv, CapacityTypeOK, EndsStand

\* Whatever is filed, nothing else changes.
LEMMA FiledStep ==
  ASSUME CapacityInv, filed' \subseteq Filing, UNCHANGED <<subject, assignment, block, work>>
  PROVE  CapacityInv' /\ EndsStand
BY DEF CapacityInv, CapacityTypeOK, EndsStand

\* A row of the dossier is of a kind, an owner and a key.
LEMMA FilingStep ==
  ASSUME CapacityInv, NEW kind \in DriverKinds \cup AssetKinds, NEW s \in Subjects,
         NEW x \in Keys, File(Row(kind, s, x)) \/ Upsert(Row(kind, s, x))
  PROVE  CapacityInv' /\ EndsStand
<1>1. filed' \subseteq Filing
  BY DEF CapacityInv, CapacityTypeOK, Filing, Row, File, Upsert
<1>2. UNCHANGED <<subject, assignment, block, work>>
  BY DEF File, Upsert
<1> QED BY <1>1, <1>2, FiledStep

\* Every call of the dossier files a row.
LEMMA DossierStep ==
  ASSUME CapacityInv, DossierNext
  PROVE  CapacityInv' /\ EndsStand
<1>1. ASSUME NEW d \in Drivers, NEW x \in Keys,
             \/ CreateDriverDocument(d, x) \/ CreateDriverQualification(d, x)
             \/ CreateDriverCourse(d, x) \/ SetDriverAvailability(d, x)
             \/ CreateDriverUnavailability(d, x) \/ CreateDriverEmergencyContact(d, x)
             \/ CreateDriverRating(d, x)
      PROVE  \E kind \in DriverKinds : File(Row(kind, d, x)) \/ Upsert(Row(kind, d, x))
  BY <1>1 DEF DriverKinds, CreateDriverDocument, CreateDriverQualification,
       CreateDriverCourse, SetDriverAvailability, CreateDriverUnavailability,
       CreateDriverEmergencyContact, CreateDriverRating
<1>2. ASSUME NEW a \in Assets, NEW x \in Keys,
             \/ SetAssetCapabilities(a, x) \/ CreateAssetDocument(a, x)
             \/ CreateMaintenancePlan(a, x) \/ CreateMaintenance(a, x)
             \/ CreateMaintenanceItem(a, x) \/ CreateInsurance(a, x)
             \/ CreateInspection(a, x) \/ SetAssetAvailability(a, x)
             \/ CreateAssetUnavailability(a, x) \/ CreateAssetLocation(a, x)
      PROVE  \E kind \in AssetKinds : File(Row(kind, a, x)) \/ Upsert(Row(kind, a, x))
  BY <1>2 DEF AssetKinds, SetAssetCapabilities, CreateAssetDocument, CreateMaintenancePlan,
       CreateMaintenance, CreateMaintenanceItem, CreateInsurance, CreateInspection,
       SetAssetAvailability, CreateAssetUnavailability, CreateAssetLocation
<1>3. \A s \in Subjects, x \in Keys, kind \in DriverKinds \cup AssetKinds :
        File(Row(kind, s, x)) \/ Upsert(Row(kind, s, x)) => CapacityInv' /\ EndsStand
  BY FilingStep
<1> QED BY <1>1, <1>2, <1>3, BlockStep DEF DossierNext, Subjects

\* Every step keeps the invariant and what has ended.
LEMMA CapacityNextStep ==
  ASSUME CapacityInv, [CapacityNext]_capacityVars
  PROVE  CapacityInv' /\ EndsStand
<1>1. CASE UNCHANGED capacityVars
  BY <1>1 DEF capacityVars, CapacityInv, CapacityTypeOK, EndsStand
<1>2. CASE CapacityNext
  BY <1>2, RegisterStep, DossierStep DEF CapacityNext
<1> QED BY <1>1, <1>2

\* No assignment, no block, no call at first.
LEMMA CapacityInitStep ==
  ASSUME CapacityInit
  PROVE  CapacityInv
<1>1. subject \in [Subjects -> SubjectRow]
  BY DEF CapacityInit, SubjectRow
<1>2. assignment \in Seq(AssignmentRow) /\ block \in Seq(BlockRow)
  BY EmptySeq DEF CapacityInit
<1> QED BY <1>1, <1>2 DEF CapacityInit, CapacityInv, CapacityTypeOK

\* The invariant of the register is inductive.
THEOREM CapacityInvariant == CapacitySpec => []CapacityInv
<1>1. CapacityInit => CapacityInv
  BY CapacityInitStep
<1>2. CapacityInv /\ [CapacityNext]_capacityVars => CapacityInv'
  BY CapacityNextStep
<1> QED BY <1>1, <1>2, PTL DEF CapacitySpec

\* However many calls close an assignment at once, it keeps the end that was
\* written first, and a block is released once.
THEOREM EndsStay == CapacitySpec => EndedStaysEnded
<1>1. CapacityInv /\ [CapacityNext]_capacityVars =>
        [/\ \A i \in DOMAIN assignment :
               assignment[i].status # "active" => assignment'[i] = assignment[i]
         /\ \A i \in DOMAIN block : block[i].released => block'[i] = block[i]]_capacityVars
  BY CapacityNextStep DEF EndsStand
<1> QED BY <1>1, CapacityInvariant, PTL DEF CapacitySpec, EndedStaysEnded

-----------------------------------------------------------------------------
(* Documents and their risk.                                               *)

DocumentInv == DocumentTypeOK /\ ValidWasReviewed

\* A step that writes one document writes a row, valid only after a review.
LEMMA SetDocumentStep ==
  ASSUME DocumentInv, NEW d \in Docs, NEW row \in DocumentRow, SetDocument(d, row),
         row.status = "valid" => row.last \in {"valid", "trusted"}
  PROVE  DocumentInv'
<1>1. /\ document' \in [Docs -> DocumentRow]
      /\ \A x \in Docs : document'[x] = IF x = d THEN row ELSE document[x]
  BY DEF SetDocument, DocumentInv, DocumentTypeOK
<1>2. UNCHANGED <<today, docType, register, policy, overrides>>
  BY DEF SetDocument
<1> QED BY <1>1, <1>2 DEF DocumentInv, DocumentTypeOK, ValidWasReviewed

\* Every change of one document keeps the invariant.
LEMMA DocumentStep ==
  ASSUME DocumentInv, NEW d \in Docs,
         \/ \E expires \in ExpiryDates \cup {0} :
               \/ \E moment \in Moments : CreateDocument(d, expires, moment)
               \/ UpdateDocument(d, expires)
         \/ SoftDelete(d)
         \/ CommitUpload(d)
         \/ \E result \in Results : Validate(d, result)
         \/ LinkDocument(d)
  PROVE  DocumentInv'
<1>0. /\ document[d] \in DocumentRow
      /\ document[d].status = "valid" => document[d].last \in {"valid", "trusted"}
  BY DEF DocumentInv, DocumentTypeOK, ValidWasReviewed
<1>a. \A expires \in ExpiryDates \cup {0} : expires \in Nat
  BY ComplianceAssumption
<1>b. \A expires \in Nat : ExpiryAware(expires, "valid") \in {"valid", "expired"}
  BY DEF ExpiryAware
<1>1. ASSUME NEW expires \in ExpiryDates \cup {0}, NEW moment \in Moments,
             CreateDocument(d, expires, moment)
      PROVE  DocumentInv'
  <2> DEFINE row == [NoDocument EXCEPT !.status = "draft", !.expires = expires,
                                       !.created = moment]
  <2>0. moment \in Nat
    BY ComplianceAssumption
  <2>1. row \in DocumentRow /\ row.status = "draft"
    BY <1>a, <2>0 DEF DocumentRow, NoDocument, DocumentStatus, Results
  <2>2. SetDocument(d, row)
    BY <1>1 DEF CreateDocument
  <2> HIDE DEF row
  <2> QED BY <2>1, <2>2, SetDocumentStep
<1>2. ASSUME NEW expires \in ExpiryDates \cup {0}, UpdateDocument(d, expires)
      PROVE  DocumentInv'
  <2> DEFINE row == [document[d] EXCEPT !.expires = expires]
  <2>1. /\ row \in DocumentRow
        /\ row.status = document[d].status /\ row.last = document[d].last
    BY <1>0, <1>a DEF DocumentRow
  <2>2. SetDocument(d, row)
    BY <1>2 DEF UpdateDocument
  <2> HIDE DEF row
  <2> QED BY <1>0, <2>1, <2>2, SetDocumentStep
<1>3. CASE SoftDelete(d)
  <2> DEFINE row == [document[d] EXCEPT !.status = "archived"]
  <2>1. row \in DocumentRow /\ row.status = "archived"
    BY <1>0 DEF DocumentRow, DocumentStatus
  <2>2. SetDocument(d, row)
    BY <1>3 DEF SoftDelete
  <2> HIDE DEF row
  <2> QED BY <2>1, <2>2, SetDocumentStep
<1>4. CASE CommitUpload(d)
  <2> DEFINE status == IF docType.requiresValidation THEN "pending"
                       ELSE ExpiryAware(document[d].expires, "valid")
             last == IF docType.requiresValidation THEN "upload" ELSE "trusted"
             row == Uploaded(document[d], status)
  <2>0. document[d].expires \in Nat
    BY <1>0 DEF DocumentRow
  <2>1. /\ status \in DocumentStatus /\ last \in {"upload", "trusted"}
        /\ status = "valid" => last = "trusted"
    BY <1>b, <2>0 DEF DocumentStatus
  <2>2. SetDocument(d, row)
    BY <1>4 DEF CommitUpload
  <2>3. row = [[[document[d] EXCEPT !.uploads = document[d].uploads + 1]
                   EXCEPT !.status = status] EXCEPT !.last = last]
    BY <1>0 DEF DocumentRow, Uploaded
  <2> HIDE DEF status, last
  <2>4. [document[d] EXCEPT !.uploads = document[d].uploads + 1] \in DocumentRow
    BY <1>0 DEF DocumentRow
  <2>5. row \in DocumentRow /\ row.status = status /\ row.last = last
    BY <2>1, <2>3, <2>4 DEF DocumentRow
  <2> HIDE DEF row
  <2> QED BY <2>1, <2>2, <2>5, SetDocumentStep
<1>5. ASSUME NEW result \in Results, Validate(d, result)
      PROVE  DocumentInv'
  <2>0. PICK latest \in {result, document[d].review} \ {"none"} :
          SetDocument(d, [document[d] EXCEPT !.review = latest, !.last = result,
              !.status = CASE result = "valid"   -> ExpiryAware(document[d].expires, "valid")
                           [] result = "invalid" -> "rejected"
                           [] OTHER              -> "pending"])
    BY <1>5 DEF Validate
  <2> DEFINE status == CASE result = "valid"   -> ExpiryAware(document[d].expires, "valid")
                         [] result = "invalid" -> "rejected"
                         [] OTHER              -> "pending"
             row == [document[d] EXCEPT !.review = latest, !.last = result, !.status = status]
  <2>1. document[d].expires \in Nat /\ latest \in Results
    BY <1>0, <2>0 DEF DocumentRow
  <2>2. status \in DocumentStatus /\ (status = "valid" => result = "valid")
    BY <1>b, <2>1 DEF DocumentStatus
  <2>3. SetDocument(d, row)
    BY <2>0
  <2> HIDE DEF status
  <2>4. row \in DocumentRow /\ row.status = status /\ row.last = result
    BY <1>0, <2>1, <2>2 DEF DocumentRow
  <2> HIDE DEF row
  <2> QED BY <2>2, <2>3, <2>4, SetDocumentStep
<1>6. CASE LinkDocument(d)
  <2> DEFINE row == [document[d] EXCEPT !.linked = TRUE]
  <2>1. /\ row \in DocumentRow
        /\ row.status = document[d].status /\ row.last = document[d].last
    BY <1>0 DEF DocumentRow
  <2>2. SetDocument(d, row)
    BY <1>6 DEF LinkDocument
  <2> HIDE DEF row
  <2> QED BY <1>0, <2>1, <2>2, SetDocumentStep
<1> QED BY <1>1, <1>2, <1>3, <1>4, <1>5, <1>6

\* Every step keeps the invariant: the type, the register, policies, overrides and
\* the day change no document.
LEMMA DocumentNextStep ==
  ASSUME DocumentInv, [DocumentNext]_documentVars
  PROVE  DocumentInv'
<1>1. CASE UNCHANGED documentVars
  BY <1>1 DEF documentVars, DocumentInv, DocumentTypeOK, ValidWasReviewed
<1>2. ASSUME NEW p \in Policies, UpsertPolicy(p)
      PROVE  DocumentInv'
  BY <1>2 DEF UpsertPolicy, DocumentInv, DocumentTypeOK, ValidWasReviewed
<1>3. ASSUME NEW context \in {"contracting", "trip"}, NEW until \in OverrideDays,
             CreateOverride(context, until)
      PROVE  DocumentInv'
  <2>1. overrides' \subseteq [context : {"contracting", "trip"}, until : OverrideDays]
    BY <1>3 DEF CreateOverride, DocumentInv, DocumentTypeOK
  <2>2. UNCHANGED <<today, docType, document, register, policy>>
    BY <1>3 DEF CreateOverride
  <2> QED BY <2>1, <2>2 DEF DocumentInv, DocumentTypeOK, ValidWasReviewed
<1>4. CASE NextDay
  <2>1. today' \in 1..MaxDay
    BY <1>4, ComplianceAssumption DEF NextDay, DocumentInv, DocumentTypeOK
  <2>2. UNCHANGED <<docType, document, register, policy, overrides>>
    BY <1>4 DEF NextDay
  <2> QED BY <2>1, <2>2 DEF DocumentInv, DocumentTypeOK, ValidWasReviewed
<1>5. ASSUME NEW status \in {"pending", "valid", "expired", "blocked", "inactive"},
             NEW validation \in {"pending", "validated", "rejected", "not_required"},
             NEW expires \in ExpiryDates \cup {0}, NEW moment \in Moments,
             RegisterDocument(status, validation, expires, moment)
      PROVE  DocumentInv'
  <2>1. expires \in Nat
    BY ComplianceAssumption
  <2>2. [status |-> status, validation |-> validation, expires |-> expires,
         created |-> moment] \in RegisterRow
    BY <2>1 DEF RegisterRow
  <2>3. register' \subseteq RegisterRow /\ UNCHANGED <<today, docType, document, policy, overrides>>
    BY <1>5, <2>2 DEF RegisterDocument, DocumentInv, DocumentTypeOK
  <2> QED BY <2>3 DEF DocumentInv, DocumentTypeOK, ValidWasReviewed
<1>6. ASSUME NEW type \in DocumentType, UpdateDocumentType(type)
      PROVE  DocumentInv'
  BY <1>6 DEF UpdateDocumentType, DocumentInv, DocumentTypeOK, ValidWasReviewed
<1> QED BY <1>1, <1>2, <1>3, <1>4, <1>5, <1>6, DocumentStep DEF DocumentNext

\* No document, no policy, no override on the first day.
LEMMA DocumentInitStep ==
  ASSUME DocumentInit
  PROVE  DocumentInv
<1>1. NoDocument \in DocumentRow
  BY DEF NoDocument, DocumentRow, DocumentStatus, Results
<1> QED BY <1>1, ComplianceAssumption
        DEF DocumentInit, DocumentInv, DocumentTypeOK, ValidWasReviewed, NoDocument

RiskInv == RiskTypeOK /\ ValidWasReviewed

\* A decision is one of the three.
LEMMA DecisionType ==
  ASSUME NEW signals
  PROVE  ResolveDecision(signals) \in {"approve", "review", "block"}
BY DEF ResolveDecision

\* One critical signal blocks, whatever the score; an approval had none above low.
LEMMA CriticalBlocks ==
  ASSUME NEW signals, NEW s \in signals
  PROVE  /\ s.severity = "critical" => ResolveDecision(signals) = "block"
         /\ s.severity \in {"critical", "high", "medium"} => ResolveDecision(signals) # "approve"
<1>1. s.severity \in {x.severity : x \in signals}
  OBVIOUS
<1>2. s.severity = "critical" => ResolveDecision(signals) = "block"
  BY <1>1 DEF ResolveDecision
<1>3. s.severity \in {"high", "medium"} => ResolveDecision(signals) # "approve"
  BY <1>1 DEF ResolveDecision
<1> QED BY <1>2, <1>3

\* A subject that contracting refuses is assessed block: a provider adds signals
\* and takes none away.
LEMMA RefusedIsBlocked ==
  ASSUME NEW s, NEW provider, Blocking("contracting")
  PROVE  SubjectDecision(s, provider) = "block"
<1> DEFINE signals == Merged(SubjectSignals(s) \cup ComplianceSignals, provider)
<1>1. Signal("COMPLIANCE_BLOCK", "critical", 80) \in ComplianceSignals
  BY DEF ComplianceSignals, Blocking
<1>2. Signal("COMPLIANCE_BLOCK", "critical", 80) \in signals
  BY <1>1 DEF Merged
<1>3. Signal("COMPLIANCE_BLOCK", "critical", 80).severity = "critical"
  BY DEF Signal
<1> HIDE DEF signals
<1>4. ResolveDecision(signals) = "block"
  BY <1>2, <1>3, CriticalBlocks
<1> QED BY <1>4 DEF SubjectDecision, signals

\* A document that is assessed approve raised nothing, so it would be compliant.
LEMMA ApprovedIsCompliant ==
  ASSUME NEW d, NEW provider, document[d] \in DocumentRow, Existing(d),
         DocumentDecision(d, provider) = "approve"
  PROVE  StateOf(AsCandidate(d)) \in {"valid", "expiring_soon"}
<1> DEFINE row == document[d]
           signals == Merged(DocumentSignals(d), provider)
<1>1. \A s \in DocumentSignals(d) : s.severity \notin {"critical", "high", "medium"}
  <2>1. DocumentSignals(d) \subseteq signals /\ ResolveDecision(signals) = "approve"
    BY DEF Merged, DocumentDecision
  <2> HIDE DEF signals
  <2> QED BY <2>1, CriticalBlocks
<1>2. row.status # "rejected"
  <2>1. row.status = "rejected" => Signal("DOCUMENT_REJECTED", "critical", 80) \in DocumentSignals(d)
    BY DEF DocumentSignals
  <2> QED BY <1>1, <2>1 DEF Signal
<1>3. row.status # "expired" /\ ~Lapsed(row)
  <2>1. row.status = "expired" \/ Lapsed(row) =>
          Signal("DOCUMENT_EXPIRED", "critical", 80) \in DocumentSignals(d)
    BY <1>2 DEF DocumentSignals
  <2> QED BY <1>1, <2>1 DEF Signal
<1>4. row.status \notin {"draft", "pending"}
  <2>1. row.status \in {"draft", "pending"} =>
          Signal("DOCUMENT_PENDING", "medium", 30) \in DocumentSignals(d)
    BY <1>2, <1>3 DEF DocumentSignals
  <2> QED BY <1>1, <2>1 DEF Signal
<1>5. row.status = "valid"
  BY <1>2, <1>3, <1>4 DEF Existing, DocumentRow, DocumentStatus
<1>6. /\ AsCandidate(d).status = "valid" /\ AsCandidate(d).validation = "validated"
      /\ AsCandidate(d).expires = row.expires
  BY <1>5 DEF AsCandidate
<1> QED BY <1>3, <1>6 DEF StateOf, Lapsed

\* Assessments are appended and touch no document.
LEMMA RiskNextStep ==
  ASSUME RiskInv, [RiskNext]_riskVars
  PROVE  RiskInv'
<1> DEFINE Assessment == [decision : {"approve", "review", "block"}, of : Nat]
<1>0. DocumentInv /\ assessments \in Seq(Assessment)
  BY DEF RiskInv, RiskTypeOK, DocumentInv
<1>1. SUFFICES DocumentInv' /\ assessments' \in Seq(Assessment)
  BY DEF RiskInv, RiskTypeOK, DocumentInv
<1>2. ASSUME NEW decision \in {"approve", "review", "block"}, NEW of \in Nat,
             Insert(decision, of)
      PROVE  DocumentInv' /\ assessments' \in Seq(Assessment)
  <2>1. [decision |-> decision, of |-> of] \in Assessment
    OBVIOUS
  <2>2. assessments' \in Seq(Assessment)
    BY <1>0, <1>2, <2>1 DEF Insert
  <2>3. UNCHANGED documentVars
    BY <1>2 DEF Insert
  <2> QED BY <1>0, <2>2, <2>3, DocumentNextStep
<1>3. CASE UNCHANGED riskVars
  <2>1. UNCHANGED documentVars /\ UNCHANGED assessments
    BY <1>3 DEF riskVars
  <2> QED BY <1>0, <2>1, DocumentNextStep
<1>4. CASE DocumentNext /\ UNCHANGED assessments
  BY <1>0, <1>4, DocumentNextStep
<1>5. ASSUME NEW s \in Snapshots, NEW provider \in ProviderSignals, EvaluateSubject(s, provider)
      PROVE  DocumentInv' /\ assessments' \in Seq(Assessment)
  <2>1. SubjectDecision(s, provider) \in {"approve", "review", "block"}
    BY DecisionType DEF SubjectDecision
  <2> QED BY <1>2, <1>5, <2>1 DEF EvaluateSubject
<1>6. ASSUME NEW d \in Docs, NEW provider \in ProviderSignals, EvaluateDocument(d, provider)
      PROVE  DocumentInv' /\ assessments' \in Seq(Assessment)
  <2>1. DocumentDecision(d, provider) \in {"approve", "review", "block"}
    BY DecisionType DEF DocumentDecision
  <2> QED BY <1>2, <1>6, <2>1 DEF EvaluateDocument
<1>7. ASSUME NEW i \in DOMAIN assessments, NEW decision \in {"approve", "review", "block"},
             Decide(i, decision)
      PROVE  DocumentInv' /\ assessments' \in Seq(Assessment)
  <2>1. i \in Nat
    BY <1>0
  <2> QED BY <1>2, <1>7, <2>1 DEF Decide
<1> QED BY <1>3, <1>4, <1>5, <1>6, <1>7 DEF RiskNext

\* Documents and assessments keep their types, and their reviews.
THEOREM RiskInvariant == RiskSpec => []RiskInv
<1>1. RiskInit => RiskInv
  BY DocumentInitStep, EmptySeq DEF RiskInit, RiskInv, RiskTypeOK, DocumentInv
<1>2. RiskInv /\ [RiskNext]_riskVars => RiskInv'
  BY RiskNextStep
<1> QED BY <1>1, <1>2, PTL DEF RiskSpec

\* The compliance check and the risk assessment of a subject agree, whatever a
\* provider adds and whatever the documents and policies have become.
THEOREM RiskAgrees == RiskSpec => []RiskAgreesWithCompliance
<1>1. RiskInv => RiskAgreesWithCompliance
  <2> SUFFICES ASSUME RiskInv PROVE RiskAgreesWithCompliance
    OBVIOUS
  <2>1. \A d \in Docs : document[d] \in DocumentRow
    BY DEF RiskInv, RiskTypeOK, DocumentTypeOK
  <2> QED BY <2>1, RefusedIsBlocked, ApprovedIsCompliant DEF RiskAgreesWithCompliance
<1> QED BY <1>1, RiskInvariant, PTL

\* Whatever is uploaded, reviewed and assessed in whatever order, and however the type
\* is edited meanwhile, a document is valid only right after a review that found it
\* valid or an upload that needed none.
THEOREM ValidReviewed == RiskSpec => []ValidWasReviewed
<1>1. RiskInv => ValidWasReviewed
  BY DEF RiskInv
<1> QED BY <1>1, RiskInvariant, PTL

-----------------------------------------------------------------------------
(* Records of a trip.                                                      *)

DeliveryRow == [stop : DeliveryStops, proof : Nat]

\* A pickup or delivery is proved at a stop of its kind, by a link to that stop or
\* to none.
Evidenced(t, row) ==
    row.type \in {"pickup", "delivery"} =>
        /\ row.stop \in (IF row.type = "pickup" THEN PickupStops ELSE DeliveryStops)
        /\ \E link \in paper[t] : Names(row, link) /\ link.stop \in {NoStop, row.stop}

\* A delivery at a stop rests on a proof of that stop.
Rests(t, d) ==
    /\ d.proof \in DOMAIN proof[t]
    /\ proof[t][d.proof].type = "delivery"
    /\ proof[t][d.proof].stop = d.stop

\* What a call checked without a lock and has not written yet.
StillChecked(c) ==
    /\ c.op = "link" => c.trip \in Journeys /\ c.row \in PaperRow
    /\ c.op = "prove" => c.trip \in Journeys /\ c.row \in ProofRow /\ Evidenced(c.trip, c.row)
    /\ c.op = "deliver" =>
          c.trip \in Journeys /\ c.row \in DeliveryRow /\ Rests(c.trip, c.row)

\* A document is linked to a trip once under each relation.
LinkedOnce(links) == \A link, other \in links : Names(link, other) => link = other

EvidenceInv ==
    /\ paper \in [Journeys -> SUBSET PaperRow]
    /\ \A t \in Journeys : LinkedOnce(paper[t])
    /\ proof \in [Journeys -> Seq(ProofRow)]
    /\ delivered \in [Journeys -> SUBSET DeliveryRow]
    /\ DOMAIN record = RecordCalls
    /\ \A k \in RecordCalls : record[k] # NoRecord => StillChecked(record[k])
    /\ \A t \in Journeys : \A i \in DOMAIN proof[t] : Evidenced(t, proof[t][i])
    /\ \A t \in Journeys : \A d \in delivered[t] : Rests(t, d)

\* Links and proofs are never removed: what rests on them goes on resting on them.
LEMMA EvidenceGrows ==
  ASSUME NEW t, paper[t] \subseteq paper'[t],
         DOMAIN proof[t] \subseteq DOMAIN proof'[t],
         \A i \in DOMAIN proof[t] : proof'[t][i] = proof[t][i]
  PROVE  /\ \A row : Evidenced(t, row) => Evidenced(t, row)'
         /\ \A d : Rests(t, d) => Rests(t, d)'
BY DEF Evidenced, Rests, Names

\* Nothing but the calls in flight changes, by what is checked in full.
LEMMA CheckedStep ==
  ASSUME EvidenceInv, NEW k \in RecordCalls, NEW what, Check(k, what), StillChecked(what)
  PROVE  EvidenceInv'
<1>1. UNCHANGED <<paper, proof, delivered>>
  BY DEF Check, RowsUnchanged
<1>2. record' = [record EXCEPT ![k] = what] /\ DOMAIN record = RecordCalls
  BY DEF Check, EvidenceInv
<1>3. \A c : StillChecked(c) => StillChecked(c)'
  BY <1>1 DEF StillChecked, Evidenced, Rests
<1>4. \A j \in RecordCalls : record'[j] # NoRecord => StillChecked(record[j])'
  BY <1>2, <1>3 DEF EvidenceInv
<1>5. /\ \A t \in Journeys : \A i \in DOMAIN proof'[t] : Evidenced(t, proof[t][i])'
      /\ \A t \in Journeys : \A d \in delivered'[t] : Rests(t, d)'
  BY <1>1 DEF EvidenceInv, Evidenced, Rests
<1> QED BY <1>1, <1>2, <1>4, <1>5 DEF EvidenceInv

\* Each call leaves a row that is right when it is checked.
LEMMA RecordTripStep ==
  ASSUME EvidenceInv, NEW k \in RecordCalls, NEW t \in Journeys, RecordTrip(k, t)
  PROVE  EvidenceInv'
<1>1. ASSUME NEW e \in ProviderEvents, CheckLocation(k, t, e) PROVE EvidenceInv'
  <2>1. StillChecked([op |-> "locate", trip |-> t, event |-> e])
    BY DEF StillChecked
  <2> QED BY <1>1, <2>1, CheckedStep DEF CheckLocation
<1>2. ASSUME NEW row \in PaperRow, CheckLinkDocument(k, t, row) PROVE EvidenceInv'
  <2>1. StillChecked([op |-> "link", trip |-> t, row |-> row])
    BY DEF StillChecked
  <2> QED BY <1>2, <2>1, CheckedStep DEF CheckLinkDocument
<1>3. ASSUME NEW kind \in {"expense", "toll", "fuel"}, CheckCost(k, t, kind)
      PROVE  EvidenceInv'
  <2> DEFINE what == [op |-> "spend", trip |-> t,
                      row |-> [kind |-> kind, status |-> "reported"]]
  <2>1. StillChecked(what)
    BY DEF StillChecked
  <2> QED BY <1>3, <2>1, CheckedStep DEF CheckCost
<1>4. ASSUME NEW i, NEW s, CheckExpenseStatus(k, t, i, s) PROVE EvidenceInv'
  <2>1. StillChecked([op |-> "review", trip |-> t, cost |-> i, status |-> s])
    BY DEF StillChecked
  <2> QED BY <1>4, <2>1, CheckedStep DEF CheckExpenseStatus
<1>5. ASSUME NEW row \in ProofRow, CheckProof(k, t, row) PROVE EvidenceInv'
  <2>1. Evidenced(t, row)
    BY <1>5 DEF CheckProof, ProofGuard, Evidenced
  <2>2. StillChecked([op |-> "prove", trip |-> t, row |-> row])
    BY <2>1 DEF StillChecked
  <2> QED BY <1>5, <2>2, CheckedStep DEF CheckProof
<1>6. ASSUME NEW stop \in StopsOfTrip, NEW i \in DOMAIN proof[t],
             CheckDeliveryProof(k, t, stop, i)
      PROVE  EvidenceInv'
  <2> DEFINE d == [stop |-> stop, proof |-> i]
  <2>1. /\ stop \in DeliveryStops /\ proof[t][i].type = "delivery"
        /\ proof[t][i].stop \in {NoStop, stop} /\ Check(k, [op |-> "deliver", trip |-> t, row |-> d])
    BY <1>6 DEF CheckDeliveryProof
  <2>2. proof[t][i].stop \in DeliveryStops
    BY <2>1 DEF EvidenceInv, Evidenced
  <2>3. proof[t][i].stop = stop
    BY <2>1, <2>2, RecordAssumption
  <2>4. Rests(t, d)
    BY <2>1, <2>3 DEF Rests
  <2>5. d \in DeliveryRow
    <3>1. proof[t] \in Seq(ProofRow)
      BY DEF EvidenceInv
    <3> QED BY <2>1, <3>1 DEF DeliveryRow
  <2>6. StillChecked([op |-> "deliver", trip |-> t, row |-> d])
    BY <2>4, <2>5 DEF StillChecked
  <2> QED BY <2>1, <2>6, CheckedStep
<1> QED BY <1>1, <1>2, <1>3, <1>4, <1>5, <1>6 DEF RecordTrip

LEMMA RecordOccurrenceStep ==
  ASSUME EvidenceInv, NEW k \in RecordCalls, NEW o \in Occurrences, RecordOccurrence(k, o)
  PROVE  EvidenceInv'
<1>1. ASSUME NEW t, NEW who, CheckOccurrence(k, o, t, who) PROVE EvidenceInv'
  <2>1. StillChecked([op |-> "report", of |-> o, at |-> 0, trip |-> t, who |-> who])
    BY DEF StillChecked
  <2> QED BY <1>1, <2>1, CheckedStep DEF CheckOccurrence
<1>2. ASSUME NEW who, NEW at, CheckTreatment(k, o, who, at) PROVE EvidenceInv'
  <2>1. StillChecked([op |-> "treat", of |-> o, who |-> who, at |-> at])
    BY DEF StillChecked
  <2> QED BY <1>2, <2>1, CheckedStep DEF CheckTreatment
<1>3. ASSUME NEW s, NEW at, CheckOccurrenceStatus(k, o, s, at) PROVE EvidenceInv'
  <2> DEFINE what == [op |-> "turn", of |-> o, at |-> at, from |-> occurrence[o].status, to |-> s,
                      who |-> occurrence[o].responsible]
  <2>1. StillChecked(what)
    BY DEF StillChecked
  <2> QED BY <1>3, <2>1, CheckedStep DEF CheckOccurrenceStatus
<1> QED BY <1>1, <1>2, <1>3 DEF RecordOccurrence

\* A row is written as it was checked: what it rests on can only have grown.
LEMMA CommitRecordStep ==
  ASSUME EvidenceInv, NEW k \in RecordCalls, CommitRecord(k)
  PROVE  EvidenceInv'
<1> DEFINE c == record[k]
<1>1. /\ StillChecked(c) /\ Accepted(c) /\ Write(c)
      /\ record' = [record EXCEPT ![k] = NoRecord]
      /\ \A t \in Journeys : LinkedOnce(paper[t])
      /\ paper \in [Journeys -> SUBSET PaperRow]
      /\ proof \in [Journeys -> Seq(ProofRow)]
      /\ delivered \in [Journeys -> SUBSET DeliveryRow]
      /\ DOMAIN record = RecordCalls
      /\ \A j \in RecordCalls : record[j] # NoRecord => StillChecked(record[j])
      /\ \A t \in Journeys : \A i \in DOMAIN proof[t] : Evidenced(t, proof[t][i])
      /\ \A t \in Journeys : \A d \in delivered[t] : Rests(t, d)
  BY DEF CommitRecord, EvidenceInv
<1> HIDE DEF c
<1>2. \/ /\ c.op = "link" /\ c.trip \in Journeys /\ c.row \in PaperRow
         /\ \A link \in paper[c.trip] : ~Names(c.row, link)
         /\ paper' = [paper EXCEPT ![c.trip] = @ \cup {c.row}]
      \/ c.op # "link" /\ paper' = paper
  BY <1>1 DEF Write, PaperAfter, StillChecked, Accepted
<1>3. \/ /\ c.op = "prove" /\ c.trip \in Journeys /\ c.row \in ProofRow
         /\ Evidenced(c.trip, c.row)
         /\ proof' = [proof EXCEPT ![c.trip] = Append(@, c.row)]
      \/ c.op # "prove" /\ proof' = proof
  BY <1>1 DEF Write, StillChecked
<1>4. \/ /\ c.op = "deliver" /\ c.trip \in Journeys /\ c.row \in DeliveryRow
         /\ Rests(c.trip, c.row)
         /\ delivered' = [delivered EXCEPT ![c.trip] = @ \cup {c.row}]
      \/ c.op # "deliver" /\ delivered' = delivered
  BY <1>1 DEF Write, StillChecked
<1>5. /\ paper' \in [Journeys -> SUBSET PaperRow]
      /\ \A t \in Journeys : paper[t] \subseteq paper'[t] /\ LinkedOnce(paper'[t])
  <2>1. CASE paper' = paper
    BY <1>1, <2>1
  <2>2. CASE /\ c.trip \in Journeys /\ c.row \in PaperRow
             /\ \A link \in paper[c.trip] : ~Names(c.row, link)
             /\ paper' = [paper EXCEPT ![c.trip] = @ \cup {c.row}]
    <3>1. \A t \in Journeys :
            paper'[t] = IF t = c.trip THEN paper[t] \cup {c.row} ELSE paper[t]
      BY <1>1, <2>2
    <3>2. \A t \in Journeys : paper[t] \subseteq paper'[t]
      BY <3>1
    <3>3. paper[c.trip] \cup {c.row} \in SUBSET PaperRow
      BY <1>1, <2>2
    <3>4. LinkedOnce(paper[c.trip] \cup {c.row})
      <4>1. LinkedOnce(paper[c.trip])
        BY <1>1, <2>2
      <4> QED BY <2>2, <4>1 DEF LinkedOnce, Names
    <3>5. \A t \in Journeys : LinkedOnce(paper'[t])
      BY <1>1, <3>1, <3>4
    <3> QED BY <1>1, <2>2, <3>2, <3>3, <3>5
  <2> QED BY <1>2, <2>1, <2>2
<1>6. ASSUME NEW t \in Journeys
      PROVE  /\ proof'[t] \in Seq(ProofRow)
             /\ DOMAIN proof[t] \subseteq DOMAIN proof'[t]
             /\ \A i \in DOMAIN proof[t] : proof'[t][i] = proof[t][i]
             /\ \A i \in DOMAIN proof'[t] :
                  \/ i \in DOMAIN proof[t]
                  \/ \E row : Evidenced(t, row) /\ proof'[t][i] = row
  <2>1. CASE proof'[t] = proof[t]
    BY <1>1, <2>1
  <2>2. CASE /\ t = c.trip /\ c.row \in ProofRow /\ Evidenced(t, c.row)
             /\ proof'[t] = Append(proof[t], c.row)
    <3>1. proof[t] \in Seq(ProofRow)
      BY <1>1
    <3>2. /\ proof'[t] \in Seq(ProofRow) /\ Len(proof'[t]) = Len(proof[t]) + 1
          /\ \A i \in 1..Len(proof[t]) : proof'[t][i] = proof[t][i]
          /\ proof'[t][Len(proof[t]) + 1] = c.row
      BY <2>2, <3>1
    <3>3. /\ DOMAIN proof[t] = 1..Len(proof[t]) /\ Len(proof[t]) \in Nat
          /\ DOMAIN proof'[t] = 1..(Len(proof[t]) + 1)
      BY <3>1, <3>2
    <3> QED BY <2>2, <3>2, <3>3
  <2> QED BY <1>1, <1>3, <2>1, <2>2
<1>7. proof' \in [Journeys -> Seq(ProofRow)]
  BY <1>1, <1>3, <1>6
<1>8. /\ \A t \in Journeys : \A row : Evidenced(t, row) => Evidenced(t, row)'
      /\ \A t \in Journeys : \A d : Rests(t, d) => Rests(t, d)'
  BY <1>5, <1>6, EvidenceGrows
<1>9. /\ delivered' \in [Journeys -> SUBSET DeliveryRow]
      /\ \A t \in Journeys : \A d \in delivered'[t] :
           d \in delivered[t] \/ Rests(t, d)
  <2>1. CASE delivered' = delivered
    BY <1>1, <2>1
  <2>2. CASE /\ c.trip \in Journeys /\ c.row \in DeliveryRow /\ Rests(c.trip, c.row)
             /\ delivered' = [delivered EXCEPT ![c.trip] = @ \cup {c.row}]
    <3>1. \A t \in Journeys :
            delivered'[t] = IF t = c.trip THEN delivered[t] \cup {c.row} ELSE delivered[t]
      BY <1>1, <2>2
    <3>2. delivered[c.trip] \cup {c.row} \in SUBSET DeliveryRow
      BY <1>1, <2>2
    <3> QED BY <1>1, <2>2, <3>1, <3>2
  <2> QED BY <1>4, <2>1, <2>2
<1>10. \A t \in Journeys : \A d \in delivered'[t] : Rests(t, d)'
  BY <1>1, <1>8, <1>9
<1>11. ASSUME NEW t \in Journeys, NEW i \in DOMAIN proof'[t]
       PROVE  Evidenced(t, proof[t][i])'
  <2>1. PICK row : Evidenced(t, row) /\ proof'[t][i] = row
    BY <1>1, <1>6
  <2>2. Evidenced(t, row)'
    BY <1>8, <2>1
  <2> QED BY <2>1, <2>2
<1>12. \A j \in RecordCalls : record'[j] # NoRecord => StillChecked(record[j])'
  <2>1. \A r : StillChecked(r) => StillChecked(r)'
    BY <1>8 DEF StillChecked
  <2> SUFFICES ASSUME NEW j \in RecordCalls, record'[j] # NoRecord
               PROVE  StillChecked(record[j])'
    OBVIOUS
  <2>2. record'[j] = record[j] /\ StillChecked(record[j])
    BY <1>1
  <2>3. PICK r : r = record[j]
    OBVIOUS
  <2>4. StillChecked(r)'
    BY <2>1, <2>2, <2>3
  <2> QED BY <2>2, <2>3, <2>4
<1>13. DOMAIN record' = RecordCalls
  BY <1>1
<1> QED BY <1>5, <1>7, <1>9, <1>10, <1>11, <1>12, <1>13 DEF EvidenceInv

\* What reads the trip, what is given up, what moves elsewhere.
LEMMA EvidenceFrame ==
  ASSUME EvidenceInv, UNCHANGED <<paper, proof, delivered>>, DOMAIN record' = RecordCalls,
         \A k \in RecordCalls : record'[k] = NoRecord \/ record'[k] = record[k]
  PROVE  EvidenceInv'
<1>1. \A c : StillChecked(c) => StillChecked(c)'
  BY DEF StillChecked, Evidenced, Rests
<1>2. \A k \in RecordCalls : record'[k] # NoRecord => StillChecked(record[k])'
  BY <1>1 DEF EvidenceInv
<1>3. /\ \A t \in Journeys : \A i \in DOMAIN proof'[t] : Evidenced(t, proof[t][i])'
      /\ \A t \in Journeys : \A d \in delivered'[t] : Rests(t, d)'
  BY DEF EvidenceInv, Evidenced, Rests
<1> QED BY <1>2, <1>3 DEF EvidenceInv

LEMMA RecordNextStep == EvidenceInv /\ [RecordNext]_recordVars => EvidenceInv'
<1> SUFFICES ASSUME EvidenceInv, [RecordNext]_recordVars PROVE EvidenceInv'
  OBVIOUS
<1>1. ASSUME NEW k \in RecordCalls, CommitRecord(k) \/ AbandonRecord(k)
      PROVE  EvidenceInv'
  BY <1>1, CommitRecordStep, EvidenceFrame DEF AbandonRecord, RowsUnchanged, EvidenceInv
<1>2. CASE \/ UNCHANGED recordVars
           \/ \E o \in Occurrences, p \in Papers : LinkOccurrenceDocument(o, p)
           \/ \E t \in Journeys : JourneyMoves(t)
  BY <1>2, EvidenceFrame DEF LinkOccurrenceDocument, JourneyMoves, recordVars, EvidenceInv
<1> QED BY <1>1, <1>2, RecordTripStep, RecordOccurrenceStep DEF RecordNext

LEMMA RecordInitStep == RecordInit => EvidenceInv
BY DEF RecordInit, EvidenceInv, LinkedOnce

\* What the records of a trip rest on, at every moment.
THEOREM EvidenceInvariant == RecordSpec => []EvidenceInv
BY RecordInitStep, RecordNextStep, PTL DEF RecordSpec

\* A delivery rests on a proof of its own stop and of no other delivery, and the
\* proof on the one link it names, to this stop or to none, though trip, links and
\* proofs are read without a lock and written later
\* (TripRecords!DeliveriesAreEvidenced).
THEOREM DeliveriesEvidenced == RecordSpec => []DeliveriesAreEvidenced
<1>1. EvidenceInv => DeliveriesAreEvidenced
  <2> SUFFICES ASSUME EvidenceInv, NEW t \in Journeys, NEW d \in delivered[t]
               PROVE  LET row   == proof[t][d.proof]
                          links == {link \in paper[t] : Names(row, link)}
                      IN  /\ row.stop = d.stop
                          /\ \A other \in delivered[t] : other.proof = d.proof => other = d
                          /\ \E link \in links : links = {link} /\ link.stop \in {NoStop, d.stop}
    BY DEF DeliveriesAreEvidenced
  <2> DEFINE row   == proof[t][d.proof]
             links == {link \in paper[t] : Names(row, link)}
  <2>1. Rests(t, d) /\ Evidenced(t, row) /\ d \in DeliveryRow /\ LinkedOnce(paper[t])
    BY DEF EvidenceInv, Rests
  <2>2. ASSUME NEW other \in delivered[t], other.proof = d.proof PROVE other = d
    <3>1. Rests(t, other) /\ other \in DeliveryRow
      BY <2>2 DEF EvidenceInv
    <3>2. other.stop = d.stop
      BY <2>1, <2>2, <3>1 DEF Rests
    <3>3. /\ d = [stop |-> d.stop, proof |-> d.proof]
          /\ other = [stop |-> other.stop, proof |-> other.proof]
      BY <2>1, <3>1 DEF DeliveryRow
    <3> QED BY <2>2, <3>2, <3>3
  <2>3. row.stop = d.stop /\ row.type = "delivery"
    BY <2>1 DEF Rests
  <2>4. PICK link \in paper[t] : Names(row, link) /\ link.stop \in {NoStop, d.stop}
    BY <2>1, <2>3 DEF Evidenced
  <2>5. links = {link}
    BY <2>1, <2>4 DEF LinkedOnce, Names
  <2>6. link \in links
    BY <2>4
  <2> QED BY <2>2, <2>3, <2>4, <2>5, <2>6
<1> QED BY <1>1, EvidenceInvariant, PTL

-----------------------------------------------------------------------------
(* The histories of occurrences.                                           *)

Whoever == Responsibles \cup {Nobody}

OccurrenceRow ==
    [trip : Journeys \cup {Nowhere}, status : {"absent", "open", "resolved"},
     responsible : Whoever, resolved : BOOLEAN, history : SUBSET HistoryRow,
     papers : SUBSET Papers]

\* The rows of a history, in whatever order they are read, lead to a status and name
\* the responsible one; the opening came with the report.
Explained(history, status, who) ==
    /\ IsFiniteSet(history)
    /\ \E first \in history :
          /\ first.at = 0 /\ first.from = "none" /\ first.to = "open"
          /\ \A row \in history \ {first} : row.at > 0 /\ (row.from = "none" => row.to = "none")
    /\ \A s \in {"open", "resolved"} :
          Cardinality(Entering(history, s)) =
              Cardinality(Leaving(history, s)) + (IF s = status THEN 1 ELSE 0)
    /\ \E row \in history : row.responsible = who

OccurrenceHolds(row) == row # NoOccurrence =>
    /\ row.status \in {"open", "resolved"}
    /\ row.resolved = (row.status = "resolved")
    /\ Explained(row.history, row.status, row.responsible)

Writing(c) == c.op \in {"report", "treat", "turn"}

\* What a call that has checked an occurrence may rely on until it writes.
OccurrenceCall(c) ==
    /\ Writing(c) => c.of \in Occurrences /\ c.who \in Whoever
    /\ c.op = "report" => /\ c.trip \in Journeys /\ c.at = 0
                          /\ occurrence[c.of] = NoOccurrence
    /\ c.op \in {"treat", "turn"} => /\ occurrence[c.of] # NoOccurrence
                                     /\ c.at \in CallStarts /\ Began(c.of, c.at)
    /\ c.op = "turn" => /\ occurrence[c.of] # NoOccurrence
                        /\ c.from = occurrence[c.of].status
                        /\ c.to \in {"open", "resolved"}
                        /\ c.who = occurrence[c.of].responsible

OneWriterEach ==
    \A j, k \in RecordCalls :
        /\ record[j] # NoRecord /\ record[k] # NoRecord
        /\ Writing(record[j]) /\ Writing(record[k]) /\ record[j].of = record[k].of
        => j = k

HistoryInv ==
    /\ occurrence \in [Occurrences -> OccurrenceRow]
    /\ DOMAIN record = RecordCalls
    /\ \A o \in Occurrences : OccurrenceHolds(occurrence[o])
    /\ \A k \in RecordCalls : record[k] # NoRecord => OccurrenceCall(record[k])
    /\ OneWriterEach

\* One more row enters and leaves one status each, or none.
LEMMA CountsGrow ==
  ASSUME NEW history, IsFiniteSet(history), NEW row, row \notin history, NEW s
  PROVE  /\ Cardinality(Entering(history, s)) \in Nat /\ Cardinality(Leaving(history, s)) \in Nat
         /\ Cardinality(Entering(history \cup {row}, s)) =
               Cardinality(Entering(history, s)) + (IF row.to = s THEN 1 ELSE 0)
         /\ Cardinality(Leaving(history \cup {row}, s)) =
               Cardinality(Leaving(history, s)) + (IF row.from = s THEN 1 ELSE 0)
<1>1. /\ IsFiniteSet(Entering(history, s)) /\ IsFiniteSet(Leaving(history, s))
      /\ row \notin Entering(history, s) /\ row \notin Leaving(history, s)
  BY FS_Subset DEF Entering, Leaving
<1>2. /\ Entering(history \cup {row}, s) =
           IF row.to = s THEN Entering(history, s) \cup {row} ELSE Entering(history, s)
      /\ Leaving(history \cup {row}, s) =
           IF row.from = s THEN Leaving(history, s) \cup {row} ELSE Leaving(history, s)
  BY DEF Entering, Leaving
<1>3. Cardinality(Entering(history, s)) \in Nat /\ Cardinality(Leaving(history, s)) \in Nat
  BY <1>1, FS_CardinalityType
<1>4. Cardinality(Entering(history, s) \cup {row}) = Cardinality(Entering(history, s)) + 1
  BY <1>1, FS_AddElement
<1>5. Cardinality(Leaving(history, s) \cup {row}) = Cardinality(Leaving(history, s)) + 1
  BY <1>1, FS_AddElement
<1>6. Cardinality(Entering(history \cup {row}, s)) =
        Cardinality(Entering(history, s)) + (IF row.to = s THEN 1 ELSE 0)
  BY <1>2, <1>3, <1>4
<1>7. Cardinality(Leaving(history \cup {row}, s)) =
        Cardinality(Leaving(history, s)) + (IF row.from = s THEN 1 ELSE 0)
  BY <1>2, <1>3, <1>5
<1> QED BY <1>3, <1>6, <1>7

\* The first row of a history.
LEMMA HistoryOpens ==
  ASSUME NEW who \in Whoever, NEW row, NEW longer,
         row = [at |-> 0, from |-> "none", to |-> "open", responsible |-> who],
         longer = {} \cup {row}
  PROVE  longer \in SUBSET HistoryRow /\ Explained(longer, "open", who)
<1>1. row \in HistoryRow
  BY DEF HistoryRow, Whoever
<1>2. IsFiniteSet({}) /\ IsFiniteSet(longer) /\ row \notin {}
  BY FS_EmptySet, FS_AddElement
<1>3. \A s : Cardinality(Entering({}, s)) = 0 /\ Cardinality(Leaving({}, s)) = 0
  <2>1. \A s : Entering({}, s) = {} /\ Leaving({}, s) = {}
    BY DEF Entering, Leaving
  <2> QED BY <2>1, FS_EmptySet
<1>4. \A s \in {"open", "resolved"} :
        Cardinality(Entering(longer, s)) =
            Cardinality(Leaving(longer, s)) + (IF s = "open" THEN 1 ELSE 0)
  <2> TAKE s \in {"open", "resolved"}
  <2>1. PICK none : none = {}
    OBVIOUS
  <2>2. /\ IsFiniteSet(none) /\ row \notin none /\ longer = none \cup {row}
        /\ Cardinality(Entering(none, s)) = 0 /\ Cardinality(Leaving(none, s)) = 0
    BY <1>2, <1>3, <2>1
  <2>3. /\ Cardinality(Entering(longer, s)) = 0 + (IF row.to = s THEN 1 ELSE 0)
        /\ Cardinality(Leaving(longer, s)) = 0 + (IF row.from = s THEN 1 ELSE 0)
    BY <2>2, CountsGrow
  <2> QED BY <2>3
<1>5. row \in longer /\ longer \ {row} = {}
  OBVIOUS
<1> QED BY <1>1, <1>2, <1>4, <1>5 DEF Explained

\* One more row, wherever it is read: a note, or a change from the status there is.
LEMMA HistoryGoesOn ==
  ASSUME NEW history \in SUBSET HistoryRow, NEW row \in HistoryRow, NEW status, NEW who,
         NEW longer, longer = history \cup {row}, Explained(history, status, who),
         row.at # 0, \A old \in history : old.at # row.at,
         NEW next,
         \/ row.from = "none" /\ row.to = "none" /\ next = status
         \/ row.from # "none" /\ row.from = status /\ next = row.to
  PROVE  longer \in SUBSET HistoryRow /\ Explained(longer, next, row.responsible)
<1>1. IsFiniteSet(history) /\ row \notin history /\ row.at > 0
  <2>1. IsFiniteSet(history) /\ row \notin history
    BY DEF Explained
  <2>2. row.at \in {0} \cup CallStarts
    BY DEF HistoryRow
  <2>3. row.at \in Nat \ {0}
    BY <2>2, RecordAssumption
  <2> QED BY <2>1, <2>3
<1>2. IsFiniteSet(longer) /\ longer \in SUBSET HistoryRow
  BY <1>1, FS_AddElement
<1>3. \E first \in longer :
        /\ first.at = 0 /\ first.from = "none" /\ first.to = "open"
        /\ \A r \in longer \ {first} : r.at > 0 /\ (r.from = "none" => r.to = "none")
  <2>1. PICK first \in history :
          /\ first.at = 0 /\ first.from = "none" /\ first.to = "open"
          /\ \A r \in history \ {first} : r.at > 0 /\ (r.from = "none" => r.to = "none")
    BY DEF Explained
  <2>2. first \in longer
    BY <2>1
  <2>3. \A r \in longer \ {first} : r.at > 0 /\ (r.from = "none" => r.to = "none")
    BY <1>1, <2>1
  <2> QED BY <2>1, <2>2, <2>3
<1>4. \A s \in {"open", "resolved"} :
        Cardinality(Entering(longer, s)) =
            Cardinality(Leaving(longer, s)) + (IF s = next THEN 1 ELSE 0)
  <2> TAKE s \in {"open", "resolved"}
  <2>1. PICK entered, left, enters, leaves :
          /\ entered = Cardinality(Entering(history, s)) /\ left = Cardinality(Leaving(history, s))
          /\ enters = Cardinality(Entering(longer, s)) /\ leaves = Cardinality(Leaving(longer, s))
    OBVIOUS
  <2>2. /\ entered \in Nat /\ left \in Nat
        /\ enters = entered + (IF row.to = s THEN 1 ELSE 0)
        /\ leaves = left + (IF row.from = s THEN 1 ELSE 0)
    BY <1>1, <2>1, CountsGrow
  <2>3. entered = left + (IF s = status THEN 1 ELSE 0)
    BY <2>1 DEF Explained
  <2>4. enters = leaves + (IF s = next THEN 1 ELSE 0)
    BY <2>2, <2>3
  <2> QED BY <2>1, <2>4
<1>5. row \in longer
  OBVIOUS
<1> QED BY <1>2, <1>3, <1>4, <1>5 DEF Explained

\* A call that checks leaves the occurrences alone.
LEMMA HistoryCheck ==
  ASSUME HistoryInv, NEW k \in RecordCalls, NEW what, Check(k, what),
         OccurrenceCall(what),
         \A j \in RecordCalls :
            record[j] # NoRecord /\ Writing(record[j]) /\ Writing(what)
            => record[j].of # what.of
  PROVE  HistoryInv'
<1>1. /\ occurrence' = occurrence /\ record' = [record EXCEPT ![k] = what]
      /\ record[k] = NoRecord /\ DOMAIN record = RecordCalls
  BY DEF Check, RowsUnchanged, HistoryInv
<1>2. \A j \in RecordCalls : \/ j = k /\ record'[j] = what
                             \/ j # k /\ record'[j] = record[j]
  BY <1>1
<1>3. \A c : OccurrenceCall(c) => OccurrenceCall(c)'
  BY <1>1 DEF OccurrenceCall, Began
<1>4. \A j \in RecordCalls : record'[j] # NoRecord => OccurrenceCall(record[j])'
  BY <1>2, <1>3 DEF HistoryInv
<1>5. OneWriterEach'
  BY <1>2 DEF HistoryInv, OneWriterEach
<1>6. \A o \in Occurrences : OccurrenceHolds(occurrence[o])'
  BY <1>1 DEF HistoryInv
<1>7. (occurrence \in [Occurrences -> OccurrenceRow])' /\ DOMAIN record' = RecordCalls
  BY <1>1 DEF HistoryInv
<1> QED BY <1>4, <1>5, <1>6, <1>7 DEF HistoryInv

\* Records of other kinds are no concern of the occurrences.
LEMMA HistoryTripStep ==
  ASSUME HistoryInv, NEW k \in RecordCalls, NEW t \in Journeys, RecordTrip(k, t)
  PROVE  HistoryInv'
<1>1. PICK what : Check(k, what) /\ ~ Writing(what)
  <2>1. \E what : Check(k, what) /\ what.op \in {"locate", "link", "spend", "review", "prove",
                                               "deliver"}
    <3>1. ASSUME NEW e, CheckLocation(k, t, e)
          PROVE  \E what : Check(k, what) /\ what.op = "locate"
      BY <3>1 DEF CheckLocation
    <3>2. ASSUME NEW row, CheckLinkDocument(k, t, row)
          PROVE  \E what : Check(k, what) /\ what.op = "link"
      BY <3>2 DEF CheckLinkDocument
    <3>3. ASSUME NEW kind, CheckCost(k, t, kind)
          PROVE  \E what : Check(k, what) /\ what.op = "spend"
      BY <3>3 DEF CheckCost
    <3>4. ASSUME NEW i, NEW s, CheckExpenseStatus(k, t, i, s)
          PROVE  \E what : Check(k, what) /\ what.op = "review"
      BY <3>4 DEF CheckExpenseStatus
    <3>5. ASSUME NEW row, CheckProof(k, t, row)
          PROVE  \E what : Check(k, what) /\ what.op = "prove"
      BY <3>5 DEF CheckProof
    <3>6. ASSUME NEW stop, NEW i, CheckDeliveryProof(k, t, stop, i)
          PROVE  \E what : Check(k, what) /\ what.op = "deliver"
      BY <3>6 DEF CheckDeliveryProof
    <3> QED BY <3>1, <3>2, <3>3, <3>4, <3>5, <3>6 DEF RecordTrip
  <2> QED BY <2>1 DEF Writing
<1>2. OccurrenceCall(what)
  BY <1>1 DEF OccurrenceCall, Writing, Began
<1> QED BY <1>1, <1>2, HistoryCheck

\* A call finds the row free of other calls, or no row and no other report.
LEMMA HistoryOccurrenceStep ==
  ASSUME HistoryInv, NEW k \in RecordCalls, NEW o \in Occurrences, RecordOccurrence(k, o)
  PROVE  HistoryInv'
<1>1. \A j \in RecordCalls : record[j] # NoRecord /\ Writing(record[j]) =>
         \/ record[j].op = "report" /\ occurrence[record[j].of] = NoOccurrence
         \/ record[j].op \in {"treat", "turn"} /\ occurrence[record[j].of] # NoOccurrence
  BY DEF HistoryInv, OccurrenceCall, Writing
<1>2. ASSUME NEW t \in Journeys, NEW who \in Whoever, CheckOccurrence(k, o, t, who)
      PROVE  HistoryInv'
  <2> DEFINE what == [op |-> "report", of |-> o, at |-> 0, trip |-> t, who |-> who]
  <2>1. /\ occurrence[o] = NoOccurrence /\ Check(k, what)
        /\ \A c \in RecordCalls :
              record[c] # NoRecord => ~(record[c].op = "report" /\ record[c].of = o)
    BY <1>2 DEF CheckOccurrence
  <2>2. OccurrenceCall(what)
    BY <2>1 DEF OccurrenceCall, Writing, Began
  <2>3. \A j \in RecordCalls : record[j] # NoRecord /\ Writing(record[j]) => record[j].of # o
    BY <1>1, <2>1
  <2> QED BY <2>1, <2>2, <2>3, HistoryCheck
<1>3. ASSUME occurrence[o] # NoOccurrence, OccurrenceFree(o)
      PROVE  \A j \in RecordCalls : record[j] # NoRecord /\ Writing(record[j]) => record[j].of # o
  BY <1>1, <1>3 DEF OccurrenceFree
<1>4. ASSUME NEW who \in Whoever, NEW at \in CallStarts, CheckTreatment(k, o, who, at)
      PROVE  HistoryInv'
  <2> DEFINE what == [op |-> "treat", of |-> o, who |-> who, at |-> at]
  <2>1. occurrence[o] # NoOccurrence /\ OccurrenceFree(o) /\ Began(o, at) /\ Check(k, what)
    BY <1>4 DEF CheckTreatment
  <2>2. OccurrenceCall(what)
    BY <2>1 DEF OccurrenceCall, Writing, Began
  <2> QED BY <1>3, <2>1, <2>2, HistoryCheck
<1>5. ASSUME NEW s \in {"open", "resolved"}, NEW at \in CallStarts,
             CheckOccurrenceStatus(k, o, s, at)
      PROVE  HistoryInv'
  <2> DEFINE what == [op |-> "turn", of |-> o, at |-> at, from |-> occurrence[o].status, to |-> s,
                      who |-> occurrence[o].responsible]
  <2>1. occurrence[o] # NoOccurrence /\ OccurrenceFree(o) /\ Began(o, at) /\ Check(k, what)
    BY <1>5 DEF CheckOccurrenceStatus
  <2>2. occurrence[o].responsible \in Whoever
    BY DEF HistoryInv, OccurrenceRow
  <2>3. OccurrenceCall(what)
    BY <2>1, <2>2 DEF OccurrenceCall, Writing, Began
  <2> QED BY <1>3, <2>1, <2>3, HistoryCheck
<1> QED BY <1>2, <1>4, <1>5 DEF RecordOccurrence, Whoever

\* A write keeps its occurrence explained.
LEMMA OccurrenceWritten ==
  ASSUME HistoryInv, NEW c, OccurrenceCall(c), Writing(c), NEW row, row = OccurrenceAfter(c)
  PROVE  row \in OccurrenceRow /\ OccurrenceHolds(row) /\ row # NoOccurrence
<1>1. PICK old : old = occurrence[c.of]
  OBVIOUS
<1>2. old \in OccurrenceRow /\ OccurrenceHolds(old) /\ c.of \in Occurrences /\ c.who \in Whoever
  BY <1>1 DEF HistoryInv, OccurrenceCall
<1>3. CASE c.op = "report"
  <2> DEFINE first == [at |-> 0, from |-> "none", to |-> "open", responsible |-> c.who]
             longer == {} \cup {first}
  <2>1. old = NoOccurrence /\ old.history = {} /\ c.trip \in Journeys /\ c.at = 0
    BY <1>1, <1>3 DEF OccurrenceCall, NoOccurrence
  <2>2. longer \in SUBSET HistoryRow /\ Explained(longer, "open", c.who)
    BY <1>2, HistoryOpens
  <2>3. row = [old EXCEPT !.trip = c.trip, !.status = "open", !.responsible = c.who,
                          !.history = longer]
    BY <1>1, <1>3, <2>1 DEF OccurrenceAfter, Noted
  <2> HIDE DEF longer
  <2>4. /\ row \in OccurrenceRow /\ row.status = "open" /\ row.responsible = c.who
        /\ row.history = longer /\ row.resolved = old.resolved
    BY <1>2, <2>1, <2>2, <2>3 DEF OccurrenceRow
  <2>5. row.resolved = FALSE /\ (row.status = "resolved") = FALSE
    BY <2>1, <2>4 DEF NoOccurrence
  <2>6. row.resolved = (row.status = "resolved")
    BY <2>5
  <2>7. row # NoOccurrence
    BY <2>4 DEF NoOccurrence
  <2> QED BY <2>2, <2>4, <2>6, <2>7 DEF OccurrenceHolds
<1>4. CASE c.op = "treat"
  <2>0. PICK note, longer :
          /\ note = [at |-> c.at, from |-> "none", to |-> "none", responsible |-> c.who]
          /\ longer = old.history \cup {note}
    OBVIOUS
  <2>1. /\ old # NoOccurrence /\ old.history \in SUBSET HistoryRow
        /\ Explained(old.history, old.status, old.responsible)
        /\ c.at \in CallStarts /\ \A r \in old.history : r.at # c.at
    BY <1>1, <1>2, <1>4 DEF OccurrenceCall, OccurrenceHolds, OccurrenceRow, Began
  <2>2. /\ note \in HistoryRow /\ note.to = "none" /\ note.from = "none"
        /\ note.responsible = c.who /\ note.at = c.at /\ note.at # 0
    BY <1>2, <2>0, <2>1, RecordAssumption DEF HistoryRow, Whoever
  <2>3. row = [old EXCEPT !.responsible = c.who, !.history = longer]
    BY <1>1, <1>4, <2>0 DEF OccurrenceAfter, Noted
  <2>4. longer \in SUBSET HistoryRow /\ Explained(longer, old.status, c.who)
    <3>1. PICK history, status, next, who :
            history = old.history /\ status = old.status /\ who = old.responsible /\ next = old.status
      OBVIOUS
    <3>2. /\ history \in SUBSET HistoryRow /\ longer = history \cup {note}
          /\ Explained(history, status, who) /\ note \in HistoryRow
          /\ note.at # 0 /\ \A r \in history : r.at # note.at
          /\ note.from = "none" /\ note.to = "none" /\ next = status
      BY <2>0, <2>1, <2>2, <3>1
    <3>3. longer \in SUBSET HistoryRow /\ Explained(longer, next, note.responsible)
      BY <3>2, HistoryGoesOn
    <3> QED BY <2>2, <3>1, <3>3
  <2>5. /\ row \in OccurrenceRow /\ row.status = old.status /\ row.responsible = c.who
        /\ row.history = longer /\ row.resolved = old.resolved
    BY <1>2, <2>3, <2>4 DEF OccurrenceRow
  <2> QED BY <1>2, <2>1, <2>4, <2>5 DEF OccurrenceHolds, NoOccurrence
<1>5. CASE c.op = "turn"
  <2>0. PICK step, longer :
          /\ step = [at |-> c.at, from |-> c.from, to |-> c.to, responsible |-> c.who]
          /\ longer = old.history \cup {step}
    OBVIOUS
  <2>1. /\ old # NoOccurrence /\ old.history \in SUBSET HistoryRow
        /\ old.status \in {"open", "resolved"}
        /\ Explained(old.history, old.status, old.responsible)
        /\ c.from = old.status /\ c.to \in {"open", "resolved"}
        /\ c.at \in CallStarts /\ \A r \in old.history : r.at # c.at
    BY <1>1, <1>2, <1>5 DEF OccurrenceCall, OccurrenceHolds, OccurrenceRow, Began
  <2>2. /\ step \in HistoryRow /\ step.to = c.to /\ step.from # "none"
        /\ step.from = old.status /\ step.responsible = c.who
        /\ step.at = c.at /\ step.at # 0
    BY <1>2, <2>0, <2>1, RecordAssumption DEF HistoryRow, Whoever
  <2>3. row = [old EXCEPT !.status = c.to, !.resolved = (c.to = "resolved"),
                          !.history = longer]
    BY <1>1, <1>5, <2>0 DEF OccurrenceAfter, Noted
  <2>4. c.who = old.responsible
    BY <1>1, <1>5 DEF OccurrenceCall
  <2>5. longer \in SUBSET HistoryRow /\ Explained(longer, c.to, c.who)
    <3>1. PICK history, status, next, who :
            history = old.history /\ status = old.status /\ who = old.responsible /\ next = c.to
      OBVIOUS
    <3>2. /\ history \in SUBSET HistoryRow /\ longer = history \cup {step}
          /\ Explained(history, status, who) /\ step \in HistoryRow
          /\ step.at # 0 /\ \A r \in history : r.at # step.at
          /\ step.from # "none" /\ step.from = status /\ next = step.to
      BY <2>0, <2>1, <2>2, <3>1
    <3>3. longer \in SUBSET HistoryRow /\ Explained(longer, next, step.responsible)
      BY <3>2, HistoryGoesOn
    <3> QED BY <2>2, <3>1, <3>3
  <2>6. /\ row \in OccurrenceRow /\ row.status = c.to /\ row.responsible = c.who
        /\ row.history = longer /\ row.resolved = (c.to = "resolved")
    BY <1>2, <2>1, <2>3, <2>4, <2>5 DEF OccurrenceRow
  <2> QED BY <2>1, <2>5, <2>6 DEF OccurrenceHolds, NoOccurrence
<1> QED BY <1>3, <1>4, <1>5 DEF Writing

\* The call that writes has its occurrence to itself: the others find theirs as it was.
LEMMA HistoryCommit ==
  ASSUME HistoryInv, NEW k \in RecordCalls, CommitRecord(k)
  PROVE  HistoryInv'
<1>1. PICK c : c = record[k]
  OBVIOUS
<1>2. /\ c # NoRecord /\ record' = [record EXCEPT ![k] = NoRecord]
      /\ occurrence' = IF Writing(c) THEN [occurrence EXCEPT ![c.of] = OccurrenceAfter(c)]
                       ELSE occurrence
      /\ OccurrenceCall(c) /\ DOMAIN record = RecordCalls
      /\ occurrence \in [Occurrences -> OccurrenceRow]
  BY <1>1 DEF CommitRecord, Write, Writing, HistoryInv
<1>3. \A j \in RecordCalls : record'[j] # NoRecord => j # k /\ record'[j] = record[j]
  BY <1>2
<1>4. DOMAIN record' = RecordCalls /\ OneWriterEach'
  BY <1>2, <1>3 DEF HistoryInv, OneWriterEach
<1>5. CASE ~ Writing(c)
  <2>1. occurrence' = occurrence
    BY <1>2, <1>5
  <2>2. \A d : OccurrenceCall(d) => OccurrenceCall(d)'
    BY <2>1 DEF OccurrenceCall, Began
  <2>3. \A j \in RecordCalls : record'[j] # NoRecord => OccurrenceCall(record[j])'
    BY <1>3, <2>2 DEF HistoryInv
  <2> QED BY <1>4, <2>1, <2>3 DEF HistoryInv
<1>6. CASE Writing(c)
  <2>1. PICK o, row : o = c.of /\ row = OccurrenceAfter(c)
    OBVIOUS
  <2>2. row \in OccurrenceRow /\ OccurrenceHolds(row) /\ o \in Occurrences
    BY <1>2, <1>6, <2>1, OccurrenceWritten DEF OccurrenceCall
  <2>3. occurrence' = [occurrence EXCEPT ![o] = row]
    BY <1>2, <1>6, <2>1
  <2>4. occurrence' \in [Occurrences -> OccurrenceRow]
    BY <1>2, <2>2, <2>3
  <2>5. \A p \in Occurrences : OccurrenceHolds(occurrence[p])'
    BY <1>2, <2>2, <2>3 DEF HistoryInv
  <2>6. ASSUME NEW j \in RecordCalls, record'[j] # NoRecord PROVE OccurrenceCall(record[j])'
    <3>1. PICK d : d = record[j]
      OBVIOUS
    <3>2. OccurrenceCall(d) /\ record'[j] = d /\ (Writing(d) => d.of # o /\ d.of \in Occurrences)
      BY <1>1, <1>2, <1>3, <1>6, <2>1, <2>6, <3>1
         DEF HistoryInv, OneWriterEach, OccurrenceCall
    <3>3. Writing(d) => occurrence'[d.of] = occurrence[d.of]
      BY <1>2, <2>3, <3>2
    <3>4. OccurrenceCall(d)'
      BY <3>2, <3>3 DEF OccurrenceCall, Writing, Began
    <3> QED BY <3>2, <3>4
  <2> QED BY <1>4, <2>4, <2>5, <2>6 DEF HistoryInv
<1> QED BY <1>5, <1>6

\* A document linked to an occurrence leaves its history alone.
LEMMA OccurrenceDocumentStep ==
  ASSUME HistoryInv, NEW o \in Occurrences, NEW p \in Papers, LinkOccurrenceDocument(o, p)
  PROVE  HistoryInv'
<1>1. PICK old, row : old = occurrence[o] /\ row = [old EXCEPT !.papers = old.papers \cup {p}]
  OBVIOUS
<1>2. /\ old # NoOccurrence /\ old \in OccurrenceRow /\ OccurrenceHolds(old)
      /\ occurrence' = [occurrence EXCEPT ![o] = row] /\ record' = record
      /\ occurrence \in [Occurrences -> OccurrenceRow]
  BY <1>1 DEF LinkOccurrenceDocument, HistoryInv
<1>3. /\ row \in OccurrenceRow /\ row.status = old.status /\ row.resolved = old.resolved
      /\ row.responsible = old.responsible /\ row.history = old.history
  BY <1>1, <1>2 DEF OccurrenceRow
<1>4. OccurrenceHolds(row) /\ row # NoOccurrence
  BY <1>2, <1>3 DEF OccurrenceHolds, NoOccurrence
<1>5. occurrence' \in [Occurrences -> OccurrenceRow]
  BY <1>2, <1>3
<1>6. \A q \in Occurrences : OccurrenceHolds(occurrence[q])'
  BY <1>2, <1>4 DEF HistoryInv
<1>7. \A q \in Occurrences :
        \/ occurrence'[q] = occurrence[q]
        \/ /\ occurrence[q] # NoOccurrence /\ occurrence'[q] # NoOccurrence
           /\ occurrence'[q].status = occurrence[q].status
           /\ occurrence'[q].responsible = occurrence[q].responsible
           /\ occurrence'[q].history = occurrence[q].history
  BY <1>1, <1>2, <1>3, <1>4
<1>8. \A c : OccurrenceCall(c) => OccurrenceCall(c)'
  BY <1>7 DEF OccurrenceCall, Writing, Began
<1>9. \A j \in RecordCalls : record'[j] # NoRecord => OccurrenceCall(record[j])'
  BY <1>2, <1>8 DEF HistoryInv
<1> QED BY <1>2, <1>5, <1>6, <1>9 DEF HistoryInv, OneWriterEach

\* Every step keeps the histories whole.
LEMMA HistoryNextStep ==
  ASSUME HistoryInv, [RecordNext]_recordVars
  PROVE  HistoryInv'
<1>1. ASSUME occurrence' = occurrence, DOMAIN record' = RecordCalls,
             \A j \in RecordCalls : record'[j] # NoRecord => record'[j] = record[j]
      PROVE  HistoryInv'
  <2>1. \A c : OccurrenceCall(c) => OccurrenceCall(c)'
    BY <1>1 DEF OccurrenceCall, Began
  <2>2. \A j \in RecordCalls : record'[j] # NoRecord => OccurrenceCall(record[j])'
    BY <1>1, <2>1 DEF HistoryInv
  <2> QED BY <1>1, <2>2 DEF HistoryInv, OneWriterEach
<1>2. CASE UNCHANGED recordVars
  BY <1>1, <1>2 DEF recordVars, HistoryInv
<1>3. ASSUME NEW k \in RecordCalls, AbandonRecord(k) PROVE HistoryInv'
  BY <1>1, <1>3 DEF AbandonRecord, RowsUnchanged, HistoryInv
<1>4. ASSUME NEW t \in Journeys, JourneyMoves(t) PROVE HistoryInv'
  BY <1>1, <1>4 DEF JourneyMoves, HistoryInv
<1> QED BY <1>2, <1>3, <1>4, HistoryTripStep, HistoryOccurrenceStep, HistoryCommit,
           OccurrenceDocumentStep DEF RecordNext

LEMMA HistoryInitStep ==
  ASSUME RecordInit
  PROVE  HistoryInv
<1>1. NoOccurrence \in OccurrenceRow
  BY DEF NoOccurrence, OccurrenceRow, Whoever
<1>2. /\ occurrence = [o \in Occurrences |-> NoOccurrence]
      /\ record = [k \in RecordCalls |-> NoRecord]
  BY DEF RecordInit
<1> QED BY <1>1, <1>2 DEF HistoryInv, OccurrenceHolds, OneWriterEach

\* HistoryExplainsOccurrence: the lock of requireOccurrence (trip-occurrence.service.ts)
\* makes the status that a change starts from the status that is there when it is
\* written, so the changes of every history, read in whatever order their calls began,
\* balance to the status the occurrence has.
THEOREM HistoriesExplain == RecordSpec => []HistoryExplainsOccurrence
<1>1. RecordInit => HistoryInv
  BY HistoryInitStep
<1>2. HistoryInv /\ [RecordNext]_recordVars => HistoryInv'
  BY HistoryNextStep
<1>3. HistoryInv => HistoryExplainsOccurrence
  BY DEF HistoryInv, OccurrenceHolds, Explained, HistoryExplainsOccurrence
<1> QED BY <1>1, <1>2, <1>3, PTL DEF RecordSpec

-----------------------------------------------------------------------------
(* The runs of the matching.                                               *)

CodesOf(stored) == {rule.code : rule \in stored}

\* Every rule once, as the seed writes it.
FullRules(stored) ==
    CodesOf(stored) = CapacityMismatchCode /\ \A rule \in stored : rule.version = 1

Kept == {stored \in SUBSET RuleRow : FullRules(stored)}

KeptRuns ==
    {Matching(c, offers, p, stored) :
        c \in CargoShapes, offers \in [Offered -> OfferShapes],
        p \in Preferences \cup {NoPreference}, stored \in Kept}

MatchingInv ==
    /\ cargo \in CargoShapes
    /\ offer \in [Offered -> OfferShapes]
    /\ rules \subseteq RuleRow
    /\ matchings \in Seq(KeptRuns)
    /\ matchings # <<>> => FullRules(rules)

\* The codes of a mismatch are finitely many.
LEMMA CodesFinite ==
  /\ IsFiniteSet(CapacityMismatchCode)
  /\ \A S \in SUBSET CapacityMismatchCode : IsFiniteSet(S) /\ Cardinality(S) \in Nat
<1>1. \A S, x : IsFiniteSet(S) => IsFiniteSet(S \cup {x})
  BY FS_AddElement
<1>2. IsFiniteSet({})
  BY FS_EmptySet
<1> DEFINE first == {"driver_not_qualified", "driver_not_active", "vehicle_not_active"}
           second == first \cup {"vehicle_type_mismatch", "body_type_mismatch",
                                 "weight_capacity_insufficient"}
           third == second \cup {"volume_capacity_unknown", "volume_capacity_insufficient",
                                 "dimensions_capacity_unknown"}
           fourth == third \cup {"tracking_unavailable", "length_capacity_insufficient",
                                 "width_capacity_insufficient"}
           all == fourth \cup {"height_capacity_insufficient"}
<1>3. \A S, x, y, z : IsFiniteSet(S) => IsFiniteSet(S \cup {x, y, z})
  <2> SUFFICES ASSUME NEW S, NEW x, NEW y, NEW z, IsFiniteSet(S)
               PROVE  IsFiniteSet(S \cup {x, y, z})
    OBVIOUS
  <2>1. IsFiniteSet(((S \cup {x}) \cup {y}) \cup {z})
    BY <1>1
  <2>2. ((S \cup {x}) \cup {y}) \cup {z} = S \cup {x, y, z}
    OBVIOUS
  <2> QED BY <2>1, <2>2
<1>4. IsFiniteSet(first)
  <2>1. IsFiniteSet({} \cup first)
    BY <1>2, <1>3
  <2>2. {} \cup first = first
    OBVIOUS
  <2> QED BY <2>1, <2>2
<1>5. IsFiniteSet(all)
  BY <1>1, <1>3, <1>4
<1>6. CapacityMismatchCode = all
  <2>1. {DimensionRule[d] : d \in Dimensions} =
           {"length_capacity_insufficient", "width_capacity_insufficient",
            "height_capacity_insufficient"}
    BY DEF Dimensions, DimensionRule
  <2> QED BY <2>1 DEF CapacityMismatchCode
<1>7. IsFiniteSet(CapacityMismatchCode)
  BY <1>5, <1>6
<1> QED BY <1>7, FS_Subset, FS_CardinalityType

\* Nothing is missing exactly where the vehicle is known to carry the cargo.
LEMMA NothingMissing ==
  ASSUME NEW c \in CargoShapes, NEW o \in OfferShapes
  PROVE  /\ Reasons(c, o) = {} <=> CanCarry(c, o)
         /\ \A d \in Dimensions :
              DimensionRule[d] \notin Reasons(c, o) /\ AllDimensions(o)
              => Reaches(o.size[d], c.size[d])
<1>1. /\ c.weight \in Int /\ c.volume \in Measure /\ c.tracking \in BOOLEAN
      /\ o.weight \in Int /\ o.volume \in Measure /\ o.tracking \in BOOLEAN
      /\ \A d \in Dimensions : c.size[d] \in Measure /\ o.size[d] \in Measure
      /\ o.qualified \in BOOLEAN /\ o.driverActive \in BOOLEAN /\ o.vehicleActive \in BOOLEAN
  BY MatchingAssumption
<1>2. /\ DimensionRule["length"] = "length_capacity_insufficient"
      /\ DimensionRule["width"] = "width_capacity_insufficient"
      /\ DimensionRule["height"] = "height_capacity_insufficient"
  BY DEF DimensionRule, Dimensions
<1>3. \A d \in Dimensions : DimensionRule[d] \in CapacityMismatchCode
  BY DEF CapacityMismatchCode
<1>4. \A d, e \in Dimensions : DimensionRule[d] = DimensionRule[e] => d = e
  BY <1>2 DEF Dimensions
<1>5. \A d \in Dimensions : DimensionRule[d] \in Reasons(c, o) <=>
         /\ AllDimensions(o) /\ c.size[d] # Unknown /\ o.size[d] # Unknown
         /\ o.size[d] < c.size[d]
  BY <1>2, <1>3, <1>4 DEF Reasons, Dimensions
<1>6. /\ "driver_not_qualified" \in Reasons(c, o) <=> ~ o.qualified
      /\ "driver_not_active" \in Reasons(c, o) <=> ~ o.driverActive
      /\ "vehicle_not_active" \in Reasons(c, o) <=> ~ o.vehicleActive
      /\ "vehicle_type_mismatch" \in Reasons(c, o) <=> o.vehicleType # c.vehicleType
      /\ "body_type_mismatch" \in Reasons(c, o) <=> o.bodyType # c.bodyType
      /\ "weight_capacity_insufficient" \in Reasons(c, o) <=> o.weight < c.weight
      /\ "volume_capacity_unknown" \in Reasons(c, o) <=> c.volume # Unknown /\ o.volume = Unknown
      /\ "volume_capacity_insufficient" \in Reasons(c, o) <=>
            c.volume # Unknown /\ o.volume # Unknown /\ o.volume < c.volume
      /\ "dimensions_capacity_unknown" \in Reasons(c, o) <=> HasDimensions(c) /\ ~ AllDimensions(o)
      /\ "tracking_unavailable" \in Reasons(c, o) <=> c.tracking /\ ~ o.tracking
  BY <1>2 DEF Reasons, CapacityMismatchCode, Dimensions
<1>7. \A rule \in CapacityMismatchCode :
        \/ rule \in {"driver_not_qualified", "driver_not_active", "vehicle_not_active",
                     "vehicle_type_mismatch", "body_type_mismatch",
                     "weight_capacity_insufficient", "volume_capacity_unknown",
                     "volume_capacity_insufficient", "dimensions_capacity_unknown",
                     "tracking_unavailable"}
        \/ \E d \in Dimensions : rule = DimensionRule[d]
  BY DEF CapacityMismatchCode
<1>8. Reasons(c, o) \subseteq CapacityMismatchCode
  BY DEF Reasons
<1>9. \A d \in Dimensions : Reaches(o.size[d], c.size[d]) <=>
         c.size[d] = Unknown \/ (o.size[d] # Unknown /\ ~ (o.size[d] < c.size[d]))
  BY <1>1 DEF Reaches, Measure
<1>10. Reaches(o.volume, c.volume) <=>
         c.volume = Unknown \/ (o.volume # Unknown /\ ~ (o.volume < c.volume))
  BY <1>1 DEF Reaches, Measure
<1>11. o.weight >= c.weight <=> ~ (o.weight < c.weight)
  BY <1>1
<1>12. \A d \in Dimensions : AllDimensions(o) => o.size[d] # Unknown
  BY DEF AllDimensions
<1>13. HasDimensions(c) <=> \E d \in Dimensions : c.size[d] # Unknown
  BY DEF HasDimensions
<1>14. ASSUME CanCarry(c, o) PROVE Reasons(c, o) = {}
  <2>1. ASSUME NEW rule \in Reasons(c, o) PROVE FALSE
    <3>1. CASE \E d \in Dimensions : rule = DimensionRule[d]
      BY <1>5, <1>9, <1>14, <2>1, <3>1 DEF CanCarry
    <3>2. CASE rule \notin {DimensionRule[d] : d \in Dimensions}
      BY <1>6, <1>7, <1>8, <1>10, <1>11, <1>14, <2>1, <3>2 DEF CanCarry
    <3> QED BY <3>1, <3>2
  <2> QED BY <2>1
<1>15. ASSUME Reasons(c, o) = {} PROVE CanCarry(c, o)
  <2>1. /\ o.qualified /\ o.driverActive /\ o.vehicleActive
        /\ o.vehicleType = c.vehicleType /\ o.bodyType = c.bodyType /\ o.weight >= c.weight
        /\ Reaches(o.volume, c.volume) /\ (HasDimensions(c) => AllDimensions(o))
        /\ (c.tracking => o.tracking)
    BY <1>6, <1>10, <1>11, <1>15
  <2>2. \A d \in Dimensions : Reaches(o.size[d], c.size[d])
    BY <1>5, <1>9, <1>12, <1>13, <1>15, <2>1
  <2> QED BY <2>1, <2>2 DEF CanCarry
<1>16. \A d \in Dimensions :
         DimensionRule[d] \notin Reasons(c, o) /\ AllDimensions(o)
         => Reaches(o.size[d], c.size[d])
  <2> SUFFICES ASSUME NEW d \in Dimensions, DimensionRule[d] \notin Reasons(c, o), AllDimensions(o)
               PROVE  Reaches(o.size[d], c.size[d])
    OBVIOUS
  <2> QED BY <1>5, <1>9, <1>12
<1> QED BY <1>14, <1>15, <1>16

\* Numbering the members of a finite set of numbers in their order uses the numbers
\* from one to their number.
LEMMA RanksAreDense ==
  ASSUME NEW F \in SUBSET Int, IsFiniteSet(F)
  PROVE  {Cardinality({b \in F : b <= a}) : a \in F} = 1..Cardinality(F)
<1> DEFINE UpTo(a) == {b \in F : b <= a}
           rank == [a \in F |-> Cardinality(UpTo(a))]
<1>1. Cardinality(F) \in Nat
  BY FS_CardinalityType
<1>2. \A a \in F : /\ IsFiniteSet(UpTo(a)) /\ Cardinality(UpTo(a)) \in Nat
                   /\ Cardinality(UpTo(a)) <= Cardinality(F)
  BY FS_Subset, FS_CardinalityType
<1>3. \A a \in F : Cardinality(UpTo(a)) # 0
  <2> SUFFICES ASSUME NEW a \in F PROVE Cardinality(UpTo(a)) # 0
    OBVIOUS
  <2>1. a \in UpTo(a)
    OBVIOUS
  <2> HIDE DEF UpTo
  <2> QED BY <1>2, <2>1, FS_EmptySet
<1>4. rank \in [F -> 1..Cardinality(F)]
  <2>1. \A a \in F : Cardinality(UpTo(a)) \in 1..Cardinality(F)
    BY <1>1, <1>2, <1>3
  <2> HIDE DEF UpTo
  <2> QED BY <2>1
<1>5. ASSUME NEW a \in F, NEW b \in F, a < b PROVE Cardinality(UpTo(a)) # Cardinality(UpTo(b))
  <2> a \in Int /\ b \in Int
    OBVIOUS
  <2>1. UpTo(a) \subseteq UpTo(b) /\ b \in UpTo(b) /\ b \notin UpTo(a)
    <3>1. \A x \in F : x \in Int
      OBVIOUS
    <3>2. \A x \in Int : x <= a => x <= b
      BY <1>5
    <3>3. b <= b /\ ~(b <= a)
      BY <1>5
    <3>4. UpTo(a) \subseteq UpTo(b)
      BY <3>1, <3>2
    <3>5. b \in UpTo(b)
      BY <3>3
    <3>6. b \notin UpTo(a)
      BY <3>3
    <3> HIDE DEF UpTo
    <3> QED BY <3>4, <3>5, <3>6
  <2> HIDE DEF UpTo
  <2> QED BY <1>2, <2>1, FS_Subset
<1>6. \A a, b \in F : a # b => rank[a] # rank[b]
  <2> SUFFICES ASSUME NEW a \in F, NEW b \in F, a # b PROVE rank[a] # rank[b]
    OBVIOUS
  <2>1. a < b \/ b < a
    OBVIOUS
  <2> HIDE DEF UpTo
  <2> QED BY <1>5, <2>1
<1> HIDE DEF rank
<1>7. ASSUME NEW r \in 1..Cardinality(F) PROVE \E a \in F : rank[a] = r
  <2> SUFFICES ASSUME \A a \in F : rank[a] # r PROVE FALSE
    OBVIOUS
  <2> DEFINE rest == (1..Cardinality(F)) \ {r}
  <2>1. IsFiniteSet(1..Cardinality(F)) /\ Cardinality(1..Cardinality(F)) = Cardinality(F)
    <3>1. /\ IsFiniteSet(1..Cardinality(F))
          /\ Cardinality(1..Cardinality(F)) =
                IF 1 > Cardinality(F) THEN 0 ELSE Cardinality(F) - 1 + 1
      BY <1>1, FS_Interval
    <3> QED BY <1>1, <3>1
  <2>2. IsFiniteSet(rest) /\ Cardinality(rest) = Cardinality(F) - 1
    BY <2>1, FS_RemoveElement
  <2>3. rank \in [F -> rest]
    BY <1>4
  <2> HIDE DEF rest
  <2>4. Cardinality(rest) < Cardinality(F)
    BY <1>1, <2>2
  <2>5. \E a, b \in F : a # b /\ rank[a] = rank[b]
    BY <2>2, <2>3, <2>4, FS_PigeonHole
  <2> QED BY <1>6, <2>5
<1>8. {rank[a] : a \in F} = 1..Cardinality(F)
  BY <1>4, <1>7
<1>9. \A a \in F : rank[a] = Cardinality({b \in F : b <= a})
  BY DEF rank
<1> QED BY <1>8, <1>9

\* What makes a run explained.
RunHolds(run) ==
    /\ TablesTake(run)
    /\ \A a \in Offered :
          LET row == run.candidates[a]
              o == run.offer[a]
              Judged(answer) == {of.code : of \in {of \in row.results : of.result = answer}}
          IN  /\ row.status = "eligible" <=> CanCarry(run.cargo, o)
              /\ row.rejections = Judged("failed")
              /\ row.blocking = Cardinality(row.rejections)
              /\ AllDimensions(o) =>
                    \A d \in Dimensions :
                       DimensionRule[d] \in Judged("passed")
                          => Reaches(o.size[d], run.cargo.size[d])
    /\ {run.candidates[a].rank : a \in Offered} \ {0} = 1..run.eligible

\* The rows of one candidate.
LEMMA CandidateExplained ==
  ASSUME NEW c \in CargoShapes, NEW offers \in [Offered -> OfferShapes],
         NEW stored \in Kept, NEW a \in Offered, NEW o, o = offers[a],
         NEW row, row = Candidate(c, offers, a, stored), FullRules(rules)
  PROVE  /\ CandidateTakes(row) /\ ScoreTakes(row.score)
         /\ \A result \in row.results : ResultTakes(result)
         /\ \A code \in row.rejections : RejectionTakes(code, row)
         /\ row.status = "eligible" <=> CanCarry(c, o)
         /\ row.rejections = {of.code : of \in {of \in row.results : of.result = "failed"}}
         /\ row.blocking = Cardinality(row.rejections)
         /\ AllDimensions(o) =>
               \A d \in Dimensions :
                  DimensionRule[d] \in {of.code : of \in {of \in row.results : of.result = "passed"}}
                     => Reaches(o.size[d], c.size[d])
<1>1. o \in OfferShapes /\ FullRules(stored)
  BY DEF Kept
<1>2. PICK reasons : reasons = Reasons(c, o)
  OBVIOUS
<1>3. /\ reasons \subseteq CapacityMismatchCode
      /\ Cardinality(reasons) \in Nat /\ (Cardinality(reasons) = 0 <=> reasons = {})
  <2>1. reasons \subseteq CapacityMismatchCode
    BY <1>2 DEF Reasons
  <2> QED BY <2>1, CodesFinite, FS_EmptySet
<1>4. /\ row.status = IF reasons = {} THEN "eligible" ELSE "rejected"
      /\ row.total = IF reasons = {} THEN 100 ELSE 0
      /\ row.blocking = Cardinality(reasons)
      /\ row.score = ScoreOf(IF reasons = {} THEN 100 ELSE 0)
      /\ row.results = {ResultOf(rule, c, o) : rule \in stored}
      /\ row.rejections = CodesOf(stored) \cap reasons
  BY <1>2 DEF Candidate, CodesOf
<1>5. row.rejections = reasons
  BY <1>1, <1>3, <1>4 DEF FullRules
<1>6. \A rule \in stored :
        /\ ResultOf(rule, c, o).code = rule.code /\ ResultOf(rule, c, o).version = 1
        /\ ResultOf(rule, c, o).result = RuleResult(rule.code, c, o)
        /\ ResultOf(rule, c, o).impact \in {"blocker", "neutral"}
        /\ RuleResult(rule.code, c, o) \in {"passed", "failed", "not_applicable"}
        /\ RuleResult(rule.code, c, o) = "failed" <=> rule.code \in reasons
        /\ rule.code \in CapacityMismatchCode
  BY <1>1, <1>2 DEF ResultOf, RuleResult, FullRules, CodesOf
<1>7. CandidateTakes(row) /\ ScoreTakes(row.score)
  BY <1>3, <1>4 DEF CandidateTakes, ScoreTakes, ScoreOf
<1>8. \A result \in row.results : ResultTakes(result)
  <2> SUFFICES ASSUME NEW rule \in stored PROVE ResultTakes(ResultOf(rule, c, o))
    BY <1>4
  <2>1. PICK result : result = ResultOf(rule, c, o)
    OBVIOUS
  <2>2. \E r \in rules : r.code = result.code
    BY <1>6, <2>1 DEF FullRules, CodesOf
  <2>3. /\ result.version > 0 /\ result.result \in {"passed", "failed", "not_applicable"}
        /\ result.impact \in {"blocker", "penalty", "bonus", "neutral"}
    BY <1>6, <2>1
  <2> QED BY <2>1, <2>2, <2>3 DEF ResultTakes
<1>9. \A code \in reasons : \E rule \in stored : rule.code = code
  BY <1>1, <1>3 DEF FullRules, CodesOf
<1>10. \A code \in row.rejections : RejectionTakes(code, row)
  BY <1>4, <1>5, <1>6, <1>9 DEF RejectionTakes
<1>11. row.status = "eligible" <=> CanCarry(c, o)
  BY <1>1, <1>2, <1>4, NothingMissing
<1>12. row.rejections = {of.code : of \in {of \in row.results : of.result = "failed"}}
  BY <1>4, <1>5, <1>6, <1>9
<1>13. ASSUME AllDimensions(o), NEW d \in Dimensions,
              DimensionRule[d] \in {of.code : of \in {of \in row.results : of.result = "passed"}}
       PROVE  Reaches(o.size[d], c.size[d])
  <2>1. PICK rule \in stored : /\ rule.code = DimensionRule[d]
                               /\ RuleResult(rule.code, c, o) = "passed"
    BY <1>4, <1>6, <1>13
  <2>2. DimensionRule[d] \notin Reasons(c, o)
    BY <1>2, <1>6, <2>1
  <2> QED BY <1>1, <1>13, <2>2, NothingMissing
<1> QED BY <1>4, <1>5, <1>7, <1>8, <1>10, <1>11, <1>12, <1>13

\* A run counts its candidates once, and ranks the eligible ones in their order.
LEMMA RunExplained ==
  ASSUME NEW run \in KeptRuns, FullRules(rules)
  PROVE  RunHolds(run)
<1>1. PICK c \in CargoShapes, offers \in [Offered -> OfferShapes],
           p \in Preferences \cup {NoPreference}, stored \in Kept :
        run = Matching(c, offers, p, stored)
  BY DEF KeptRuns
<1>2. PICK fits : fits = Fits(c, offers)
  OBVIOUS
<1>3. /\ run.preference = p /\ run.status = "completed" /\ run.cargo = c /\ run.offer = offers
      /\ run.candidates = [a \in Offered |-> Candidate(c, offers, a, stored)]
      /\ run.evaluated = Cardinality(Offered) /\ run.eligible = Cardinality(fits)
      /\ run.rejected = Cardinality(Offered \ fits)
  BY <1>1, <1>2 DEF Matching
<1>4. /\ fits \subseteq Offered /\ IsFiniteSet(Offered) /\ IsFiniteSet(fits)
      /\ fits \in SUBSET Int
      /\ \A a \in Offered : a \in fits <=> Reasons(c, offers[a]) = {}
  BY <1>2, MatchingAssumption, FS_Subset DEF Fits, Compatible
<1>5. RunTakes(run)
  <2>1. Cardinality(Offered) = Cardinality(fits) + Cardinality(Offered \ fits)
    <3>1. /\ IsFiniteSet(Offered \ fits)
          /\ Cardinality(Offered \ fits) = Cardinality(Offered) - Cardinality(Offered \cap fits)
      BY <1>4, FS_Difference
    <3>2. Offered \cap fits = fits
      BY <1>4
    <3>3. Cardinality(Offered) \in Nat /\ Cardinality(fits) \in Nat
      BY <1>4, FS_CardinalityType
    <3> QED BY <3>1, <3>2, <3>3
  <2> QED BY <1>3, <2>1 DEF RunTakes
<1>6. ASSUME NEW a \in Offered
      PROVE  LET row == run.candidates[a]
                 o == run.offer[a]
                 Judged(answer) == {of.code : of \in {of \in row.results : of.result = answer}}
             IN  /\ CandidateTakes(row) /\ ScoreTakes(row.score)
                 /\ \A result \in row.results : ResultTakes(result)
                 /\ \A code \in row.rejections : RejectionTakes(code, row)
                 /\ row.status = "eligible" <=> CanCarry(run.cargo, o)
                 /\ row.rejections = Judged("failed")
                 /\ row.blocking = Cardinality(row.rejections)
                 /\ AllDimensions(o) =>
                       \A d \in Dimensions :
                          DimensionRule[d] \in Judged("passed")
                             => Reaches(o.size[d], run.cargo.size[d])
  <2>1. run.candidates[a] = Candidate(c, offers, a, stored) /\ run.offer[a] = offers[a]
        /\ run.cargo = c
    BY <1>3
  <2> QED BY <2>1, CandidateExplained
<1>7. {run.candidates[a].rank : a \in Offered} \ {0} = 1..run.eligible
  <2>1. \A a \in Offered : run.candidates[a].rank =
           IF a \in fits THEN Cardinality({b \in fits : b <= a}) ELSE 0
    BY <1>2, <1>3, <1>4 DEF Candidate
  <2>2. {Cardinality({b \in fits : b <= a}) : a \in fits} = 1..Cardinality(fits)
    BY <1>4, RanksAreDense
  <2>3. 0 \notin 1..Cardinality(fits)
    <3>1. Cardinality(fits) \in Nat
      BY <1>4, FS_CardinalityType
    <3> QED BY <3>1
  <2>4. {run.candidates[a].rank : a \in Offered} \ {0} =
           {Cardinality({b \in fits : b <= a}) : a \in fits}
    BY <1>4, <2>1, <2>2, <2>3
  <2> QED BY <1>3, <2>2, <2>4
<1> QED BY <1>5, <1>6, <1>7 DEF RunHolds, TablesTake

\* The seed leaves every rule once.
LEMMA RulesEnsured ==
  ASSUME rules \subseteq RuleRow
  PROVE  EnsuredRules \in Kept
<1> DEFINE weight(code) == IF \E r \in rules : r.code = code
                           THEN (CHOOSE r \in rules : r.code = code).weight
                           ELSE BuiltIn(code).weight
           ruleOf(code) == [BuiltIn(code) EXCEPT !.weight = weight(code)]
<1>1. EnsuredRules = {ruleOf(code) : code \in CapacityMismatchCode}
  BY DEF EnsuredRules, BuiltInRules
<1>2. ASSUME NEW code \in CapacityMismatchCode
      PROVE  ruleOf(code) \in RuleRow /\ ruleOf(code).code = code /\ ruleOf(code).version = 1
  <2>1. weight(code) \in Nat
    <3>1. CASE \E r \in rules : r.code = code
      <4>1. (CHOOSE r \in rules : r.code = code) \in rules
        BY <3>1
      <4> QED BY <3>1, <4>1 DEF RuleRow
    <3>2. CASE ~ \E r \in rules : r.code = code
      BY <3>2 DEF BuiltIn
    <3> QED BY <3>1, <3>2
  <2>3. BuiltInRules[code] \in {"compliance", "availability", "equipment", "capacity"}
    BY DEF BuiltInRules
  <2>4. ruleOf(code) = [code |-> code, category |-> BuiltInRules[code], version |-> 1,
                        blocking |-> TRUE, active |-> TRUE, weight |-> weight(code)]
    <3>1. PICK w : w = weight(code)
      OBVIOUS
    <3>2. PICK category : category = BuiltInRules[code]
      OBVIOUS
    <3>3. ruleOf(code) = [BuiltIn(code) EXCEPT !.weight = w]
      BY <3>1
    <3> HIDE DEF weight, ruleOf
    <3>4. BuiltIn(code) = [code |-> code, category |-> category, version |-> 1,
                           blocking |-> TRUE, active |-> TRUE, weight |-> 1]
      BY <3>2 DEF BuiltIn
    <3>5. PICK yes : yes = TRUE
      OBVIOUS
    <3>6. PICK seed : seed = BuiltIn(code)
      OBVIOUS
    <3>7. seed = [code |-> code, category |-> category, version |-> 1,
                  blocking |-> yes, active |-> yes, weight |-> 1]
      BY <3>4, <3>5, <3>6
    <3>8. [seed EXCEPT !.weight = w] =
             [code |-> code, category |-> category, version |-> 1,
              blocking |-> yes, active |-> yes, weight |-> w]
      BY <3>7
    <3>9. ruleOf(code) = [seed EXCEPT !.weight = w]
      BY <3>3, <3>6
    <3>10. ruleOf(code) = [code |-> code, category |-> category, version |-> 1,
                           blocking |-> yes, active |-> yes, weight |-> w]
      BY <3>8, <3>9
    <3> QED BY <3>1, <3>2, <3>5, <3>10
  <2> HIDE DEF weight, ruleOf
  <2>5. ruleOf(code).code = code /\ ruleOf(code).version = 1
    BY <2>4
  <2>6. BuiltInRules[code] \in {"eligibility", "capacity", "equipment", "compliance",
                                "availability", "commercial", "preference"}
    BY <2>3
  <2>7. 1 \in Nat \ {0} /\ TRUE \in BOOLEAN
    OBVIOUS
  <2>8. ruleOf(code) \in RuleRow
    BY <2>1, <2>4, <2>6, <2>7 DEF RuleRow
  <2> QED BY <2>5, <2>8
<1> HIDE DEF ruleOf
<1>3. EnsuredRules \subseteq RuleRow /\ \A rule \in EnsuredRules : rule.version = 1
  BY <1>1, <1>2
<1>4. CodesOf(EnsuredRules) = CapacityMismatchCode
  BY <1>1, <1>2 DEF CodesOf
<1> QED BY <1>3, <1>4 DEF Kept, FullRules


LEMMA MatchingInitStep == MatchingInit => MatchingInv
BY DEF MatchingInit, MatchingInv

\* Executing the matching adds one run, judged by the rules it has just ensured.
LEMMA ExecuteStep ==
  ASSUME MatchingInv, NEW asked \in Preferences \cup {NoPreference}, Execute(asked)
  PROVE  MatchingInv'
<1>1. PICK p \in Preferences \cup {NoPreference} :
        /\ rules' = EnsuredRules
        /\ matchings' = Append(matchings, Matching(cargo, offer, p, EnsuredRules))
  BY DEF Execute
<1>2. PICK ensured : ensured = EnsuredRules
  OBVIOUS
<1>3. PICK run : run = Matching(cargo, offer, p, ensured)
  OBVIOUS
<1>4. cargo \in CargoShapes /\ offer \in [Offered -> OfferShapes] /\ rules \subseteq RuleRow
      /\ matchings \in Seq(KeptRuns)
  BY DEF MatchingInv
<1>5. ensured \in Kept
  BY <1>2, <1>4, RulesEnsured
<1>6. run \in KeptRuns
  BY <1>3, <1>4, <1>5 DEF KeptRuns
<1>7. matchings' \in Seq(KeptRuns)
  <2>1. matchings' = Append(matchings, run)
    BY <1>1, <1>2, <1>3
  <2> QED BY <1>4, <1>6, <2>1
<1>8. cargo' = cargo /\ offer' = offer /\ rules' = ensured
  BY <1>1, <1>2 DEF Execute
<1>9. ensured \subseteq RuleRow /\ FullRules(ensured)
  BY <1>5 DEF Kept
<1>10. FullRules(rules)'
  BY <1>8, <1>9 DEF FullRules, CodesOf
<1> QED BY <1>4, <1>7, <1>8, <1>9, <1>10 DEF MatchingInv

\* Reading the rules leaves every one of them once, too.
LEMMA ListRulesStep ==
  ASSUME MatchingInv, ListRules
  PROVE  MatchingInv'
<1>1. PICK ensured : ensured = EnsuredRules
  OBVIOUS
<1>2. cargo' = cargo /\ offer' = offer /\ matchings' = matchings /\ rules' = ensured
  BY <1>1 DEF ListRules
<1>3. ensured \in Kept
  BY <1>1, RulesEnsured DEF MatchingInv
<1>4. ensured \subseteq RuleRow /\ FullRules(ensured)
  BY <1>3 DEF Kept
<1>5. FullRules(rules)'
  BY <1>2, <1>4 DEF FullRules, CodesOf
<1> QED BY <1>2, <1>4, <1>5 DEF MatchingInv

\* A revision of the cargo or of a vehicle leaves the runs: their snapshots are
\* their own.
LEMMA RevisionStep ==
  ASSUME MatchingInv,
         \/ \E c \in CargoShapes : ReviseCargo(c)
         \/ \E a \in Offered, o \in OfferShapes : ReviseOffer(a, o)
  PROVE  MatchingInv'
<1>1. rules' = rules /\ matchings' = matchings
  BY DEF ReviseCargo, ReviseOffer
<1>2. cargo' \in CargoShapes /\ offer' \in [Offered -> OfferShapes]
  BY DEF MatchingInv, ReviseCargo, ReviseOffer
<1>3. FullRules(rules)' <=> FullRules(rules)
  BY <1>1 DEF FullRules, CodesOf
<1> QED BY <1>1, <1>2, <1>3 DEF MatchingInv

LEMMA MatchingNextStep ==
  ASSUME MatchingInv, [MatchingNext]_matchingVars
  PROVE  MatchingInv'
<1>1. CASE \E asked \in Preferences \cup {NoPreference} : Execute(asked)
  BY <1>1, ExecuteStep
<1>2. CASE ListRules
  BY <1>2, ListRulesStep
<1>3. CASE \/ \E c \in CargoShapes : ReviseCargo(c)
           \/ \E a \in Offered, o \in OfferShapes : ReviseOffer(a, o)
  BY <1>3, RevisionStep
<1>4. CASE UNCHANGED matchingVars
  BY <1>4 DEF matchingVars, MatchingInv, FullRules, CodesOf
<1> QED BY <1>1, <1>2, <1>3, <1>4 DEF MatchingNext

\* The rules are ensured before a run is kept, and a run is what the tables and
\* the compatibility function make of its own snapshots.
THEOREM MatchingInvariant == MatchingSpec => []MatchingInv
BY MatchingInitStep, MatchingNextStep, PTL DEF MatchingSpec

\* Whatever cargo and vehicles are revised between the runs: of every run kept, the
\* eligible candidates are those known to carry the cargo, ranked without a gap,
\* each rejection stands for a failed rule and the reverse, and the tables take
\* every row.
THEOREM RunsExplained == MatchingSpec => []RunsAreExplained
<1>1. MatchingInv => RunsAreExplained
  <2> SUFFICES ASSUME MatchingInv, NEW i \in DOMAIN matchings PROVE RunHolds(matchings[i])
    BY DEF RunsAreExplained, RunHolds
  <2>1. matchings[i] \in KeptRuns /\ matchings # <<>>
    BY DEF MatchingInv
  <2>2. FullRules(rules)
    BY <2>1 DEF MatchingInv
  <2> QED BY <2>1, <2>2, RunExplained
<1> QED BY <1>1, MatchingInvariant, PTL

\* The seed writes every code once, so the rows keep the unique key of their code
\* (CapacityMatching!MatchingTypeOK).
LEMMA MatchingTyped == MatchingSpec => []MatchingTypeOK
<1>1. MatchingInit => MatchingInv /\ CodeIsUnique
  BY MatchingInitStep DEF MatchingInit, CodeIsUnique
<1>2. MatchingInv /\ CodeIsUnique /\ [MatchingNext]_matchingVars => MatchingInv' /\ CodeIsUnique'
  <2> SUFFICES ASSUME MatchingInv, CodeIsUnique, [MatchingNext]_matchingVars
               PROVE  CodeIsUnique'
    BY MatchingNextStep
  <2>1. CASE rules' = rules
    BY <2>1 DEF CodeIsUnique
  <2>2. CASE rules' = EnsuredRules
    <3>1. PICK seeded : seeded = [code \in CapacityMismatchCode |->
             [BuiltIn(code) EXCEPT !.weight = IF \E r \in rules : r.code = code
                                              THEN (CHOOSE r \in rules : r.code = code).weight
                                              ELSE @]]
      OBVIOUS
    <3>2. \A code \in CapacityMismatchCode : seeded[code].code = code
      BY <3>1 DEF BuiltIn
    <3>3. EnsuredRules = {seeded[code] : code \in CapacityMismatchCode}
      BY <3>1 DEF EnsuredRules, BuiltInRules
    <3> QED BY <2>2, <3>2, <3>3 DEF CodeIsUnique
  <2> QED BY <2>1, <2>2 DEF MatchingNext, Execute, ListRules, ReviseCargo, ReviseOffer, matchingVars
<1>3. MatchingInv /\ CodeIsUnique => MatchingTypeOK
  BY DEF MatchingInv, MatchingTypeOK
<1> QED BY <1>1, <1>2, <1>3, PTL DEF MatchingSpec

-----------------------------------------------------------------------------
(* The types of the records.                                               *)

\* What a call in flight may write into positions and costs.
CostCall(c) ==
    /\ c.op = "locate" => c.trip \in Journeys /\ c.event \in ProviderEvents
    /\ c.op = "spend" => c.row \in CostRow
    /\ c.op = "review" => c.status \in {"approved", "rejected", "voided"}

CostInv ==
    /\ journey \in [Journeys -> {"ready", "in_transit", "completed", "cancelled"}]
    /\ sighting \in [ProviderEvents -> Journeys \cup {Nowhere}]
    /\ cost \in [Journeys -> Seq(CostRow)]
    /\ DOMAIN record = RecordCalls
    /\ \A k \in RecordCalls : record[k] # NoRecord => CostCall(record[k])

LEMMA CostChecked ==
  ASSUME CostInv, NEW k \in RecordCalls, NEW what, Check(k, what), CostCall(what)
  PROVE  CostInv'
BY DEF Check, RowsUnchanged, CostInv, CostCall

\* What is read when a call checks is of its type.
LEMMA CostTripStep ==
  ASSUME CostInv, NEW k \in RecordCalls, NEW t \in Journeys, RecordTrip(k, t)
  PROVE  CostInv'
<1>1. ASSUME NEW e \in ProviderEvents, CheckLocation(k, t, e) PROVE CostInv'
  <2>1. CostCall([op |-> "locate", trip |-> t, event |-> e])
    BY DEF CostCall
  <2> QED BY <1>1, <2>1, CostChecked DEF CheckLocation
<1>2. ASSUME NEW row, CheckLinkDocument(k, t, row) PROVE CostInv'
  <2>1. CostCall([op |-> "link", trip |-> t, row |-> row])
    BY DEF CostCall
  <2> QED BY <1>2, <2>1, CostChecked DEF CheckLinkDocument
<1>3. ASSUME NEW kind \in {"expense", "toll", "fuel"}, CheckCost(k, t, kind)
      PROVE  CostInv'
  <2>1. CostCall([op |-> "spend", trip |-> t, row |-> [kind |-> kind, status |-> "reported"]])
    BY DEF CostCall, CostRow
  <2> QED BY <1>3, <2>1, CostChecked DEF CheckCost
<1>4. ASSUME NEW i, NEW s \in {"approved", "rejected", "voided"}, CheckExpenseStatus(k, t, i, s)
      PROVE  CostInv'
  <2>1. CostCall([op |-> "review", trip |-> t, cost |-> i, status |-> s])
    BY DEF CostCall
  <2> QED BY <1>4, <2>1, CostChecked DEF CheckExpenseStatus
<1>5. ASSUME NEW row, CheckProof(k, t, row) PROVE CostInv'
  <2>1. CostCall([op |-> "prove", trip |-> t, row |-> row])
    BY DEF CostCall
  <2> QED BY <1>5, <2>1, CostChecked DEF CheckProof
<1>6. ASSUME NEW stop, NEW i, CheckDeliveryProof(k, t, stop, i) PROVE CostInv'
  <2>1. CostCall([op |-> "deliver", trip |-> t, row |-> [stop |-> stop, proof |-> i]])
    BY DEF CostCall
  <2> QED BY <1>6, <2>1, CostChecked DEF CheckDeliveryProof
<1> QED BY <1>1, <1>2, <1>3, <1>4, <1>5, <1>6 DEF RecordTrip

LEMMA CostOccurrenceStep ==
  ASSUME CostInv, NEW k \in RecordCalls, NEW o \in Occurrences, RecordOccurrence(k, o)
  PROVE  CostInv'
<1>1. ASSUME NEW t, NEW who, CheckOccurrence(k, o, t, who) PROVE CostInv'
  <2>1. CostCall([op |-> "report", of |-> o, at |-> 0, trip |-> t, who |-> who])
    BY DEF CostCall
  <2> QED BY <1>1, <2>1, CostChecked DEF CheckOccurrence
<1>2. ASSUME NEW who, NEW at, CheckTreatment(k, o, who, at) PROVE CostInv'
  <2>1. CostCall([op |-> "treat", of |-> o, who |-> who, at |-> at])
    BY DEF CostCall
  <2> QED BY <1>2, <2>1, CostChecked DEF CheckTreatment
<1>3. ASSUME NEW s, NEW at, CheckOccurrenceStatus(k, o, s, at) PROVE CostInv'
  <2>1. CostCall([op |-> "turn", of |-> o, at |-> at, from |-> occurrence[o].status, to |-> s,
                  who |-> occurrence[o].responsible])
    BY DEF CostCall
  <2> QED BY <1>3, <2>1, CostChecked DEF CheckOccurrenceStatus
<1> QED BY <1>1, <1>2, <1>3 DEF RecordOccurrence

\* A cost is added as it was reported, or its status is decided.
LEMMA CostWritten ==
  ASSUME cost \in [Journeys -> Seq(CostRow)], NEW c, CostCall(c)
  PROVE  CostAfter(c) \in [Journeys -> Seq(CostRow)]
<1>1. CASE c.op = "spend"
  <2>1. \A t \in Journeys : Append(cost[t], c.row) \in Seq(CostRow)
    BY <1>1 DEF CostCall
  <2> QED BY <1>1, <2>1 DEF CostAfter
<1>2. CASE c.op = "review"
  <2>1. PICK t, i, s : t = c.trip /\ i = c.cost /\ s = c.status
    OBVIOUS
  <2>2. s \in {"approved", "rejected", "voided"}
    BY <1>2, <2>1 DEF CostCall
  <2>3. CostAfter(c) = [cost EXCEPT ![t][i].status = s]
    BY <1>2, <2>1 DEF CostAfter
  <2>4. ASSUME t \in Journeys PROVE [cost[t] EXCEPT ![i].status = s] \in Seq(CostRow)
    <3>1. PICK rows \in Seq(CostRow) : rows = cost[t]
      BY <2>4
    <3>2. [rows EXCEPT ![i].status = s] \in [1..Len(rows) -> CostRow]
      <4>1. rows \in [1..Len(rows) -> CostRow]
        BY <3>1
      <4>2. i \in 1..Len(rows) => [rows[i] EXCEPT !.status = s] \in CostRow
        BY <2>2, <4>1 DEF CostRow
      <4> QED BY <4>1, <4>2
    <3>3. Len(rows) \in Nat
      BY <3>1
    <3>4. [rows EXCEPT ![i].status = s] \in Seq(CostRow)
      BY <3>2, <3>3, SeqDef
    <3> QED BY <3>1, <3>4
  <2> QED BY <2>3, <2>4
<1>3. CASE c.op \notin {"spend", "review"}
  BY <1>3 DEF CostAfter
<1> QED BY <1>1, <1>2, <1>3

LEMMA CostCommit ==
  ASSUME CostInv, NEW k \in RecordCalls, CommitRecord(k)
  PROVE  CostInv'
<1>1. PICK c : c = record[k]
  OBVIOUS
<1>2. /\ CostCall(c) /\ sighting' = SightingAfter(c) /\ cost' = CostAfter(c)
      /\ journey' = journey /\ record' = [record EXCEPT ![k] = NoRecord]
  BY <1>1 DEF CommitRecord, Write, CostInv
<1>3. sighting' \in [ProviderEvents -> Journeys \cup {Nowhere}]
  BY <1>2 DEF CostInv, SightingAfter, CostCall
<1>4. cost' \in [Journeys -> Seq(CostRow)]
  BY <1>2, CostWritten DEF CostInv
<1>5. \A j \in RecordCalls : record'[j] # NoRecord => CostCall(record'[j])
  BY <1>2 DEF CostInv
<1> QED BY <1>2, <1>3, <1>4, <1>5 DEF CostInv, CostCall

LEMMA CostNextStep ==
  ASSUME CostInv, [RecordNext]_recordVars
  PROVE  CostInv'
<1>1. CASE UNCHANGED recordVars
  BY <1>1 DEF recordVars, CostInv, CostCall
<1>2. ASSUME NEW k \in RecordCalls, AbandonRecord(k) PROVE CostInv'
  BY <1>2 DEF AbandonRecord, RowsUnchanged, CostInv, CostCall
<1>3. ASSUME NEW t \in Journeys, JourneyMoves(t) PROVE CostInv'
  BY <1>3 DEF JourneyMoves, CostInv, CostCall
<1>4. ASSUME NEW o, NEW p, LinkOccurrenceDocument(o, p) PROVE CostInv'
  BY <1>4 DEF LinkOccurrenceDocument, CostInv, CostCall
<1> QED BY <1>1, <1>2, <1>3, <1>4, CostTripStep, CostOccurrenceStep, CostCommit DEF RecordNext

\* Positions, papers, costs, proofs, deliveries and histories are of their types
\* (TripRecords!RecordTypeOK).
LEMMA RecordTyped == RecordSpec => []RecordTypeOK
<1>1. RecordInit => CostInv /\ HistoryInv
  BY HistoryInitStep DEF RecordInit, CostInv
<1>2. CostInv /\ HistoryInv /\ [RecordNext]_recordVars => CostInv' /\ HistoryInv'
  BY CostNextStep, HistoryNextStep
<1>3. CostInv /\ HistoryInv /\ EvidenceInv => RecordTypeOK
  BY DEF CostInv, HistoryInv, OccurrenceRow, EvidenceInv, Rests, DeliveryRow, RecordTypeOK
<1> QED BY <1>1, <1>2, <1>3, EvidenceInvariant, PTL DEF RecordSpec

-----------------------------------------------------------------------------
(* The shared run.                                                         *)

\* A behaviour of the shared run is a behaviour of each of its components, whichever
\* of them moves: what is proved of a component holds in the run.
THEOREM BackOfficeRunsItsParts ==
  MCSpec => /\ FinanceSpec /\ RiskSpec /\ CapacitySpec /\ ThreadSpec
            /\ NoticeSpec /\ MatchingSpec /\ RecordSpec
<1>1. MCInit => /\ FinanceInit /\ RiskInit /\ CapacityInit /\ ThreadInit
                /\ NoticeInit /\ MatchingInit /\ RecordInit
  BY DEF MCInit
<1>2. [MCNext]_<<part, financeVars, riskVars, capacityVars,
                 threadVars, noticeVars, matchingVars, recordVars>> =>
        /\ [FinanceNext]_financeVars /\ [RiskNext]_riskVars /\ [CapacityNext]_capacityVars
        /\ [ThreadNext]_threadVars /\ [NoticeNext]_noticeVars
        /\ [MatchingNext]_matchingVars /\ [RecordNext]_recordVars
  BY DEF MCNext
<1> QED BY <1>1, <1>2, PTL DEF MCSpec, FinanceSpec, RiskSpec, CapacitySpec, ThreadSpec,
                               NoticeSpec, MatchingSpec, RecordSpec

\* Every row, lock and pending call of the run keeps its type
\* (MCBackOffice!BackOfficeTypeOK).
THEOREM BackOfficeTyped == MCSpec => []BackOfficeTypeOK
<1>1. RiskInv => RiskTypeOK
  BY DEF RiskInv
<1>2. CapacityInv => CapacityTypeOK
  BY DEF CapacityInv
<1>3. ThreadInv => ThreadTypeOK
  BY DEF ThreadInv
<1>4. NoticeInv => NoticeTypeOK
  BY DEF NoticeInv
<1>5. FinanceTypeOK /\ RiskTypeOK /\ CapacityTypeOK /\ ThreadTypeOK /\ NoticeTypeOK
        /\ MatchingTypeOK /\ RecordTypeOK => BackOfficeTypeOK
  BY DEF BackOfficeTypeOK
<1> QED BY <1>1, <1>2, <1>3, <1>4, <1>5, BackOfficeRunsItsParts, FinanceTyped,
           RiskInvariant, CapacityInvariant, ThreadInvariant, NoticeInvariant,
           MatchingTyped, RecordTyped, PTL
================================================================================
