------------------------- MODULE NegotiationThreads -------------------------
(***************************************************************************)
(* The threads of a negotiation, their participants and their messages     *)
(* (negotiation-collaboration.service.ts, migration 0021).  Every change   *)
(* of a thread takes its row FOR UPDATE: a call is the step that locks,    *)
(* checks and decides, and the step that writes and commits.  Requests and *)
(* memberships are read without a lock and change meanwhile.               *)
(***************************************************************************)
EXTENDS Integers, Sequences, FiniteSets

CONSTANTS Threads, Members, Externals, ThreadCalls, NoChange,
          MaxParticipants, MaxMessages

VARIABLES negotiable,   \* the request is ready_for_quote or in_negotiation
          membership,   \* members of the tenant whose membership is active
          thread,       \* [Threads -> ThreadStatus]
          participant,  \* [Threads -> Seq(ParticipantRow)]
          posted,       \* [Threads -> Seq(MessageRow)]
          change        \* [ThreadCalls -> NoChange or a change to commit]

threadVars == <<negotiable, membership, thread, participant, posted, change>>

ThreadStatus == {"absent", "open", "closed", "cancelled"}

(* who: a membership (internal), or a party or contact of one (external).  *)
ParticipantRow == [who : Members \cup Externals, left : BOOLEAN]

(* author: a participant of the thread; reply: a message of it, or 0.      *)
MessageRow == [author : Nat, reply : Nat]

ThreadInit ==
    /\ negotiable = TRUE
    /\ membership = Members
    /\ thread = [t \in Threads |-> "absent"]
    /\ participant = [t \in Threads |-> <<>>]
    /\ posted = [t \in Threads |-> <<>>]
    /\ change = [k \in ThreadCalls |-> NoChange]

-----------------------------------------------------------------------------
(* A slip: the thread is read without FOR UPDATE.                          *)
ThreadUnlocked(t) == TRUE

(* FOR UPDATE OF t: no call that has the thread is still to commit.        *)
ThreadFree(t) == \A k \in ThreadCalls : change[k] # NoChange => change[k].of # t

Attempt(k, what) ==
    /\ change[k] = NoChange
    /\ change' = [change EXCEPT ![k] = what]
    /\ UNCHANGED <<negotiable, membership, thread, participant, posted>>

(* requireThread(..., true), requireOpenThread.                            *)
ChangeOpen(k, what) ==
    /\ ThreadFree(what.of)
    /\ thread[what.of] = "open"
    /\ Attempt(k, what)

Present(t) == {i \in DOMAIN participant[t] : ~participant[t][i].left}

InternalPresent(t) == {i \in Present(t) : participant[t][i].who \in Members}

(* The creator is its first participant; a new row is nobody else's yet.   *)
CreateThread(k, t, actor) ==
    /\ thread[t] = "absent"
    /\ ThreadFree(t)
    /\ negotiable
    /\ actor \in membership
    /\ Attempt(k, [of |-> t, op |-> "create", who |-> actor])

SetThreadStatus(k, t, actor, status) ==
    /\ actor \in membership
    /\ ChangeOpen(k, [of |-> t, op |-> "status", status |-> status])

(* requireParticipantIdentity: a membership is active.  External parties   *)
(* and their contacts are, which other modules may change.                 *)
Identified(who) == who \in Members => who \in membership

(* The unique indexes of active participants refuse one who is present.    *)
AddParticipant(k, t, actor, who) ==
    /\ actor \in membership
    /\ Identified(who)
    /\ Len(participant[t]) < MaxParticipants
    /\ \A i \in Present(t) : participant[t][i].who # who
    /\ ChangeOpen(k, [of |-> t, op |-> "add", who |-> who])

RemoveParticipant(k, t, actor, i) ==
    /\ actor \in membership
    /\ i \in Present(t)
    /\ i \in InternalPresent(t) => Cardinality(InternalPresent(t)) > 1
    /\ ChangeOpen(k, [of |-> t, op |-> "remove", participant |-> i])

(* requireMessageReferences: the reply is in the thread.  A proposal named *)
(* by the message is of the thread's request, which never changes.         *)
RepliesTo(t, reply) == reply \in {0} \cup DOMAIN posted[t]

(* The author is the caller.                                               *)
CreateMessage(k, t, i, reply) ==
    /\ i \in InternalPresent(t) /\ participant[t][i].who \in membership
    /\ Len(posted[t]) < MaxMessages
    /\ RepliesTo(t, reply)
    /\ ChangeOpen(k, [of |-> t, op |-> "post", author |-> i, reply |-> reply])

-----------------------------------------------------------------------------
StatusAfter(c) == CASE c.op = "create" -> "open"
                    [] c.op = "status" -> c.status
                    [] OTHER           -> thread[c.of]

ParticipantsAfter(c) ==
    CASE c.op \in {"create", "add"} ->
             Append(participant[c.of], [who |-> c.who, left |-> FALSE])
      [] c.op = "remove" -> [participant[c.of] EXCEPT ![c.participant].left = TRUE]
      [] OTHER           -> participant[c.of]

PostedAfter(c) ==
    IF c.op = "post"
    THEN Append(posted[c.of], [author |-> c.author, reply |-> c.reply])
    ELSE posted[c.of]

CommitChange(k) ==
    /\ change[k] # NoChange
    /\ LET c == change[k]
       IN  /\ thread' = [thread EXCEPT ![c.of] = StatusAfter(c)]
           /\ participant' = [participant EXCEPT ![c.of] = ParticipantsAfter(c)]
           /\ posted' = [posted EXCEPT ![c.of] = PostedAfter(c)]
    /\ change' = [change EXCEPT ![k] = NoChange]
    /\ UNCHANGED <<negotiable, membership>>

AbandonChange(k) == /\ change[k] # NoChange
                    /\ change' = [change EXCEPT ![k] = NoChange]
                    /\ UNCHANGED <<negotiable, membership, thread, participant, posted>>

(* Other services: the request's status, a membership's.                   *)
NegotiationMoves == /\ negotiable' = ~negotiable
                    /\ UNCHANGED <<membership, thread, participant, posted, change>>

MembershipChanges(u) ==
    /\ membership' = IF u \in membership THEN membership \ {u} ELSE membership \cup {u}
    /\ UNCHANGED <<negotiable, thread, participant, posted, change>>

ThreadNext ==
    \/ \E k \in ThreadCalls, t \in Threads, actor \in Members :
          \/ CreateThread(k, t, actor)
          \/ \E status \in {"closed", "cancelled"} : SetThreadStatus(k, t, actor, status)
          \/ \E who \in Members \cup Externals : AddParticipant(k, t, actor, who)
          \/ \E i \in DOMAIN participant[t] : RemoveParticipant(k, t, actor, i)
    \/ \E k \in ThreadCalls, t \in Threads :
          \E i \in DOMAIN participant[t], reply \in {0} \cup DOMAIN posted[t] :
             CreateMessage(k, t, i, reply)
    \/ \E k \in ThreadCalls : CommitChange(k) \/ AbandonChange(k)
    \/ NegotiationMoves
    \/ \E u \in Members : MembershipChanges(u)

ThreadSpec == ThreadInit /\ [][ThreadNext]_threadVars

-----------------------------------------------------------------------------
ThreadTypeOK ==
    /\ negotiable \in BOOLEAN
    /\ membership \subseteq Members
    /\ thread \in [Threads -> ThreadStatus]
    /\ participant \in [Threads -> Seq(ParticipantRow)]
    /\ posted \in [Threads -> Seq(MessageRow)]
    /\ \A k \in ThreadCalls :
          change[k] = NoChange \/ change[k].op \in {"create", "status", "add", "remove", "post"}

(* A thread always has an internal participant who has not left, and nobody*)
(* is present twice: removals count the ones who stay, and two of them at  *)
(* once would each count the other.                                        *)
AlwaysStaffed ==
    \A t \in Threads :
        thread[t] # "absent" =>
            /\ InternalPresent(t) # {}
            /\ \A i, j \in Present(t) :
                  participant[t][i].who = participant[t][j].who => i = j
=============================================================================
