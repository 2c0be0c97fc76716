------------------------------ MODULE Archive ------------------------------
(***************************************************************************)
(* The archive of terminated sessions (session-archive.service): runs that  *)
(* copy rows of sessions into session_archives and then delete them, the    *)
(* clean-up of archives past their retention, restoring, and the admin's    *)
(* deletions and changes of retention.                                      *)
(*                                                                         *)
(* The cron and the admin's POST each start a run; a run reads its list     *)
(* once and then takes two transactions per session.  Of a session only     *)
(* what an archive must preserve is kept: when and why it was terminated.   *)
(***************************************************************************)
EXTENDS Naturals, FiniteSets

CONSTANTS
    Sids,                \* session ids, the unique key of sessions
    Reasons,             \* termination reasons; the admin may invent one
    Retention,           \* calculateRetentionDays: the reasons it lists
    Owners,              \* the sessions of one user, or of one device
    Days,                \* retentions an admin may choose
    Ages,                \* maxTerminatedDays: 7, or what an admin asks for
    ArchiveIds,          \* rows of session_archives; bounds the archives
    Jobs, Restores,      \* slots of runs and restores in flight at once
    None,
    MaxTime, MaxTerminations, MaxRestores, MaxFailures      \* bounds

ASSUME NumbersAssumption ==
    /\ Ages \subseteq Nat /\ Days \subseteq Nat
    /\ MaxTime \in Nat /\ MaxTerminations \in Nat
    /\ MaxRestores \in Nat /\ MaxFailures \in Nat

ASSUME FiniteAssumption == IsFiniteSet(Jobs) /\ IsFiniteSet(ArchiveIds)

ASSUME SetsAssumption ==
    /\ DOMAIN Retention \subseteq Reasons
    /\ \A r \in DOMAIN Retention : Retention[r] \in Nat
    /\ Owners \subseteq SUBSET Sids
    /\ None \notin Nat \cup Reasons

(* A row of sessions.  id is its primary key: a restored session has a new one. *)
Closed == [sid : Sids, id : Nat, terminatedAt : Nat, reason : Reasons]
Open   == [sid : Sids, id : Nat, terminatedAt : {None}, reason : {None}]

ArchiveRow == [sid : Sids, terminatedAt : Nat, reason : Reasons,
               archivedAt : Nat, retentionExpiresAt : Nat]

Ended == [at : Nat, reason : Reasons]

ASSUME NoneIsNoRow == None \notin Open \cup Closed \cup ArchiveRow

VARIABLES
    now,       \* the clock, in days
    sess,      \* the sessions table
    rowIds,    \* the last primary key a session's row has had
    archives,  \* the session_archives table
    job,       \* runs in flight
    restore,   \* restores in flight: the archive each has read
    failures,  \* crashes and failed statements so far
    ended,     \* history: the terminations of each session, date and reason
    touched    \* history: sessions whose archives the admin deleted or changed

vars == <<now, sess, rowIds, archives, job, restore, failures, ended, touched>>
-----------------------------------------------------------------------------
JobState == [pc : {"idle", "insert", "delete"}, todo : SUBSET Closed,
             current : Closed \cup {None}]

IdleJob == [pc |-> "idle", todo |-> {}, current |-> None]

(* Logins have left their sessions in the table. *)
Init ==
    /\ now = 0
    /\ sess = [s \in Sids |-> [sid |-> s, id |-> 0, terminatedAt |-> None,
                               reason |-> None]]
    /\ rowIds = [s \in Sids |-> 0]
    /\ archives = [a \in ArchiveIds |-> None]
    /\ job = [j \in Jobs |-> IdleJob]
    /\ restore = [q \in Restores |-> None]
    /\ failures = 0
    /\ ended = [s \in Sids |-> {}]
    /\ touched = {}
-----------------------------------------------------------------------------
Stored == {a \in ArchiveIds : archives[a] # None}

ArchivesOf(S) == {a \in Stored : archives[a].sid \in S}

(* Any of the handlers of module Sessions.  One that read the row while it   *)
(* was open writes over an earlier termination; a restored row never was.    *)
Terminate(s, reason) ==
    /\ sess[s] # None /\ sess[s].id = 0
    /\ Cardinality(ended[s]) < MaxTerminations
    /\ sess' = [sess EXCEPT ![s].terminatedAt = now, ![s].reason = reason]
    /\ ended' = [ended EXCEPT ![s] = @ \cup {[at |-> now, reason |-> reason]}]
    /\ UNCHANGED <<now, rowIds, archives, job, restore, failures, touched>>
-----------------------------------------------------------------------------
(* A run: archiveTerminatedSessions and archiveSession.                     *)

TerminatedLongAgo(age) ==
    {s \in Sids : /\ sess[s] # None /\ sess[s].terminatedAt # None
                  /\ sess[s].terminatedAt + age < now}

ListTerminated(j, age) ==
    /\ job[j].pc = "idle"
    /\ job' = [job EXCEPT ![j] = [pc |-> "insert", current |-> None,
                                  todo |-> {sess[s] : s \in TerminatedLongAgo(age)}]]
    /\ UNCHANGED <<now, sess, rowIds, archives, restore, failures, ended, touched>>

Archived(row) ==
    [sid |-> row.sid, terminatedAt |-> row.terminatedAt, reason |-> row.reason,
     archivedAt |-> now, retentionExpiresAt |-> now + Retention[row.reason]]

CreateArchive(j, row) ==
    /\ job[j].pc = "insert" /\ row \in job[j].todo
    /\ row.reason \in DOMAIN Retention
    /\ \E a \in ArchiveIds \ Stored :
          archives' = [archives EXCEPT ![a] = Archived(row)]
    /\ job' = [job EXCEPT ![j] = [pc |-> "delete", current |-> row,
                                  todo |-> job[j].todo \ {row}]]
    /\ UNCHANGED <<now, sess, rowIds, restore, failures, ended, touched>>

(* Faulty: the run goes on to the deletion. *)
InsertIgnored(j, row) ==
    job' = [job EXCEPT ![j] = [pc |-> "delete", current |-> row,
                               todo |-> job[j].todo \ {row}]]

InsertSkipped(j, row) == job' = [job EXCEPT ![j].todo = @ \ {row}]

(* The insert fails and the session is skipped.  One whose reason has no    *)
(* retention fails always: its retention date is not a date.                *)
CreateArchiveFails(j, row) ==
    /\ job[j].pc = "insert" /\ row \in job[j].todo
    /\ IF row.reason \in DOMAIN Retention
       THEN failures < MaxFailures /\ failures' = failures + 1
       ELSE UNCHANGED failures
    /\ InsertSkipped(j, row)
    /\ UNCHANGED <<now, sess, rowIds, archives, restore, ended, touched>>

(* Faulty: removed from the identity map and not flushed. *)
NotFlushed(row) == sess

(* Deletes by primary key: a row restored meanwhile has another.            *)
Deleted(row) ==
    [sess EXCEPT ![row.sid] = IF @ # None /\ @.id = row.id THEN None ELSE @]

DeleteSession(j) ==
    /\ job[j].pc = "delete"
    /\ \/ sess' = Deleted(job[j].current) /\ UNCHANGED failures
       \/ UNCHANGED sess /\ failures < MaxFailures /\ failures' = failures + 1
    /\ job' = [job EXCEPT ![j].pc = "insert", ![j].current = None]
    /\ UNCHANGED <<now, rowIds, archives, restore, ended, touched>>

(* The list is worked off, or the process dies between two transactions.    *)
JobEnds(j) ==
    /\ job[j].pc # "idle"
    /\ IF job[j].pc = "insert" /\ job[j].todo = {} THEN UNCHANGED failures
       ELSE failures < MaxFailures /\ failures' = failures + 1
    /\ job' = [job EXCEPT ![j] = IdleJob]
    /\ UNCHANGED <<now, sess, rowIds, archives, restore, ended, touched>>
-----------------------------------------------------------------------------
(* Deleting archives and changing their retention: one statement each. *)

Expired == {a \in Stored : archives[a].retentionExpiresAt < now}

Without(A) == [a \in ArchiveIds |-> IF a \in A THEN None ELSE archives[a]]

CleanupExpiredArchives ==
    /\ Expired # {}
    /\ archives' = Without(Expired)
    /\ UNCHANGED <<now, sess, rowIds, job, restore, failures, ended, touched>>

DeleteArchives(A) ==
    /\ A # {}
    /\ archives' = Without(A)
    /\ touched' = touched \cup {archives[a].sid : a \in A}
    /\ UNCHANGED <<now, sess, rowIds, job, restore, failures, ended>>

DeleteArchivesByOwner(S) == DeleteArchives(ArchivesOf(S))

DeleteArchivesByReason(reason) ==
    DeleteArchives({a \in Stored : archives[a].reason = reason})

UpdateArchiveRetention(a, days) ==
    /\ archives[a] # None
    /\ archives' = [archives EXCEPT ![a].retentionExpiresAt = now + days]
    /\ touched' = touched \cup {archives[a].sid}
    /\ UNCHANGED <<now, sess, rowIds, job, restore, failures, ended>>
-----------------------------------------------------------------------------
(* restoreArchivedSession: any archive of the session, then an insert that  *)
(* the unique key refuses while the session has a row.                      *)

FindArchive(q, a) ==
    /\ restore[q] = None
    /\ archives[a] # None
    /\ restore' = [restore EXCEPT ![q] = archives[a]]
    /\ UNCHANGED <<now, sess, rowIds, archives, job, failures, ended, touched>>

(* Faulty: the restored session has not been terminated. *)
Reopened(archive, id) ==
    [sid |-> archive.sid, id |-> id, terminatedAt |-> None, reason |-> None]

(* Faulty: a termination date without a reason. *)
RestoredUnexplained(archive, id) ==
    [sid |-> archive.sid, id |-> id, terminatedAt |-> archive.terminatedAt,
     reason |-> None]

Restored(archive, id) ==
    [sid |-> archive.sid, id |-> id, terminatedAt |-> archive.terminatedAt,
     reason |-> archive.reason]

CreateSessionFromArchive(q) ==
    LET archive == restore[q]
        id == rowIds[archive.sid] + 1
    IN /\ archive # None
       /\ \/ /\ sess[archive.sid] = None /\ id <= MaxRestores
             /\ sess' = [sess EXCEPT ![archive.sid] = Restored(archive, id)]
             /\ rowIds' = [rowIds EXCEPT ![archive.sid] = id]
          \/ sess[archive.sid] # None /\ UNCHANGED <<sess, rowIds>>
       /\ restore' = [restore EXCEPT ![q] = None]
       /\ UNCHANGED <<now, archives, job, failures, ended, touched>>
-----------------------------------------------------------------------------
Tick ==
    /\ now < MaxTime
    /\ now' = now + 1
    /\ UNCHANGED <<sess, rowIds, archives, job, restore, failures, ended, touched>>

JobStep(j) ==
    \/ \E age \in Ages : ListTerminated(j, age)
    \/ \E row \in job[j].todo : CreateArchive(j, row) \/ CreateArchiveFails(j, row)
    \/ DeleteSession(j)
    \/ JobEnds(j)

AdminStep ==
    \/ \E S \in Owners : DeleteArchivesByOwner(S)
    \/ \E r \in Reasons : DeleteArchivesByReason(r)
    \/ \E a \in ArchiveIds, d \in Days : UpdateArchiveRetention(a, d)

Next ==
    \/ \E s \in Sids, r \in Reasons : Terminate(s, r)
    \/ \E j \in Jobs : JobStep(j)
    \/ CleanupExpiredArchives
    \/ AdminStep
    \/ \E q \in Restores : \/ \E a \in ArchiveIds : FindArchive(q, a)
                           \/ CreateSessionFromArchive(q)
    \/ Tick

Spec == Init /\ [][Next]_vars
-----------------------------------------------------------------------------
(* Rows are open or closed, never half of each, and runs and restores hold  *)
(* copies of closed ones.                                                   *)
TypeOK ==
    /\ now \in Nat
    /\ sess \in [Sids -> Open \cup Closed \cup {None}]
    /\ rowIds \in [Sids -> Nat]
    /\ archives \in [ArchiveIds -> ArchiveRow \cup {None}]
    /\ job \in [Jobs -> JobState]
    /\ restore \in [Restores -> ArchiveRow \cup {None}]
    /\ failures \in Nat
    /\ ended \in [Sids -> SUBSET Ended]
    /\ touched \subseteq Sids

(* "Complete audit trail": until its retention has passed, a terminated     *)
(* session is in one table or the other, whatever runs overlap or die, and  *)
(* whatever is restored, unless an admin deleted its archives or changed    *)
(* their retention.  A reason without a retention is never archived.        *)
Outlived(s) ==
    \E e \in ended[s] : /\ e.reason \in DOMAIN Retention
                        /\ now > e.at + Retention[e.reason]

Retained ==
    \A s \in Sids : sess[s] # None \/ ArchivesOf({s}) # {}
                      \/ s \in touched \/ Outlived(s)

(* Once terminated, a session never comes back to life: wherever it is kept, *)
(* and restored from whatever copy, it carries the date and the reason of a  *)
(* termination it has had.                                                  *)
ClosedForGood ==
    \A s \in Sids : ended[s] # {} /\ sess[s] # None =>
        [at |-> sess[s].terminatedAt, reason |-> sess[s].reason] \in ended[s]

(* Overlapping runs archive a session more than once, but each run at most   *)
(* once per row: the copies are bounded by the runs at a time, the rows the  *)
(* session has had and the deletions that failed.                           *)
CopiesBounded ==
    \A s \in Sids : Cardinality(ArchivesOf({s}))
                      <= Cardinality(Jobs) * (rowIds[s] + 1) + failures
=============================================================================
