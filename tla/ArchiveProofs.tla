--------------------------- MODULE ArchiveProofs ---------------------------
(* Proofs about Archive, for every value of its constants. *)
EXTENDS Archive, FiniteSetTheorems, TLAPS

(* What the types of Archive rest on. *)
WellFormed ==
    /\ \A s \in Sids : sess[s] # None => sess[s].sid = s
    /\ \A j \in Jobs : job[j].pc = "delete" => job[j].current \in Closed

TypeInv == TypeOK /\ WellFormed

LEMMA NoneApart == None \notin Nat /\ None \notin Reasons
BY SetsAssumption

(* A terminated row is not an open one. *)
LEMMA ClosedRow ==
    ASSUME NEW row \in Open \cup Closed, row.terminatedAt # None
    PROVE  row \in Closed
BY DEF Open

LEMMA TerminatedRow ==
    ASSUME TypeInv, NEW s \in Sids, NEW r \in Reasons, Terminate(s, r)
    PROVE  /\ sess'[s] \in Closed /\ sess'[s].sid = s
           /\ sess'[s].terminatedAt = now /\ sess'[s].reason = r
           /\ sess[s] # None /\ sess'[s].id = sess[s].id
           /\ sess' \in [Sids -> Open \cup Closed \cup {None}]
           /\ \A t \in Sids : t # s => sess'[t] = sess[t]
<1> DEFINE row == [sess[s] EXCEPT !.terminatedAt = now, !.reason = r]
<1>1. /\ sess[s] # None /\ sess[s] \in Open \cup Closed /\ sess[s].sid = s
      /\ now \in Nat
    BY DEF Terminate, TypeInv, TypeOK, WellFormed
<1>2. /\ row \in Closed /\ row.sid = s /\ row.id = sess[s].id
      /\ row.terminatedAt = now /\ row.reason = r
    BY <1>1 DEF Open, Closed
<1>3. sess' = [sess EXCEPT ![s] = row]
    BY <1>1 DEF Terminate, TypeInv, TypeOK
<1> HIDE DEF row
<1> QED
    BY <1>1, <1>2, <1>3 DEF TypeInv, TypeOK

LEMMA TerminateTypes ==
    ASSUME TypeInv, NEW s \in Sids, NEW r \in Reasons, Terminate(s, r)
    PROVE  TypeInv'
<1>1. [at |-> now, reason |-> r] \in Ended
    BY DEF TypeInv, TypeOK, Ended
<1>2. ended' \in [Sids -> SUBSET Ended]
    BY <1>1 DEF Terminate, TypeInv, TypeOK
<1> QED
    BY <1>2, TerminatedRow DEF Terminate, TypeInv, TypeOK, WellFormed

LEMMA ListTypes ==
    ASSUME TypeInv, NEW j \in Jobs, NEW age \in Ages, ListTerminated(j, age)
    PROVE  TypeInv'
<1>1. {sess[s] : s \in TerminatedLongAgo(age)} \subseteq Closed
    BY ClosedRow DEF TerminatedLongAgo, TypeInv, TypeOK
<1>2. job' \in [Jobs -> JobState]
    BY <1>1 DEF ListTerminated, TypeInv, TypeOK, JobState
<1>3. \A i \in Jobs : job'[i].pc = "delete" => job'[i].current \in Closed
    BY DEF ListTerminated, TypeInv, TypeOK, WellFormed, JobState
<1> QED
    BY <1>2, <1>3 DEF ListTerminated, TypeInv, TypeOK, WellFormed

LEMMA ArchivedType ==
    ASSUME NEW row \in Closed, row.reason \in DOMAIN Retention, now \in Nat
    PROVE  /\ Archived(row) \in ArchiveRow
           /\ Archived(row).sid = row.sid
           /\ Archived(row).terminatedAt = row.terminatedAt
           /\ Archived(row).reason = row.reason
           /\ Archived(row).retentionExpiresAt = now + Retention[row.reason]
BY SetsAssumption DEF Archived, ArchiveRow, Closed

LEMMA CreateTypes ==
    ASSUME TypeInv, NEW j \in Jobs, NEW row \in job[j].todo, CreateArchive(j, row)
    PROVE  TypeInv'
<1>1. job[j] \in JobState /\ row \in Closed /\ job[j].todo \subseteq Closed
    BY DEF TypeInv, TypeOK, JobState
<1>2. Archived(row) \in ArchiveRow
    BY <1>1, ArchivedType DEF CreateArchive, TypeInv, TypeOK
<1>3. archives' \in [ArchiveIds -> ArchiveRow \cup {None}]
    BY <1>2 DEF CreateArchive, TypeInv, TypeOK
<1>4. job' \in [Jobs -> JobState]
    BY <1>1 DEF CreateArchive, TypeInv, TypeOK, JobState
<1>5. \A i \in Jobs : job'[i].pc = "delete" => job'[i].current \in Closed
    BY <1>1 DEF CreateArchive, TypeInv, TypeOK, WellFormed, JobState
<1> QED
    BY <1>3, <1>4, <1>5 DEF CreateArchive, TypeInv, TypeOK, WellFormed

LEMMA SkipTypes ==
    ASSUME TypeInv, NEW j \in Jobs, NEW row \in job[j].todo,
           CreateArchiveFails(j, row)
    PROVE  TypeInv'
<1> DEFINE l == [job[j] EXCEPT !.todo = @ \ {row}]
<1>1. job[j] \in JobState
    BY DEF TypeInv, TypeOK
<1>2. l \in JobState /\ l.pc = job[j].pc /\ l.current = job[j].current
    BY <1>1 DEF JobState
<1>3. job' = [job EXCEPT ![j] = l]
    BY <1>1 DEF CreateArchiveFails, InsertSkipped, TypeInv, TypeOK
<1> HIDE DEF l
<1>4. /\ job' \in [Jobs -> JobState]
      /\ \A i \in Jobs : job'[i] = IF i = j THEN l ELSE job[i]
    BY <1>2, <1>3 DEF TypeInv, TypeOK
<1>5. failures' \in Nat
    BY DEF CreateArchiveFails, TypeInv, TypeOK
<1> QED
    BY <1>2, <1>4, <1>5 DEF CreateArchiveFails, TypeInv, TypeOK, WellFormed

(* The row a deletion meets, and the one it leaves. *)
LEMMA DeletedType ==
    ASSUME TypeInv, NEW row \in Closed
    PROVE  /\ Deleted(row) \in [Sids -> Open \cup Closed \cup {None}]
           /\ \A s \in Sids : \/ Deleted(row)[s] = sess[s]
                              \/ s = row.sid /\ Deleted(row)[s] = None
<1>1. row.sid \in Sids
    BY DEF Closed
<1> QED
    BY <1>1 DEF Deleted, TypeInv, TypeOK

LEMMA DeleteTypes ==
    ASSUME TypeInv, NEW j \in Jobs, DeleteSession(j)
    PROVE  TypeInv'
<1> DEFINE l == [job[j] EXCEPT !.pc = "insert", !.current = None]
<1>1. job[j] \in JobState /\ job[j].current \in Closed
    BY DEF DeleteSession, TypeInv, TypeOK, WellFormed
<1>2. l \in JobState /\ l.pc = "insert"
    BY <1>1 DEF JobState
<1>3. job' = [job EXCEPT ![j] = l]
    BY <1>1 DEF DeleteSession, TypeInv, TypeOK, JobState
<1> HIDE DEF l
<1>4. /\ job' \in [Jobs -> JobState]
      /\ \A i \in Jobs : job'[i] = IF i = j THEN l ELSE job[i]
    BY <1>2, <1>3 DEF TypeInv, TypeOK
<1>5. /\ sess' \in [Sids -> Open \cup Closed \cup {None}]
      /\ \A s \in Sids : sess'[s] = sess[s] \/ sess'[s] = None
    BY <1>1, DeletedType DEF DeleteSession, TypeInv, TypeOK
<1>6. failures' \in Nat
    BY DEF DeleteSession, TypeInv, TypeOK
<1> QED
    BY <1>2, <1>4, <1>5, <1>6 DEF DeleteSession, TypeInv, TypeOK, WellFormed

LEMMA EndTypes ==
    ASSUME TypeInv, NEW j \in Jobs, JobEnds(j)
    PROVE  TypeInv'
<1>1. IdleJob \in JobState /\ IdleJob.pc = "idle"
    BY DEF IdleJob, JobState
<1>2. /\ job' \in [Jobs -> JobState]
      /\ \A i \in Jobs : job'[i] = IF i = j THEN IdleJob ELSE job[i]
    BY <1>1 DEF JobEnds, TypeInv, TypeOK
<1>3. failures' \in Nat
    BY DEF JobEnds, TypeInv, TypeOK
<1> QED
    BY <1>1, <1>2, <1>3 DEF JobEnds, TypeInv, TypeOK, WellFormed

LEMMA WithoutType ==
    ASSUME TypeInv, NEW A
    PROVE  Without(A) \in [ArchiveIds -> ArchiveRow \cup {None}]
BY DEF Without, TypeInv, TypeOK

LEMMA ArchiveTypes ==
    ASSUME TypeInv, CleanupExpiredArchives \/ AdminStep
    PROVE  TypeInv'
<1>1. CASE CleanupExpiredArchives
    BY <1>1, WithoutType DEF CleanupExpiredArchives, TypeInv, TypeOK, WellFormed
<1>2. ASSUME NEW A \in SUBSET Stored, DeleteArchives(A)
      PROVE  TypeInv'
  <2>1. \A a \in A : archives[a].sid \in Sids
    BY DEF Stored, TypeInv, TypeOK, ArchiveRow
  <2> QED
    BY <1>2, <2>1, WithoutType DEF DeleteArchives, TypeInv, TypeOK, WellFormed
<1>3. ASSUME NEW a \in ArchiveIds, NEW d \in Days, UpdateArchiveRetention(a, d)
      PROVE  TypeInv'
  <2> DEFINE row == [archives[a] EXCEPT !.retentionExpiresAt = now + d]
  <2>1. archives[a] \in ArchiveRow /\ now + d \in Nat
    BY <1>3, NumbersAssumption DEF UpdateArchiveRetention, TypeInv, TypeOK
  <2>2. row \in ArchiveRow /\ archives[a].sid \in Sids
    BY <2>1 DEF ArchiveRow
  <2>3. archives' = [archives EXCEPT ![a] = row]
    BY <1>3 DEF UpdateArchiveRetention, TypeInv, TypeOK
  <2> HIDE DEF row
  <2> QED
    BY <1>3, <2>2, <2>3 DEF UpdateArchiveRetention, TypeInv, TypeOK, WellFormed
<1> QED
    BY <1>1, <1>2, <1>3
       DEF AdminStep, DeleteArchivesByOwner, DeleteArchivesByReason, ArchivesOf

LEMMA RestoredType ==
    ASSUME NEW archive \in ArchiveRow, NEW id \in Nat
    PROVE  /\ Restored(archive, id) \in Closed
           /\ Restored(archive, id).sid = archive.sid
           /\ Restored(archive, id).terminatedAt = archive.terminatedAt
           /\ Restored(archive, id).reason = archive.reason
BY DEF Restored, ArchiveRow, Closed

LEMMA RestoreTypes ==
    ASSUME TypeInv, NEW q \in Restores,
           (\E a \in ArchiveIds : FindArchive(q, a)) \/ CreateSessionFromArchive(q)
    PROVE  TypeInv'
<1>1. CASE \E a \in ArchiveIds : FindArchive(q, a)
    BY <1>1 DEF FindArchive, TypeInv, TypeOK, WellFormed
<1>2. CASE CreateSessionFromArchive(q)
  <2> DEFINE archive == restore[q]
             id == rowIds[archive.sid] + 1
  <2>1. archive \in ArchiveRow /\ archive.sid \in Sids
    BY <1>2 DEF CreateSessionFromArchive, TypeInv, TypeOK, ArchiveRow
  <2>2. id \in Nat
    BY <2>1 DEF TypeInv, TypeOK
  <2>3. Restored(archive, id) \in Closed /\ Restored(archive, id).sid = archive.sid
    BY <2>1, <2>2, RestoredType
  <2>4. restore' \in [Restores -> ArchiveRow \cup {None}]
    BY <1>2 DEF CreateSessionFromArchive, TypeInv, TypeOK
  <2>5. /\ sess' \in [Sids -> Open \cup Closed \cup {None}]
        /\ rowIds' \in [Sids -> Nat]
        /\ \A s \in Sids : sess'[s] # None => sess'[s].sid = s
    BY <1>2, <2>1, <2>2, <2>3
       DEF CreateSessionFromArchive, TypeInv, TypeOK, WellFormed
  <2> QED
    BY <1>2, <2>4, <2>5 DEF CreateSessionFromArchive, TypeInv, TypeOK, WellFormed
<1> QED
    BY <1>1, <1>2

LEMMA InitTypes == Init => TypeInv
BY DEF Init, TypeInv, TypeOK, WellFormed, IdleJob, JobState, Open

LEMMA TypeStep == TypeInv /\ [Next]_vars => TypeInv'
<1> SUFFICES ASSUME TypeInv, [Next]_vars PROVE TypeInv'
    OBVIOUS
<1>1. CASE UNCHANGED vars
    BY <1>1 DEF vars, TypeInv, TypeOK, WellFormed
<1>2. CASE Tick
    BY <1>2 DEF Tick, TypeInv, TypeOK, WellFormed
<1>3. ASSUME NEW j \in Jobs, JobStep(j) PROVE TypeInv'
    BY <1>3, ListTypes, CreateTypes, SkipTypes, DeleteTypes, EndTypes DEF JobStep
<1> QED
    BY <1>1, <1>2, <1>3, TerminateTypes, ArchiveTypes, RestoreTypes DEF Next

(* Every variable of the two tables and of the runs keeps its type: a row   *)
(* has a termination date exactly when it has a reason.                     *)
THEOREM TypeCorrect == Spec => []TypeOK
<1>1. TypeInv => TypeOK
    BY DEF TypeInv
<1> QED
    BY <1>1, InitTypes, TypeStep, PTL DEF Spec
-----------------------------------------------------------------------------
(* Why a session that ended stays ended: every copy of it, in a table, in a *)
(* run's list or in a restore's hand, tells of a termination it has had.    *)
Tells(row) == [at |-> row.terminatedAt, reason |-> row.reason] \in ended[row.sid]

CopiesTell ==
    /\ \A s \in Sids : sess[s] \in Closed => Tells(sess[s])
    /\ \A s \in Sids : sess[s] \in Open => ended[s] = {}
    /\ \A s \in Sids : sess[s] = None => ended[s] # {}
    /\ \A a \in Stored : Tells(archives[a])
    /\ \A j \in Jobs : \A row \in job[j].todo : Tells(row)
    /\ \A j \in Jobs : job[j].pc = "delete" => Tells(job[j].current)
    /\ \A q \in Restores : restore[q] # None => Tells(restore[q])

LEMMA EndedStays ==
    ASSUME TypeInv, [Next]_vars, NEW s \in Sids
    PROVE  ended[s] \subseteq ended'[s]
<1>1. CASE UNCHANGED ended
    BY <1>1
<1>2. ASSUME NEW t \in Sids, NEW r \in Reasons, Terminate(t, r)
      PROVE  ended[s] \subseteq ended'[s]
    BY <1>2 DEF Terminate, TypeInv, TypeOK
<1> QED
    BY <1>1, <1>2
       DEF Next, vars, JobStep, AdminStep, ListTerminated, CreateArchive,
           CreateArchiveFails, DeleteSession, JobEnds, CleanupExpiredArchives,
           DeleteArchivesByOwner, DeleteArchivesByReason, DeleteArchives,
           UpdateArchiveRetention, FindArchive, CreateSessionFromArchive, Tick

LEMMA TellsStays ==
    ASSUME TypeInv, CopiesTell, [Next]_vars,
           NEW row \in Closed \cup ArchiveRow, Tells(row)
    PROVE  [at |-> row.terminatedAt, reason |-> row.reason] \in ended'[row.sid]
<1>1. row.sid \in Sids
    BY DEF Closed, ArchiveRow
<1> QED
    BY <1>1, EndedStays DEF Tells

LEMMA SessionsTell ==
    ASSUME TypeInv, CopiesTell, [Next]_vars
    PROVE  /\ \A s \in Sids : sess'[s] \in Closed => Tells(sess[s])'
           /\ \A s \in Sids : sess'[s] \in Open => ended'[s] = {}
           /\ \A s \in Sids : sess'[s] = None => ended'[s] # {}
<1> DEFINE Told(s) == /\ sess'[s] \in Closed => Tells(sess[s])'
                      /\ sess'[s] \in Open => ended'[s] = {}
                      /\ sess'[s] = None => ended'[s] # {}
<1> SUFFICES ASSUME NEW s \in Sids PROVE Told(s)
    OBVIOUS
<1>1. ASSUME sess'[s] = sess[s], ended'[s] = ended[s] PROVE Told(s)
  <2>1. ASSUME sess[s] \in Closed PROVE Tells(sess[s])'
    <3>1. sess[s].sid = s /\ Tells(sess[s])
      BY <2>1, NoneIsNoRow DEF CopiesTell, TypeInv, WellFormed
    <3> QED
      BY <1>1, <3>1 DEF Tells
  <2> QED
    BY <1>1, <2>1 DEF CopiesTell
<1>2. ASSUME NEW t \in Sids, NEW r \in Reasons, Terminate(t, r)
      PROVE  Told(s)
  <2>1. CASE s = t
    <3>1. [at |-> now, reason |-> r] \in ended'[s]
      BY <1>2, <2>1 DEF Terminate, TypeInv, TypeOK
    <3>2. /\ sess'[s] \in Closed /\ sess'[s].sid = s
          /\ sess'[s].terminatedAt = now /\ sess'[s].reason = r
      BY <1>2, <2>1, TerminatedRow
    <3>3. sess'[s] \notin Open
      BY <3>2, NoneApart DEF Open, Closed
    <3>4. sess'[s] # None
      BY <3>2, NoneIsNoRow
    <3>5. Tells(sess[s])'
      BY <3>1, <3>2 DEF Tells
    <3> QED
      BY <3>3, <3>4, <3>5
  <2>2. CASE s # t
    <3>1. sess'[s] = sess[s]
      BY <1>2, <2>2, TerminatedRow
    <3>2. ended'[s] = ended[s]
      BY <1>2, <2>2 DEF Terminate, TypeInv, TypeOK
    <3> QED
      BY <1>1, <3>1, <3>2
  <2> QED
    BY <2>1, <2>2
<1>3. ASSUME NEW j \in Jobs, DeleteSession(j) PROVE Told(s)
  <2>1. job[j].current \in Closed /\ Tells(job[j].current)
    BY <1>3 DEF DeleteSession, CopiesTell, TypeInv, WellFormed
  <2>2. ended' = ended
    BY <1>3 DEF DeleteSession
  <2>3. sess'[s] = sess[s] \/ (s = job[j].current.sid /\ sess'[s] = None)
    BY <1>3, <2>1, DeletedType DEF DeleteSession
  <2> QED
    BY <1>1, <2>1, <2>2, <2>3, NoneIsNoRow DEF Tells
<1>4. ASSUME NEW q \in Restores, CreateSessionFromArchive(q) PROVE Told(s)
  <2> DEFINE archive == restore[q]
             row == Restored(archive, rowIds[archive.sid] + 1)
  <2>1. archive \in ArchiveRow /\ archive.sid \in Sids /\ Tells(archive)
    BY <1>4 DEF CreateSessionFromArchive, CopiesTell, TypeInv, TypeOK, ArchiveRow
  <2>2. rowIds[archive.sid] + 1 \in Nat
    BY <2>1 DEF TypeInv, TypeOK
  <2>3. /\ row \in Closed /\ row.sid = archive.sid
        /\ row.terminatedAt = archive.terminatedAt /\ row.reason = archive.reason
    BY <2>1, <2>2, RestoredType
  <2>4. ended' = ended
    BY <1>4 DEF CreateSessionFromArchive
  <2>5. sess'[s] = sess[s] \/ (s = archive.sid /\ sess'[s] = row)
    BY <1>4, <2>1 DEF CreateSessionFromArchive, TypeInv, TypeOK
  <2>6. row \notin Open /\ row # None
    BY <2>3, NoneApart, NoneIsNoRow DEF Open, Closed
  <2> HIDE DEF row
  <2> QED
    BY <1>1, <2>1, <2>3, <2>4, <2>5, <2>6 DEF Tells
<1>5. CASE UNCHANGED <<sess, ended>>
    BY <1>1, <1>5
<1> QED
    BY <1>2, <1>3, <1>4, <1>5
       DEF Next, vars, JobStep, AdminStep, ListTerminated, CreateArchive,
           CreateArchiveFails, JobEnds, CleanupExpiredArchives,
           DeleteArchivesByOwner, DeleteArchivesByReason, DeleteArchives,
           UpdateArchiveRetention, FindArchive, Tick

LEMMA ArchivesTell ==
    ASSUME TypeInv, CopiesTell, [Next]_vars
    PROVE  (\A a \in Stored : Tells(archives[a]))'
<1> SUFFICES ASSUME NEW a \in ArchiveIds, archives'[a] # None
             PROVE  Tells(archives[a])'
    BY DEF Stored
<1>1. ASSUME NEW row \in Closed \cup ArchiveRow, Tells(row),
             archives'[a].sid = row.sid,
             archives'[a].terminatedAt = row.terminatedAt,
             archives'[a].reason = row.reason
      PROVE  Tells(archives[a])'
    BY <1>1, TellsStays DEF Tells
<1>2. CASE archives'[a] = archives[a]
    BY <1>1, <1>2 DEF CopiesTell, Stored, TypeInv, TypeOK
<1>3. ASSUME NEW j \in Jobs, NEW row \in job[j].todo, CreateArchive(j, row)
      PROVE  Tells(archives[a])'
  <2>1. row \in Closed /\ Tells(row) /\ row.reason \in DOMAIN Retention
    BY <1>3 DEF CreateArchive, CopiesTell, TypeInv, TypeOK, JobState
  <2>2. archives'[a] = archives[a] \/ archives'[a] = Archived(row)
    BY <1>3 DEF CreateArchive, TypeInv, TypeOK
  <2> QED
    BY <1>1, <1>2, <2>1, <2>2, ArchivedType DEF TypeInv, TypeOK
<1>4. ASSUME NEW b \in ArchiveIds, NEW d \in Days, UpdateArchiveRetention(b, d)
      PROVE  Tells(archives[a])'
  <2> DEFINE row == [archives[b] EXCEPT !.retentionExpiresAt = now + d]
  <2>1. archives[b] \in ArchiveRow /\ Tells(archives[b])
    BY <1>4 DEF UpdateArchiveRetention, CopiesTell, Stored, TypeInv, TypeOK
  <2>2. /\ row.sid = archives[b].sid /\ row.reason = archives[b].reason
        /\ row.terminatedAt = archives[b].terminatedAt
    BY <2>1 DEF ArchiveRow
  <2>3. archives'[a] = archives[a] \/ archives'[a] = row
    BY <1>4 DEF UpdateArchiveRetention, TypeInv, TypeOK
  <2> HIDE DEF row
  <2> QED
    BY <1>1, <1>2, <2>1, <2>2, <2>3
<1>5. CASE CleanupExpiredArchives \/ \E A \in SUBSET Stored : DeleteArchives(A)
    BY <1>2, <1>5 DEF CleanupExpiredArchives, DeleteArchives, Without
<1> QED
    BY <1>2, <1>3, <1>4, <1>5
       DEF Next, vars, JobStep, AdminStep, Terminate, ListTerminated,
           CreateArchiveFails, DeleteSession, JobEnds,
           DeleteArchivesByOwner, DeleteArchivesByReason, ArchivesOf,
           FindArchive, CreateSessionFromArchive, Tick

(* What a run holds comes from its list, and its list from the table. *)
LEMMA JobRows ==
    ASSUME TypeInv, [Next]_vars, NEW j \in Jobs
    PROVE  /\ \A row \in job'[j].todo : \/ row \in job[j].todo
                                        \/ \E s \in Sids : /\ row = sess[s] /\ row \in Closed
                                                          /\ row.terminatedAt < now
           /\ job'[j].pc = "delete" =>
                 \/ job[j].pc = "delete" /\ job'[j].current = job[j].current
                 \/ job'[j].current \in job[j].todo
<1>1. CASE job'[j] = job[j]
    BY <1>1
<1>2. ASSUME NEW i \in Jobs, NEW age \in Ages, ListTerminated(i, age), i = j
      PROVE  /\ \A row \in job'[j].todo :
                    \E s \in Sids : /\ row = sess[s] /\ row \in Closed
                                   /\ row.terminatedAt < now
             /\ job'[j].pc = "insert"
  <2>1. /\ job'[j].todo = {sess[s] : s \in TerminatedLongAgo(age)}
        /\ job'[j].pc = "insert"
    BY <1>2 DEF ListTerminated, TypeInv, TypeOK
  <2>2. ASSUME NEW s \in TerminatedLongAgo(age)
        PROVE  s \in Sids /\ sess[s] \in Closed /\ sess[s].terminatedAt < now
    <3>1. /\ s \in Sids /\ sess[s] \in Closed
          /\ sess[s].terminatedAt + age < now
      BY ClosedRow DEF TerminatedLongAgo, TypeInv, TypeOK
    <3>2. sess[s].terminatedAt \in Nat /\ age \in Nat /\ now \in Nat
      BY <3>1, NumbersAssumption DEF Closed, TypeInv, TypeOK
    <3> QED
      BY <3>1, <3>2
  <2> QED
    BY <2>1, <2>2
<1>3. ASSUME NEW i \in Jobs, NEW row \in job[i].todo, CreateArchive(i, row), i = j
      PROVE  job'[j].todo \subseteq job[j].todo /\ job'[j].current \in job[j].todo
    BY <1>3 DEF CreateArchive, TypeInv, TypeOK
<1>4. ASSUME NEW i \in Jobs, NEW row \in job[i].todo, CreateArchiveFails(i, row), i = j
      PROVE  job'[j].todo \subseteq job[j].todo /\ job'[j].pc = "insert"
    BY <1>4 DEF CreateArchiveFails, InsertSkipped, TypeInv, TypeOK, JobState
<1>5. ASSUME NEW i \in Jobs, DeleteSession(i), i = j
      PROVE  job'[j].todo = job[j].todo /\ job'[j].pc = "insert"
    BY <1>5 DEF DeleteSession, TypeInv, TypeOK, JobState
<1>6. ASSUME NEW i \in Jobs, JobEnds(i), i = j
      PROVE  job'[j].todo = {} /\ job'[j].pc = "idle"
    BY <1>6 DEF JobEnds, IdleJob, TypeInv, TypeOK
<1>7. CASE UNCHANGED job
    BY <1>1, <1>7
<1>8. ASSUME NEW i \in Jobs, JobStep(i), i # j PROVE job'[j] = job[j]
    BY <1>8 DEF JobStep, ListTerminated, CreateArchive, CreateArchiveFails,
                InsertSkipped, DeleteSession, JobEnds, TypeInv, TypeOK
<1>9. CASE \E i \in Jobs : JobStep(i)
    BY <1>1, <1>2, <1>3, <1>4, <1>5, <1>6, <1>8, <1>9 DEF JobStep
<1> QED
    BY <1>7, <1>9
       DEF Next, vars, AdminStep, Terminate, CleanupExpiredArchives,
           DeleteArchivesByOwner, DeleteArchivesByReason, DeleteArchives,
           UpdateArchiveRetention, FindArchive, CreateSessionFromArchive, Tick

LEMMA RunsTell ==
    ASSUME TypeInv, CopiesTell, [Next]_vars
    PROVE  /\ (\A j \in Jobs : \A row \in job[j].todo : Tells(row))'
           /\ (\A j \in Jobs : job[j].pc = "delete" => Tells(job[j].current))'
           /\ (\A q \in Restores : restore[q] # None => Tells(restore[q]))'
<1>1. ASSUME NEW j \in Jobs, NEW row \in job'[j].todo
      PROVE  row \in Closed /\ Tells(row) /\ Tells(row)'
  <2>1. row \in Closed /\ Tells(row)
    BY JobRows DEF CopiesTell, TypeInv, TypeOK, JobState
  <2> QED
    BY <2>1, TellsStays DEF Tells
<1>2. ASSUME NEW j \in Jobs, job'[j].pc = "delete"
      PROVE  Tells(job[j].current)'
  <2>1. PICK row \in Closed : row = job'[j].current /\ Tells(row)
    BY <1>2, JobRows DEF CopiesTell, TypeInv, TypeOK, WellFormed, JobState
  <2> QED
    BY <2>1, TellsStays DEF Tells
<1>3. ASSUME NEW q \in Restores, restore'[q] # None
      PROVE  Tells(restore[q])'
  <2>1. restore'[q] = restore[q] \/ \E a \in Stored : restore'[q] = archives[a]
    <3>1. CASE UNCHANGED restore
      BY <3>1
    <3>2. ASSUME NEW p \in Restores, NEW a \in ArchiveIds, FindArchive(p, a)
          PROVE  restore'[q] = restore[q] \/ \E b \in Stored : restore'[q] = archives[b]
      BY <3>2 DEF FindArchive, Stored, TypeInv, TypeOK
    <3>3. ASSUME NEW p \in Restores, CreateSessionFromArchive(p)
          PROVE  restore'[q] = restore[q]
      BY <1>3, <3>3 DEF CreateSessionFromArchive, TypeInv, TypeOK
    <3> QED
      BY <3>1, <3>2, <3>3
         DEF Next, vars, JobStep, AdminStep, Terminate, ListTerminated,
             CreateArchive, CreateArchiveFails, DeleteSession, JobEnds,
             CleanupExpiredArchives, DeleteArchivesByOwner,
             DeleteArchivesByReason, DeleteArchives, UpdateArchiveRetention, Tick
  <2>2. PICK row \in ArchiveRow : row = restore'[q] /\ Tells(row)
    BY <1>3, <2>1 DEF CopiesTell, Stored, TypeInv, TypeOK
  <2> QED
    BY <2>2, TellsStays DEF Tells
<1> QED
    BY <1>1, <1>2, <1>3

LEMMA TellsStep == TypeInv /\ CopiesTell /\ [Next]_vars => CopiesTell'
<1> SUFFICES ASSUME TypeInv, CopiesTell, [Next]_vars PROVE CopiesTell'
    OBVIOUS
<1> QED
    BY SessionsTell, ArchivesTell, RunsTell DEF CopiesTell

LEMMA InitTells == Init => CopiesTell
BY NoneApart, NoneIsNoRow
   DEF Init, CopiesTell, Stored, IdleJob, Open, Closed

(* A session that ended never comes back to life, and keeps the date and    *)
(* the reason of a termination through archives and restores.               *)
THEOREM StaysClosed == Spec => []ClosedForGood
<1>1. Init => TypeInv /\ CopiesTell
    BY InitTypes, InitTells
<1>2. TypeInv /\ CopiesTell /\ [Next]_vars => (TypeInv /\ CopiesTell)'
    BY TypeStep, TellsStep
<1>3. TypeInv /\ CopiesTell => ClosedForGood
  <2> SUFFICES ASSUME TypeInv, CopiesTell, NEW s \in Sids,
                      ended[s] # {}, sess[s] # None
               PROVE  [at |-> sess[s].terminatedAt, reason |-> sess[s].reason] \in ended[s]
    BY DEF ClosedForGood
  <2>1. sess[s] \in Closed /\ sess[s].sid = s
    BY DEF CopiesTell, TypeInv, TypeOK, WellFormed
  <2> QED
    BY <2>1 DEF CopiesTell, Tells
<1> QED
    BY <1>1, <1>2, <1>3, PTL DEF Spec
-----------------------------------------------------------------------------
(* Why nothing is lost.  A run deletes a row only after it has written an   *)
(* archive, and an archive leaves only when it has outlived its retention   *)
(* or by an admin's hand: a session without a row is kept in that sense.    *)
Kept(s) == ArchivesOf({s}) # {} \/ s \in touched \/ Outlived(s)

(* An archive is kept for its reason's retention, counted from its writing, *)
(* and it is written after the session has been terminated.                 *)
KeptLong(archive) ==
    archive.terminatedAt + Retention[archive.reason] <= archive.retentionExpiresAt

KeptInv ==
    /\ Retained
    /\ \A j \in Jobs : job[j].pc = "delete" => Kept(job[j].current.sid)
    /\ \A j \in Jobs : \A row \in job[j].todo : row.terminatedAt < now
    /\ \A a \in Stored :
          /\ archives[a].reason \in DOMAIN Retention
          /\ archives[a].sid \in touched \/ KeptLong(archives[a])

LEMMA InitKept == Init => KeptInv
BY NoneIsNoRow DEF Init, KeptInv, Retained, Stored, IdleJob, Open

LEMMA Monotone ==
    ASSUME TypeInv, [Next]_vars
    PROVE  now <= now' /\ touched \subseteq touched'
<1>1. now \in Nat
    BY DEF TypeInv, TypeOK
<1>2. now <= now'
  <2>1. CASE Tick
    BY <1>1, <2>1 DEF Tick
  <2>2. CASE now' = now
    BY <1>1, <2>2
  <2>3. Tick \/ now' = now
    BY DEF Next, vars, JobStep, AdminStep, Terminate, ListTerminated, CreateArchive,
           CreateArchiveFails, DeleteSession, JobEnds, CleanupExpiredArchives,
           DeleteArchivesByOwner, DeleteArchivesByReason, DeleteArchives,
           UpdateArchiveRetention, FindArchive, CreateSessionFromArchive
  <2> QED
    BY <2>1, <2>2, <2>3
<1>3. touched \subseteq touched'
  <2>1. CASE AdminStep
    BY <2>1 DEF AdminStep, DeleteArchivesByOwner, DeleteArchivesByReason,
                DeleteArchives, UpdateArchiveRetention
  <2>2. AdminStep \/ touched' = touched
    BY DEF Next, vars, JobStep, Terminate, ListTerminated, CreateArchive,
           CreateArchiveFails, DeleteSession, JobEnds, CleanupExpiredArchives,
           FindArchive, CreateSessionFromArchive, Tick
  <2> QED
    BY <2>1, <2>2
<1> QED
    BY <1>2, <1>3

(* How an archive leaves the table. *)
LEMMA ArchiveStays ==
    ASSUME TypeInv, CopiesTell, KeptInv, [Next]_vars, NEW a \in Stored
    PROVE  \/ a \in Stored' /\ archives'[a].sid = archives[a].sid
           \/ archives[a].sid \in touched'
           \/ Outlived(archives[a].sid)
<1>1. a \in ArchiveIds /\ archives[a] \in ArchiveRow
    BY DEF Stored, TypeInv, TypeOK
<1>2. CASE archives'[a] = archives[a]
    BY <1>1, <1>2 DEF Stored
<1>3. ASSUME NEW j \in Jobs, NEW row \in job[j].todo, CreateArchive(j, row)
      PROVE  archives'[a] = archives[a]
    BY <1>1, <1>3 DEF CreateArchive, TypeInv, TypeOK
<1>4. CASE CleanupExpiredArchives
  <2>1. CASE a \notin Expired
    BY <1>1, <1>2, <1>4, <2>1 DEF CleanupExpiredArchives, Without
  <2>2. CASE a \in Expired
    <3>1. archives[a].retentionExpiresAt < now
      BY <2>2 DEF Expired
    <3>2. /\ Tells(archives[a]) /\ archives[a].reason \in DOMAIN Retention
          /\ archives[a].sid \in touched \/ KeptLong(archives[a])
      BY DEF CopiesTell, KeptInv
    <3>3. /\ archives[a].terminatedAt \in Nat /\ now \in Nat
          /\ archives[a].retentionExpiresAt \in Nat
           /\ Retention[archives[a].reason] \in Nat
      BY <1>1, <3>2, NumbersAssumption, SetsAssumption
         DEF ArchiveRow, TypeInv, TypeOK
    <3> QED
      BY <3>1, <3>2, <3>3, Monotone DEF Outlived, Tells, KeptLong
  <2> QED
    BY <2>1, <2>2
<1>5. ASSUME NEW A \in SUBSET Stored, DeleteArchives(A)
      PROVE  archives'[a] = archives[a] \/ archives[a].sid \in touched'
    BY <1>1, <1>5 DEF DeleteArchives, Without
<1>6. ASSUME NEW b \in ArchiveIds, NEW d \in Days, UpdateArchiveRetention(b, d)
      PROVE  archives'[a] = archives[a] \/ archives[a].sid \in touched'
    BY <1>1, <1>6 DEF UpdateArchiveRetention, TypeInv, TypeOK
<1> QED
    BY <1>2, <1>3, <1>4, <1>5, <1>6
       DEF Next, vars, JobStep, AdminStep, Terminate, ListTerminated,
           CreateArchiveFails, DeleteSession, JobEnds,
           DeleteArchivesByOwner, DeleteArchivesByReason, ArchivesOf,
           FindArchive, CreateSessionFromArchive, Tick

LEMMA KeptStays ==
    ASSUME TypeInv, CopiesTell, KeptInv, [Next]_vars,
           NEW s \in Sids, Kept(s)
    PROVE  Kept(s)'
<1>1. ended[s] \subseteq ended'[s] /\ ended[s] \subseteq Ended
    BY EndedStays DEF TypeInv, TypeOK
<1>2. Outlived(s) => Outlived(s)'
  <2>1. now \in Nat /\ now' \in Nat /\ now <= now'
    BY TypeStep, Monotone DEF TypeInv, TypeOK
  <2>2. ASSUME NEW e \in ended[s], e.reason \in DOMAIN Retention,
               now > e.at + Retention[e.reason]
        PROVE  now' > e.at + Retention[e.reason]
    BY <1>1, <2>1, <2>2, NumbersAssumption, SetsAssumption DEF Ended
  <2> QED
    BY <1>1, <2>2 DEF Outlived
<1>3. s \in touched => s \in touched'
    BY Monotone
<1>4. ASSUME NEW a \in Stored, archives[a].sid = s PROVE Kept(s)'
  <2>1. \/ a \in Stored' /\ archives'[a].sid = s
        \/ s \in touched' \/ Outlived(s)
    BY <1>4, ArchiveStays
  <2> QED
    BY <1>2, <2>1 DEF Kept, ArchivesOf
<1> QED
    BY <1>2, <1>3, <1>4 DEF Kept, ArchivesOf

(* A run that is to delete a row has just archived it. *)
LEMMA RunsKeep ==
    ASSUME TypeInv, TypeInv', CopiesTell, KeptInv, [Next]_vars, NEW j \in Jobs,
           job'[j].pc = "delete"
    PROVE  Kept(job[j].current.sid)'
<1>1. ASSUME job[j].pc = "delete", job'[j].current = job[j].current
      PROVE  Kept(job[j].current.sid)'
  <2>1. PICK s \in Sids : s = job[j].current.sid
    BY <1>1 DEF TypeInv, WellFormed, Closed
  <2>2. Kept(s)
    BY <1>1, <2>1 DEF KeptInv
  <2>3. Kept(s)'
    BY <2>1, <2>2, KeptStays
  <2> QED
    BY <1>1, <2>1, <2>3 DEF Kept, ArchivesOf, Outlived
<1>2. ASSUME NEW row \in job[j].todo, CreateArchive(j, row)
      PROVE  Kept(job[j].current.sid)'
  <2>1. row \in Closed /\ row.reason \in DOMAIN Retention /\ now \in Nat
    BY <1>2 DEF CreateArchive, TypeInv, TypeOK, JobState
  <2>2. PICK a \in ArchiveIds : archives' = [archives EXCEPT ![a] = Archived(row)]
    BY <1>2 DEF CreateArchive, Stored
  <2>3. Archived(row) \in ArchiveRow /\ Archived(row).sid = row.sid
    BY <2>1, ArchivedType
  <2>4. archives'[a] # None /\ archives'[a].sid = row.sid
    BY <2>2, <2>3, NoneIsNoRow DEF TypeInv, TypeOK
  <2>5. job'[j].current = row
    BY <1>2 DEF CreateArchive, TypeInv, TypeOK
  <2> QED
    BY <2>4, <2>5 DEF Kept, ArchivesOf, Stored
<1>3. CASE job'[j] = job[j]
    BY <1>1, <1>3
<1>4. CASE UNCHANGED job
    BY <1>3, <1>4
<1>5. ASSUME NEW i \in Jobs, JobStep(i), i # j PROVE job'[j] = job[j]
    BY <1>5 DEF JobStep, ListTerminated, CreateArchive, CreateArchiveFails,
                InsertSkipped, DeleteSession, JobEnds, TypeInv, TypeOK
<1>6. CASE JobStep(j)
  <2>1. (\A age \in Ages : ~ListTerminated(j, age)) /\ ~DeleteSession(j) /\ ~JobEnds(j)
    BY DEF ListTerminated, DeleteSession, JobEnds, IdleJob, TypeInv, TypeOK, JobState
  <2>2. \A row \in job[j].todo : ~CreateArchiveFails(j, row)
    BY DEF CreateArchiveFails, InsertSkipped, TypeInv, TypeOK, JobState
  <2> QED
    BY <1>2, <1>6, <2>1, <2>2 DEF JobStep
<1> QED
    BY <1>3, <1>4, <1>5, <1>6
       DEF Next, vars, AdminStep, Terminate, CleanupExpiredArchives,
           DeleteArchivesByOwner, DeleteArchivesByReason, DeleteArchives,
           UpdateArchiveRetention, FindArchive, CreateSessionFromArchive, Tick

LEMMA RowsKeep ==
    ASSUME TypeInv, CopiesTell, KeptInv, [Next]_vars
    PROVE  Retained'
<1> SUFFICES ASSUME NEW s \in Sids, sess'[s] = None PROVE Kept(s)'
    BY DEF Retained, Kept
<1>1. CASE sess[s] = None
  <2>1. Kept(s)
    BY <1>1 DEF KeptInv, Retained, Kept
  <2> QED
    BY <2>1, KeptStays
<1>2. ASSUME NEW j \in Jobs, DeleteSession(j) PROVE Kept(s)'
  <2>1. CASE sess'[s] = sess[s]
    BY <1>1, <2>1
  <2>2. CASE s = job[j].current.sid
    <3>1. Kept(s)
      BY <1>2, <2>2 DEF DeleteSession, KeptInv
    <3> QED
      BY <3>1, KeptStays
  <2> QED
    BY <1>2, <2>1, <2>2, DeletedType DEF DeleteSession, TypeInv, WellFormed
<1>3. ASSUME NEW t \in Sids, NEW r \in Reasons, Terminate(t, r) PROVE Kept(s)'
    BY <1>1, <1>3, TerminatedRow, NoneIsNoRow
<1>4. ASSUME NEW q \in Restores, CreateSessionFromArchive(q) PROVE Kept(s)'
  <2> DEFINE archive == restore[q]
  <2>1. archive \in ArchiveRow /\ archive.sid \in Sids
    BY <1>4 DEF CreateSessionFromArchive, TypeInv, TypeOK, ArchiveRow
  <2>2. rowIds[archive.sid] + 1 \in Nat
    BY <2>1 DEF TypeInv, TypeOK
  <2>3. Restored(archive, rowIds[archive.sid] + 1) \in Closed
    BY <2>1, <2>2, RestoredType
  <2>4. sess[s] = None
    BY <1>4, <2>3, NoneIsNoRow DEF CreateSessionFromArchive, TypeInv, TypeOK
  <2> QED
    BY <1>1, <2>4
<1>5. CASE UNCHANGED sess
    BY <1>1, <1>5
<1> QED
    BY <1>2, <1>3, <1>4, <1>5
       DEF Next, vars, JobStep, AdminStep, ListTerminated, CreateArchive,
           CreateArchiveFails, JobEnds, CleanupExpiredArchives,
           DeleteArchivesByOwner, DeleteArchivesByReason, DeleteArchives,
           UpdateArchiveRetention, FindArchive, Tick

(* The rows a run has still to archive were terminated long ago. *)
LEMMA ListsAge ==
    ASSUME TypeInv, TypeInv', KeptInv, [Next]_vars, NEW j \in Jobs, NEW row \in job'[j].todo
    PROVE  row.terminatedAt < now'
<1>1. row.terminatedAt < now
    BY JobRows DEF KeptInv
<1>2. row \in Closed
    BY DEF TypeInv, TypeOK, JobState
<1>3. row.terminatedAt \in Nat /\ now \in Nat /\ now' \in Nat
    BY <1>2, NumbersAssumption DEF Closed, TypeInv, TypeOK
<1> QED
    BY <1>1, <1>3, Monotone

LEMMA ArchivesAge ==
    ASSUME TypeInv, TypeInv', KeptInv, [Next]_vars, NEW a \in Stored'
    PROVE  /\ archives'[a].reason \in DOMAIN Retention
           /\ archives'[a].sid \in touched' \/ KeptLong(archives'[a])
<1>1. a \in ArchiveIds /\ archives'[a] # None
    BY DEF Stored
<1>2. CASE archives'[a] = archives[a]
  <2>1. a \in Stored
    BY <1>1, <1>2 DEF Stored
  <2> QED
    BY <1>2, <2>1, Monotone DEF KeptInv, KeptLong
<1>3. ASSUME NEW j \in Jobs, NEW row \in job[j].todo, CreateArchive(j, row)
      PROVE  /\ archives'[a].reason \in DOMAIN Retention
             /\ archives'[a].sid \in touched' \/ KeptLong(archives'[a])
  <2>1. row \in Closed /\ row.reason \in DOMAIN Retention
    BY <1>3 DEF CreateArchive, TypeInv, TypeOK, JobState
  <2>2. row.terminatedAt < now
    BY DEF KeptInv
  <2>3. /\ row.terminatedAt \in Nat /\ now \in Nat
        /\ Retention[row.reason] \in Nat
    BY <2>1, NumbersAssumption, SetsAssumption DEF Closed, TypeInv, TypeOK
  <2>4. Archived(row).reason \in DOMAIN Retention /\ KeptLong(Archived(row))
    BY <2>1, <2>2, <2>3 DEF Archived, KeptLong
  <2>5. archives'[a] = archives[a] \/ archives'[a] = Archived(row)
    BY <1>1, <1>3 DEF CreateArchive, TypeInv, TypeOK
  <2> QED
    BY <1>2, <2>4, <2>5
<1>4. ASSUME NEW b \in ArchiveIds, NEW d \in Days, UpdateArchiveRetention(b, d)
      PROVE  /\ archives'[a].reason \in DOMAIN Retention
             /\ archives'[a].sid \in touched' \/ KeptLong(archives'[a])
  <2> DEFINE row == [archives[b] EXCEPT !.retentionExpiresAt = now + d]
  <2>1. b \in Stored /\ archives[b] \in ArchiveRow
    BY <1>4 DEF UpdateArchiveRetention, Stored, TypeInv, TypeOK
  <2>2. row.sid = archives[b].sid /\ row.reason = archives[b].reason
    BY <2>1 DEF ArchiveRow
  <2>3. archives[b].reason \in DOMAIN Retention /\ archives[b].sid \in touched'
    BY <1>4, <2>1 DEF UpdateArchiveRetention, KeptInv
  <2>4. archives'[a] = archives[a] \/ archives'[a] = row
    BY <1>1, <1>4 DEF UpdateArchiveRetention, TypeInv, TypeOK
  <2> HIDE DEF row
  <2> QED
    BY <1>2, <2>2, <2>3, <2>4
<1>5. CASE CleanupExpiredArchives \/ \E A \in SUBSET Stored : DeleteArchives(A)
    BY <1>1, <1>2, <1>5 DEF CleanupExpiredArchives, DeleteArchives, Without
<1> QED
    BY <1>2, <1>3, <1>4, <1>5
       DEF Next, vars, JobStep, AdminStep, Terminate, ListTerminated,
           CreateArchiveFails, DeleteSession, JobEnds,
           DeleteArchivesByOwner, DeleteArchivesByReason, ArchivesOf,
           FindArchive, CreateSessionFromArchive, Tick

LEMMA KeptStep == TypeInv /\ CopiesTell /\ KeptInv /\ [Next]_vars => KeptInv'
<1> SUFFICES ASSUME TypeInv, CopiesTell, KeptInv, [Next]_vars PROVE KeptInv'
    OBVIOUS
<1>1. TypeInv'
    BY TypeStep
<1> QED
    BY <1>1, RowsKeep, RunsKeep, ListsAge, ArchivesAge DEF KeptInv

(* The audit trail is complete: until its retention has passed, a           *)
(* terminated session is in the table or in the archive, unless an admin    *)
(* deleted or changed its archives.                                         *)
THEOREM NothingLost == Spec => []Retained
<1>1. Init => TypeInv /\ CopiesTell /\ KeptInv
    BY InitTypes, InitTells, InitKept
<1>2. TypeInv /\ CopiesTell /\ KeptInv /\ [Next]_vars
         => (TypeInv /\ CopiesTell /\ KeptInv)'
    BY TypeStep, TellsStep, KeptStep
<1>3. KeptInv => Retained
    BY DEF KeptInv
<1> QED
    BY <1>1, <1>2, <1>3, PTL DEF Spec
-----------------------------------------------------------------------------
(* Why copies do not multiply.  A run archives each row it has listed once,  *)
(* and while a row is in the table each run can archive it once more, except *)
(* those that are about to delete it; a failed deletion gives a run another  *)
(* turn.  The copies made and those still to come are counted together.      *)
Live(row) == sess[row.sid] # None /\ sess[row.sid].id = row.id

(* Runs that hold a row that is gone, and may archive it yet. *)
Stale(s) ==
    {j \in Jobs : \E row \in job[j].todo : row.sid = s /\ ~Live(row)}

Deleting(s) ==
    {j \in Jobs : /\ job[j].pc = "delete" /\ job[j].current.sid = s
                  /\ Live(job[j].current)}

(* Runs that may archive the row in the table. *)
Free(s) == IF sess[s] = None THEN {} ELSE Jobs \ Deleting(s)

Allowed(s) == Cardinality(Jobs) * (rowIds[s] + 1) + failures

Room(s) ==
    Cardinality(ArchivesOf({s})) + Cardinality(Stale(s)) + Cardinality(Free(s))
        <= Allowed(s)

(* A run lists a session once, and has no second row of the one it deletes. *)
ListedOnce ==
    /\ \A j \in Jobs : \A r1, r2 \in job[j].todo : r1.sid = r2.sid => r1 = r2
    /\ \A j \in Jobs : job[j].pc = "delete" =>
          \A row \in job[j].todo : row.sid # job[j].current.sid

(* A restored row has a primary key no copy of an earlier row has. *)
KeysReached ==
    /\ \A s \in Sids : sess[s] # None => sess[s].id <= rowIds[s]
    /\ \A j \in Jobs : \A row \in job[j].todo : row.id <= rowIds[row.sid]
    /\ \A j \in Jobs : job[j].pc = "delete" =>
          job[j].current.id <= rowIds[job[j].current.sid]

CountInv == ListedOnce /\ KeysReached /\ \A s \in Sids : Room(s)

LEMMA Sizes ==
    /\ \A A \in SUBSET ArchiveIds : IsFiniteSet(A) /\ Cardinality(A) \in Nat
    /\ \A J \in SUBSET Jobs : /\ IsFiniteSet(J) /\ Cardinality(J) \in Nat
                              /\ Cardinality(J) <= Cardinality(Jobs)
BY FiniteAssumption, FS_Subset, FS_CardinalityType

LEMMA OneMore ==
    ASSUME NEW A, NEW B, NEW x, IsFiniteSet(A), B \subseteq A \cup {x}
    PROVE  Cardinality(B) <= Cardinality(A) + 1
<1>1. Cardinality(A) \in Nat
    BY FS_CardinalityType
<1>2. /\ IsFiniteSet(A \cup {x})
      /\ Cardinality(A \cup {x})
            = IF x \in A THEN Cardinality(A) ELSE Cardinality(A) + 1
    BY FS_AddElement
<1>3. Cardinality(B) \in Nat /\ Cardinality(B) <= Cardinality(A \cup {x})
    BY <1>2, FS_Subset, FS_CardinalityType
<1> QED
    BY <1>1, <1>2, <1>3

LEMMA OneLess ==
    ASSUME NEW A, NEW B, NEW x \in A, IsFiniteSet(A), B \subseteq A \ {x}
    PROVE  Cardinality(B) + 1 <= Cardinality(A)
<1>1. IsFiniteSet(A \ {x}) /\ Cardinality(A \ {x}) = Cardinality(A) - 1
    BY FS_RemoveElement
<1> QED
    BY <1>1, FS_Subset, FS_CardinalityType

(* The ways in which a step may change what is counted of a session: the    *)
(* copies (A), the runs with a stale row (H), the free runs (F), and what   *)
(* is allowed (n).                                                          *)
Change(A, A2, H, H2, F, F2, n, m) ==
    \/ A2 \subseteq A /\ H2 \subseteq H /\ F2 \subseteq F /\ n <= m
    \/ /\ \E a \in ArchiveIds : A2 \subseteq A \cup {a}
       /\ H2 \subseteq H /\ (\E j \in F : F2 \subseteq F \ {j}) /\ n <= m
    \/ /\ \E a \in ArchiveIds : A2 \subseteq A \cup {a}
       /\ F2 \subseteq F /\ (\E j \in H : H2 \subseteq H \ {j}) /\ n <= m
    \/ A2 \subseteq A /\ H2 \subseteq H \cup F /\ F2 = {} /\ n <= m
    \/ /\ A2 \subseteq A /\ H2 \subseteq H /\ n + 1 <= m
       /\ \E j \in Jobs : F2 \subseteq F \cup {j}
    \/ A2 \subseteq A /\ H2 \subseteq H /\ F = {} /\ n + Cardinality(Jobs) <= m

LEMMA Counted ==
    ASSUME NEW A \in SUBSET ArchiveIds, NEW A2 \in SUBSET ArchiveIds,
           NEW H \in SUBSET Jobs, NEW H2 \in SUBSET Jobs,
           NEW F \in SUBSET Jobs, NEW F2 \in SUBSET Jobs,
           NEW n \in Nat, NEW m \in Nat,
           Cardinality(A) + Cardinality(H) + Cardinality(F) <= n,
           Change(A, A2, H, H2, F, F2, n, m)
    PROVE  Cardinality(A2) + Cardinality(H2) + Cardinality(F2) <= m
<1>1. /\ IsFiniteSet(A) /\ IsFiniteSet(H) /\ IsFiniteSet(F)
      /\ Cardinality(A) \in Nat /\ Cardinality(H) \in Nat /\ Cardinality(F) \in Nat
      /\ Cardinality(A2) \in Nat /\ Cardinality(H2) \in Nat /\ Cardinality(F2) \in Nat
      /\ Cardinality(F2) <= Cardinality(Jobs) /\ Cardinality(Jobs) \in Nat
    BY Sizes
<1>2. /\ A2 \subseteq A => Cardinality(A2) <= Cardinality(A)
      /\ H2 \subseteq H => Cardinality(H2) <= Cardinality(H)
      /\ F2 \subseteq F => Cardinality(F2) <= Cardinality(F)
    BY <1>1, FS_Subset
<1>3. \A a : A2 \subseteq A \cup {a} => Cardinality(A2) <= Cardinality(A) + 1
    BY <1>1, OneMore
<1>4. /\ \A j \in F : F2 \subseteq F \ {j} => Cardinality(F2) + 1 <= Cardinality(F)
      /\ \A j \in H : H2 \subseteq H \ {j} => Cardinality(H2) + 1 <= Cardinality(H)
    BY <1>1, OneLess
<1>5. \A j : F2 \subseteq F \cup {j} => Cardinality(F2) <= Cardinality(F) + 1
    BY <1>1, OneMore
<1>6. H2 \subseteq H \cup F => Cardinality(H2) <= Cardinality(H) + Cardinality(F)
  <2>1. /\ IsFiniteSet(H \cup F)
        /\ Cardinality(H \cup F) <= Cardinality(H) + Cardinality(F)
    <3>1. /\ IsFiniteSet(H \cup F)
          /\ Cardinality(H \cup F)
                = Cardinality(H) + Cardinality(F) - Cardinality(H \cap F)
      BY <1>1, FS_Union
    <3>2. Cardinality(H \cap F) \in Nat
      BY Sizes
    <3> QED
      BY <1>1, <3>1, <3>2
  <2>2. Cardinality(H \cup F) \in Nat
    BY <2>1, FS_CardinalityType
  <2> QED
    BY <1>1, <2>1, <2>2, FS_Subset
<1>7. F2 = {} => Cardinality(F2) = 0
    BY FS_EmptySet
<1>8. F = {} => Cardinality(F) = 0
    BY FS_EmptySet
<1>9. CASE A2 \subseteq A /\ H2 \subseteq H /\ F2 \subseteq F /\ n <= m
    BY <1>1, <1>2, <1>9
<1>10. CASE /\ \E a \in ArchiveIds : A2 \subseteq A \cup {a}
           /\ H2 \subseteq H /\ (\E j \in F : F2 \subseteq F \ {j}) /\ n <= m
  <2>1. Cardinality(A2) <= Cardinality(A) + 1 /\ Cardinality(F2) + 1 <= Cardinality(F)
    BY <1>3, <1>4, <1>10
  <2> QED
    BY <1>1, <1>2, <1>10, <2>1
<1>11. CASE /\ \E a \in ArchiveIds : A2 \subseteq A \cup {a}
           /\ F2 \subseteq F /\ (\E j \in H : H2 \subseteq H \ {j}) /\ n <= m
  <2>1. Cardinality(A2) <= Cardinality(A) + 1 /\ Cardinality(H2) + 1 <= Cardinality(H)
    BY <1>3, <1>4, <1>11
  <2> QED
    BY <1>1, <1>2, <1>11, <2>1
<1>12. CASE A2 \subseteq A /\ H2 \subseteq H \cup F /\ F2 = {} /\ n <= m
    BY <1>1, <1>2, <1>6, <1>7, <1>12
<1>13. CASE /\ A2 \subseteq A /\ H2 \subseteq H /\ n + 1 <= m
           /\ \E j \in Jobs : F2 \subseteq F \cup {j}
  <2>1. Cardinality(F2) <= Cardinality(F) + 1
    BY <1>5, <1>13
  <2> QED
    BY <1>1, <1>2, <1>13, <2>1
<1>14. CASE A2 \subseteq A /\ H2 \subseteq H /\ F = {} /\ n + Cardinality(Jobs) <= m
    BY <1>1, <1>2, <1>8, <1>14
<1> QED
    BY <1>9, <1>10, <1>11, <1>12, <1>13, <1>14 DEF Change

LEMMA RoomType ==
    ASSUME TypeInv, NEW s \in Sids
    PROVE  /\ ArchivesOf({s}) \in SUBSET ArchiveIds
           /\ Stale(s) \in SUBSET Jobs /\ Free(s) \in SUBSET Jobs
           /\ Allowed(s) \in Nat
<1>1. /\ rowIds[s] \in Nat /\ failures \in Nat /\ Cardinality(Jobs) \in Nat
    BY Sizes DEF TypeInv, TypeOK
<1>2. ASSUME NEW x \in Nat, NEW y \in Nat PROVE x * (y + 1) \in Nat
    OBVIOUS
<1>3. Allowed(s) \in Nat
    BY <1>1, <1>2 DEF Allowed
<1> QED
    BY <1>3 DEF ArchivesOf, Stored, Stale, Free

LEMMA TerminateRoom ==
    ASSUME TypeInv, CountInv, NEW t \in Sids, NEW r \in Reasons, Terminate(t, r)
    PROVE  CountInv'
<1>1. \A s \in Sids : /\ sess'[s] = None <=> sess[s] = None
                      /\ sess[s] # None => sess'[s].id = sess[s].id
  <2>1. sess[t] # None /\ sess'[t].id = sess[t].id /\ sess'[t] # None
    BY TerminatedRow, NoneIsNoRow
  <2> QED
    BY <2>1, TerminatedRow
<1>2. \A row \in Closed : Live(row)' <=> Live(row)
    BY <1>1 DEF Live, Closed
<1>3. UNCHANGED <<job, rowIds, archives, failures>>
    BY DEF Terminate
<1>4. ListedOnce' /\ KeysReached'
    BY <1>1, <1>3 DEF CountInv, ListedOnce, KeysReached
<1>5. ASSUME NEW s \in Sids PROVE Room(s)'
  <2>1. Stale(s)' = Stale(s)
    BY <1>2, <1>3 DEF Stale, TypeInv, TypeOK, JobState
  <2>2. Free(s)' = Free(s)
    <3>1. Deleting(s)' = Deleting(s)
      BY <1>2, <1>3 DEF Deleting, TypeInv, WellFormed
    <3> QED
      BY <1>1, <3>1 DEF Free
  <2>3. ArchivesOf({s})' = ArchivesOf({s}) /\ Allowed(s)' = Allowed(s)
    BY <1>3 DEF ArchivesOf, Stored, Allowed
  <2> QED
    BY <2>1, <2>2, <2>3 DEF CountInv, Room
<1> QED
    BY <1>4, <1>5 DEF CountInv

LEMMA AllowedGrows ==
    ASSUME TypeInv, TypeInv', NEW s \in Sids
    PROVE  /\ rowIds'[s] = rowIds[s] /\ failures <= failures'
                 => Allowed(s) <= Allowed(s)'
           /\ rowIds'[s] = rowIds[s] /\ failures' = failures + 1
                 => Allowed(s) + 1 <= Allowed(s)'
           /\ rowIds'[s] = rowIds[s] + 1 /\ failures' = failures
                 => Allowed(s) + Cardinality(Jobs) <= Allowed(s)'
<1>1. /\ rowIds[s] \in Nat /\ rowIds'[s] \in Nat /\ failures \in Nat
      /\ failures' \in Nat /\ Cardinality(Jobs) \in Nat
    BY Sizes DEF TypeInv, TypeOK
<1>2. ASSUME NEW x \in Nat, NEW y \in Nat
      PROVE  x * (y + 1) \in Nat /\ x * (y + 1 + 1) = x * (y + 1) + x
    OBVIOUS
<1> DEFINE n == Cardinality(Jobs) * (rowIds[s] + 1)
           m == Cardinality(Jobs) * (rowIds'[s] + 1)
<1>3. /\ n \in Nat /\ m \in Nat
      /\ rowIds'[s] = rowIds[s] => m = n
      /\ rowIds'[s] = rowIds[s] + 1 => m = n + Cardinality(Jobs)
    BY <1>1, <1>2
<1> DEFINE a == Allowed(s)
           b == Allowed(s)'
           f == failures
           g == failures'
           k == Cardinality(Jobs)
<1>4. a = n + f /\ b = m + g /\ f \in Nat /\ g \in Nat /\ k \in Nat
    BY <1>1 DEF Allowed
<1>5. m = n + k /\ g = f => a + k <= b
  <2> HIDE DEF n, m, a, b, f, g, k
  <2> QED
    BY <1>3, <1>4
<1>6. m = n => (f <= g => a <= b) /\ (g = f + 1 => a + 1 <= b)
  <2> HIDE DEF n, m, a, b, f, g, k
  <2> QED
    BY <1>3, <1>4
<1> HIDE DEF n, m
<1> QED
    BY <1>3, <1>5, <1>6

LEMMA RoomBy ==
    ASSUME TypeInv, TypeInv', NEW s \in Sids, Room(s),
           Change(ArchivesOf({s}), ArchivesOf({s})', Stale(s), Stale(s)',
                  Free(s), Free(s)', Allowed(s), Allowed(s)')
    PROVE  Room(s)'
<1>1. /\ ArchivesOf({s}) \in SUBSET ArchiveIds
      /\ Stale(s) \in SUBSET Jobs /\ Free(s) \in SUBSET Jobs /\ Allowed(s) \in Nat
    BY RoomType
<1>2. /\ ArchivesOf({s})' \in SUBSET ArchiveIds
      /\ Stale(s)' \in SUBSET Jobs /\ Free(s)' \in SUBSET Jobs /\ Allowed(s)' \in Nat
  <2>1. /\ rowIds'[s] \in Nat /\ failures' \in Nat /\ Cardinality(Jobs) \in Nat
    BY Sizes DEF TypeInv, TypeOK
  <2>2. ASSUME NEW x \in Nat, NEW y \in Nat PROVE x * (y + 1) \in Nat
    OBVIOUS
  <2>3. Allowed(s)' \in Nat
    BY <2>1, <2>2 DEF Allowed
  <2> QED
    BY <2>3 DEF ArchivesOf, Stored, Stale, Free
<1>3. Cardinality(ArchivesOf({s})') + Cardinality(Stale(s)') + Cardinality(Free(s)')
         <= Allowed(s)'
    BY <1>1, <1>2, Counted, Zenon DEF Room
<1> QED
    BY <1>3 DEF Room

LEMMA ListRoom ==
    ASSUME TypeInv, TypeInv', CountInv, NEW j \in Jobs, NEW age \in Ages,
           ListTerminated(j, age)
    PROVE  CountInv'
<1>1. /\ job[j].pc = "idle" /\ job'[j].pc = "insert"
      /\ job'[j].todo = {sess[s] : s \in TerminatedLongAgo(age)}
      /\ \A i \in Jobs : i # j => job'[i] = job[i]
    BY DEF ListTerminated, TypeInv, TypeOK
<1>2. \A row \in job'[j].todo : /\ row.sid \in Sids /\ row = sess[row.sid]
                                /\ Live(row)
    BY <1>1 DEF TerminatedLongAgo, Live, TypeInv, WellFormed
<1>3. UNCHANGED <<sess, rowIds, archives, failures>>
    BY DEF ListTerminated
<1>4. \A row : Live(row)' <=> Live(row)
    BY <1>3 DEF Live
<1>5. ListedOnce'
    BY <1>1, <1>2 DEF CountInv, ListedOnce
<1>6. KeysReached'
    BY <1>1, <1>2, <1>3 DEF CountInv, KeysReached, Live
<1>7. ASSUME NEW s \in Sids PROVE Room(s)'
  <2>1. Stale(s)' \subseteq Stale(s)
    BY <1>1, <1>2, <1>4 DEF Stale
  <2>2. Free(s)' = Free(s)
    BY <1>1, <1>3, <1>4 DEF Free, Deleting
  <2>3. ArchivesOf({s})' = ArchivesOf({s}) /\ Allowed(s)' = Allowed(s)
    BY <1>3 DEF ArchivesOf, Stored, Allowed
  <2> QED
    BY <2>1, <2>2, <2>3, RoomBy, RoomType DEF CountInv, Change
<1> QED
    BY <1>5, <1>6, <1>7 DEF CountInv

LEMMA CreateRoom ==
    ASSUME TypeInv, TypeInv', CountInv, NEW j \in Jobs, NEW row \in job[j].todo,
           CreateArchive(j, row)
    PROVE  CountInv'
<1>1. /\ job[j].pc = "insert" /\ job'[j].pc = "delete" /\ job'[j].current = row
      /\ job'[j].todo = job[j].todo \ {row}
      /\ \A i \in Jobs : i # j => job'[i] = job[i]
    BY DEF CreateArchive, TypeInv, TypeOK
<1>2. row \in Closed /\ row.sid \in Sids
    BY DEF TypeInv, TypeOK, JobState, Closed
<1>3. PICK a \in ArchiveIds : \A b \in ArchiveIds : b # a => archives'[b] = archives[b]
    BY DEF CreateArchive, TypeInv, TypeOK
<1>4. \A b \in ArchiveIds : archives'[b] = archives[b] \/ archives'[b].sid = row.sid
    BY <1>2, ArchivedType DEF CreateArchive, TypeInv, TypeOK
<1>5. UNCHANGED <<sess, rowIds, failures>>
    BY DEF CreateArchive
<1>6. \A r : Live(r)' <=> Live(r)
    BY <1>5 DEF Live
<1>7. ListedOnce'
    BY <1>1 DEF CountInv, ListedOnce
<1>8. KeysReached'
    BY <1>1, <1>5 DEF CountInv, KeysReached
<1>9. ASSUME NEW s \in Sids PROVE Room(s)'
  <2>1. /\ Stale(s)' \subseteq Stale(s)
        /\ Deleting(s) \subseteq Deleting(s)'
        /\ Free(s)' \subseteq Free(s)
    BY <1>1, <1>5, <1>6 DEF Stale, Free, Deleting
  <2>2. ArchivesOf({s})' \subseteq ArchivesOf({s}) \cup {a}
    BY <1>3 DEF ArchivesOf, Stored
  <2>3. Allowed(s) <= Allowed(s)'
    <3>1. rowIds'[s] = rowIds[s] /\ failures' = failures /\ failures \in Nat
      BY <1>5 DEF TypeInv, TypeOK
    <3> QED
      BY <3>1, AllowedGrows
  <2>4. CASE s # row.sid
    <3>1. ArchivesOf({s})' \subseteq ArchivesOf({s})
      BY <1>4, <2>4 DEF ArchivesOf, Stored
    <3> QED
      BY <2>1, <2>3, <3>1, RoomBy DEF CountInv, Change
  <2>5. CASE s = row.sid /\ Live(row)
    <3>1. j \in Free(s) /\ j \in Deleting(s)'
      BY <1>1, <1>6, <2>5 DEF Free, Deleting, Live
    <3>2. Free(s)' \subseteq Free(s) \ {j}
      BY <2>1, <3>1 DEF Free
    <3> QED
      BY <2>1, <2>2, <2>3, <3>1, <3>2, RoomBy DEF CountInv, Change
  <2>6. CASE s = row.sid /\ ~Live(row)
    <3>1. j \in Stale(s) /\ j \notin Stale(s)'
      BY <1>1, <2>6 DEF Stale, CountInv, ListedOnce
    <3>2. Stale(s)' \subseteq Stale(s) \ {j}
      BY <2>1, <3>1
    <3> QED
      BY <2>1, <2>2, <2>3, <3>1, <3>2, RoomBy DEF CountInv, Change
  <2> QED
    BY <2>4, <2>5, <2>6
<1> QED
    BY <1>7, <1>8, <1>9 DEF CountInv

LEMMA SkipRoom ==
    ASSUME TypeInv, TypeInv', CountInv, NEW j \in Jobs, NEW row \in job[j].todo,
           CreateArchiveFails(j, row)
    PROVE  CountInv'
<1>1. /\ job[j].pc = "insert" /\ job'[j].pc = "insert"
      /\ job'[j].todo \subseteq job[j].todo
      /\ \A i \in Jobs : i # j => job'[i] = job[i]
    BY DEF CreateArchiveFails, InsertSkipped, TypeInv, TypeOK, JobState
<1>2. UNCHANGED <<sess, rowIds, archives>> /\ failures <= failures'
    BY DEF CreateArchiveFails, TypeInv, TypeOK
<1>3. \A r : Live(r)' <=> Live(r)
    BY <1>2 DEF Live
<1>4. ListedOnce' /\ KeysReached'
    BY <1>1, <1>2 DEF CountInv, ListedOnce, KeysReached
<1>5. ASSUME NEW s \in Sids PROVE Room(s)'
  <2>1. Stale(s)' \subseteq Stale(s) /\ Free(s)' = Free(s)
    BY <1>1, <1>2, <1>3 DEF Stale, Free, Deleting
  <2>2. ArchivesOf({s})' = ArchivesOf({s}) /\ Allowed(s) <= Allowed(s)'
    BY <1>2, AllowedGrows DEF ArchivesOf, Stored
  <2> QED
    BY <2>1, <2>2, RoomBy DEF CountInv, Change
<1> QED
    BY <1>4, <1>5 DEF CountInv

LEMMA DeleteRoom ==
    ASSUME TypeInv, TypeInv', CountInv, NEW j \in Jobs, DeleteSession(j)
    PROVE  CountInv'
<1> DEFINE row == job[j].current
<1>1. /\ job[j].pc = "delete" /\ job'[j].pc = "insert" /\ job'[j].todo = job[j].todo
      /\ \A i \in Jobs : i # j => job'[i] = job[i]
    BY DEF DeleteSession, TypeInv, TypeOK, JobState
<1>2. row \in Closed /\ row.sid \in Sids
    BY <1>1 DEF TypeInv, WellFormed, Closed
<1>3. /\ UNCHANGED <<rowIds, archives>>
      /\ \/ UNCHANGED sess /\ failures' = failures + 1
         \/ sess' = Deleted(row) /\ failures' = failures
    BY DEF DeleteSession
<1>4. \A s \in Sids : sess'[s] = sess[s] \/ sess'[s] = None
    BY <1>2, <1>3, DeletedType
<1>5. ListedOnce' /\ KeysReached'
    BY <1>1, <1>3, <1>4 DEF CountInv, ListedOnce, KeysReached
<1>6. ASSUME NEW s \in Sids PROVE Room(s)'
  <2>1. ArchivesOf({s})' = ArchivesOf({s})
    BY <1>3 DEF ArchivesOf, Stored
  <2>2. CASE UNCHANGED sess /\ failures' = failures + 1
    <3>1. Stale(s)' = Stale(s) /\ Free(s)' \subseteq Free(s) \cup {j}
      BY <1>1, <2>2 DEF Stale, Free, Deleting, Live
    <3>2. Allowed(s) + 1 <= Allowed(s)'
      BY <1>3, <2>2, AllowedGrows
    <3> QED
      BY <2>1, <3>1, <3>2, RoomBy DEF CountInv, Change
  <2>3. CASE sess' = Deleted(row) /\ failures' = failures
    <3>1. Allowed(s) <= Allowed(s)'
      <4>1. failures \in Nat /\ rowIds'[s] = rowIds[s]
        BY <1>3 DEF TypeInv, TypeOK
      <4> QED
        BY <2>3, <4>1, AllowedGrows
    <3>2. CASE Live(row) /\ s = row.sid
      <4>1. sess'[s] = None /\ sess[s] # None
        BY <1>2, <2>3, <3>2 DEF Deleted, Live, TypeInv, TypeOK
      <4>2. Stale(s)' \subseteq Stale(s) \cup Free(s)
        BY <1>1, <4>1 DEF Stale, Free, Deleting, CountInv, ListedOnce
      <4> QED
        BY <2>1, <3>1, <4>1, <4>2, RoomBy DEF CountInv, Change, Free
    <3>3. CASE ~(Live(row) /\ s = row.sid)
      <4>1. sess'[s] = sess[s]
        BY <1>2, <2>3, <3>3 DEF Deleted, Live, TypeInv, TypeOK
      <4>2. Stale(s)' = Stale(s) /\ Free(s)' = Free(s)
        BY <1>1, <3>3, <4>1 DEF Stale, Free, Deleting, Live
      <4> QED
        BY <2>1, <3>1, <4>2, RoomBy DEF CountInv, Change
    <3> QED
      BY <3>2, <3>3
  <2> QED
    BY <1>3, <2>2, <2>3
<1> QED
    BY <1>5, <1>6 DEF CountInv

LEMMA EndRoom ==
    ASSUME TypeInv, TypeInv', CountInv, NEW j \in Jobs, JobEnds(j)
    PROVE  CountInv'
<1>1. /\ job[j].pc # "idle" /\ job'[j].pc = "idle" /\ job'[j].todo = {}
      /\ \A i \in Jobs : i # j => job'[i] = job[i]
    BY DEF JobEnds, IdleJob, TypeInv, TypeOK
<1>2. /\ UNCHANGED <<sess, rowIds, archives>> /\ failures <= failures'
      /\ job[j].pc = "delete" => failures' = failures + 1
    BY DEF JobEnds, TypeInv, TypeOK
<1>3. ListedOnce' /\ KeysReached'
    BY <1>1, <1>2 DEF CountInv, ListedOnce, KeysReached
<1>4. ASSUME NEW s \in Sids PROVE Room(s)'
  <2>1. ArchivesOf({s})' = ArchivesOf({s}) /\ Allowed(s) <= Allowed(s)'
    BY <1>2, AllowedGrows DEF ArchivesOf, Stored
  <2>2. Stale(s)' \subseteq Stale(s) /\ Free(s)' \subseteq Free(s) \cup {j}
    BY <1>1, <1>2 DEF Stale, Free, Deleting, Live
  <2>3. CASE job[j].pc = "delete"
    <3>1. Allowed(s) + 1 <= Allowed(s)'
      BY <1>2, <2>3, AllowedGrows
    <3> QED
      BY <2>1, <2>2, <3>1, RoomBy DEF CountInv, Change
  <2>4. CASE job[j].pc # "delete"
    <3>1. Free(s)' = Free(s)
      BY <1>1, <1>2, <2>4 DEF Free, Deleting, Live
    <3> QED
      BY <2>1, <2>2, <3>1, RoomBy DEF CountInv, Change
  <2> QED
    BY <2>3, <2>4
<1> QED
    BY <1>3, <1>4 DEF CountInv

(* Steps that touch neither runs nor sessions and add no archive. *)
LEMMA ArchiveRoom ==
    ASSUME TypeInv, TypeInv', CountInv, UNCHANGED <<sess, job, rowIds, failures>>,
           \A s \in Sids : ArchivesOf({s})' \subseteq ArchivesOf({s})
    PROVE  CountInv'
<1>1. ListedOnce' /\ KeysReached'
    BY DEF CountInv, ListedOnce, KeysReached
<1>2. ASSUME NEW s \in Sids PROVE Room(s)'
  <2>1. Stale(s)' = Stale(s) /\ Free(s)' = Free(s) /\ Allowed(s)' = Allowed(s)
    BY DEF Stale, Free, Deleting, Live, Allowed
  <2>2. ArchivesOf({s})' \subseteq ArchivesOf({s}) /\ Allowed(s) <= Allowed(s)'
    BY <2>1, RoomType
  <2> QED
    BY <2>1, <2>2, RoomBy DEF CountInv, Change
<1> QED
    BY <1>1, <1>2 DEF CountInv

LEMMA AdminRoom ==
    ASSUME TypeInv, CleanupExpiredArchives \/ AdminStep
    PROVE  /\ UNCHANGED <<sess, job, rowIds, failures>>
           /\ \A s \in Sids : ArchivesOf({s})' \subseteq ArchivesOf({s})
<1>1. ASSUME NEW A, archives' = Without(A), NEW s \in Sids
      PROVE  ArchivesOf({s})' \subseteq ArchivesOf({s})
    BY <1>1 DEF Without, ArchivesOf, Stored
<1>2. ASSUME NEW a \in ArchiveIds, NEW d \in Days, UpdateArchiveRetention(a, d),
             NEW s \in Sids
      PROVE  ArchivesOf({s})' \subseteq ArchivesOf({s})
  <2> DEFINE row == [archives[a] EXCEPT !.retentionExpiresAt = now + d]
  <2>1. archives[a] # None /\ row.sid = archives[a].sid
    BY <1>2 DEF UpdateArchiveRetention, TypeInv, TypeOK, ArchiveRow
  <2>2. archives' = [archives EXCEPT ![a] = row]
    BY <1>2 DEF UpdateArchiveRetention, TypeInv, TypeOK
  <2> HIDE DEF row
  <2> QED
    BY <2>1, <2>2 DEF ArchivesOf, Stored, TypeInv, TypeOK
<1> QED
    BY <1>1, <1>2
       DEF CleanupExpiredArchives, AdminStep, DeleteArchivesByOwner,
           DeleteArchivesByReason, DeleteArchives, UpdateArchiveRetention

LEMMA RestoreRoom ==
    ASSUME TypeInv, TypeInv', CountInv, NEW q \in Restores,
           CreateSessionFromArchive(q)
    PROVE  CountInv'
<1> DEFINE t == restore[q].sid
           row == Restored(restore[q], rowIds[t] + 1)
<1>1. restore[q] \in ArchiveRow /\ t \in Sids /\ rowIds[t] \in Nat
    BY DEF CreateSessionFromArchive, TypeInv, TypeOK, ArchiveRow
<1>2. UNCHANGED <<job, archives, failures>>
    BY DEF CreateSessionFromArchive
<1>3. CASE UNCHANGED <<sess, rowIds>>
    BY <1>2, <1>3, ArchiveRoom DEF ArchivesOf, Stored
<1>4. CASE sess[t] = None /\ sess' = [sess EXCEPT ![t] = row]
                         /\ rowIds' = [rowIds EXCEPT ![t] = rowIds[t] + 1]
  <2>1. row.id = rowIds[t] + 1
    BY DEF Restored
  <2>2. /\ sess'[t] = row /\ rowIds'[t] = rowIds[t] + 1
        /\ \A s \in Sids : s # t => sess'[s] = sess[s] /\ rowIds'[s] = rowIds[s]
    BY <1>1, <1>4 DEF TypeInv, TypeOK
  <2> HIDE DEF row, t
  <2>3. \A s \in Sids : rowIds[s] \in Nat /\ rowIds[s] <= rowIds'[s]
    BY <2>2 DEF TypeInv, TypeOK
  <2>4. \A j \in Jobs : \A r \in job[j].todo : r.id \in Nat /\ r.sid \in Sids
    BY DEF TypeInv, TypeOK, JobState, Closed
  <2>5. \A j \in Jobs : job[j].pc = "delete" =>
           job[j].current.id \in Nat /\ job[j].current.sid \in Sids
    BY DEF TypeInv, WellFormed, Closed
  <2>6. ListedOnce'
    BY <1>2 DEF CountInv, ListedOnce
  <2>7. KeysReached'
    <3>1. \A s \in Sids : sess'[s] # None => sess'[s].id <= rowIds'[s]
      BY <2>1, <2>2, <2>3 DEF CountInv, KeysReached
    <3>2. \A j \in Jobs : \A r \in job'[j].todo : r.id <= rowIds'[r.sid]
      <4>1. ASSUME NEW j \in Jobs, NEW r \in job[j].todo PROVE r.id <= rowIds'[r.sid]
        <5>1. r.id <= rowIds[r.sid] /\ r.id \in Nat /\ r.sid \in Sids
          BY <2>4 DEF CountInv, KeysReached
        <5>2. rowIds'[r.sid] \in Nat
          BY <5>1 DEF TypeInv, TypeOK
        <5> QED
          BY <2>3, <5>1, <5>2
      <4> QED
        BY <1>2, <4>1
    <3>3. \A j \in Jobs : job'[j].pc = "delete" =>
             job'[j].current.id <= rowIds'[job'[j].current.sid]
      <4>1. ASSUME NEW j \in Jobs, job[j].pc = "delete"
            PROVE  job[j].current.id <= rowIds'[job[j].current.sid]
        <5> DEFINE r == job[j].current
        <5>1. r.id <= rowIds[r.sid] /\ r.id \in Nat /\ r.sid \in Sids
          BY <2>5, <4>1 DEF CountInv, KeysReached
        <5>2. rowIds'[r.sid] \in Nat
          BY <5>1 DEF TypeInv, TypeOK
        <5> HIDE DEF r
        <5>3. r.id <= rowIds'[r.sid]
          BY <2>3, <5>1, <5>2
        <5> QED
          BY <5>3 DEF r
      <4> QED
        BY <1>2, <4>1
    <3> QED
      BY <3>1, <3>2, <3>3 DEF KeysReached
  <2>8. ASSUME NEW s \in Sids PROVE Room(s)'
    <3>1. ArchivesOf({s})' = ArchivesOf({s})
      BY <1>2 DEF ArchivesOf, Stored
    <3>2. CASE s = t
      <4>1. Free(s) = {}
        BY <1>4, <3>2 DEF Free, t
      <4>2. Stale(s)' \subseteq Stale(s)
        BY <1>2, <1>4, <3>2 DEF Stale, Live, t
      <4>3. Allowed(s) + Cardinality(Jobs) <= Allowed(s)'
        BY <1>2, <2>2, <3>2, AllowedGrows
      <4> QED
        BY <3>1, <4>1, <4>2, <4>3, RoomBy DEF CountInv, Change
    <3>3. CASE s # t
      <4>1. sess'[s] = sess[s] /\ rowIds'[s] = rowIds[s]
        BY <2>2, <3>3
      <4>2. Stale(s)' = Stale(s)
        BY <1>2, <4>1 DEF Stale, Live
      <4>3. Free(s)' = Free(s)
        BY <1>2, <4>1 DEF Free, Deleting, Live
      <4>4. Allowed(s) <= Allowed(s)'
        BY <1>2, <4>1, AllowedGrows DEF TypeInv, TypeOK
      <4> QED
        BY <3>1, <4>2, <4>3, <4>4, RoomBy DEF CountInv, Change
    <3> QED
      BY <3>2, <3>3
  <2> QED
    BY <2>6, <2>7, <2>8 DEF CountInv
<1> QED
    BY <1>3, <1>4 DEF CreateSessionFromArchive

LEMMA CountStep == TypeInv /\ CountInv /\ [Next]_vars => CountInv'
<1> SUFFICES ASSUME TypeInv, CountInv, [Next]_vars PROVE CountInv'
    OBVIOUS
<1>1. TypeInv'
    BY TypeStep
<1>2. CASE UNCHANGED <<sess, job, rowIds, failures, archives>>
    BY <1>1, <1>2, ArchiveRoom DEF ArchivesOf, Stored
<1>3. ASSUME NEW j \in Jobs, JobStep(j) PROVE CountInv'
    BY <1>1, <1>3, ListRoom, CreateRoom, SkipRoom, DeleteRoom, EndRoom DEF JobStep
<1>4. CASE CleanupExpiredArchives \/ AdminStep
    BY <1>1, <1>4, AdminRoom, ArchiveRoom
<1> QED
    BY <1>1, <1>2, <1>3, <1>4, TerminateRoom, RestoreRoom
       DEF Next, vars, FindArchive, Tick

LEMMA InitCount == Init => CountInv
<1> SUFFICES ASSUME Init PROVE CountInv
    OBVIOUS
<1>1. ListedOnce /\ KeysReached
    BY DEF Init, ListedOnce, KeysReached, IdleJob
<1>2. ASSUME NEW s \in Sids PROVE Room(s)
  <2>1. ArchivesOf({s}) = {} /\ Stale(s) = {} /\ Free(s) \subseteq Jobs
    BY DEF Init, ArchivesOf, Stored, Stale, Free, IdleJob
  <2>2. rowIds[s] = 0 /\ failures = 0
    BY DEF Init
  <2>3. Cardinality({}) = 0
    BY FS_EmptySet
  <2>4. /\ Cardinality(Free(s)) \in Nat /\ Cardinality(Jobs) \in Nat
        /\ Cardinality(Free(s)) <= Cardinality(Jobs)
    BY <2>1, Sizes
  <2>5. Allowed(s) = Cardinality(Jobs)
    BY <2>2, <2>4 DEF Allowed
  <2> QED
    BY <2>1, <2>3, <2>4, <2>5 DEF Room
<1> QED
    BY <1>1, <1>2 DEF CountInv

(* Overlapping runs archive a session at most once each for every row it    *)
(* has had, and once more for each deletion that failed.                    *)
THEOREM CopiesAreBounded == Spec => []CopiesBounded
<1>1. Init => TypeInv /\ CountInv
    BY InitTypes, InitCount
<1>2. TypeInv /\ CountInv /\ [Next]_vars => (TypeInv /\ CountInv)'
    BY TypeStep, CountStep
<1>3. TypeInv /\ CountInv => CopiesBounded
  <2> SUFFICES ASSUME TypeInv, CountInv, NEW s \in Sids
               PROVE  Cardinality(ArchivesOf({s})) <= Allowed(s)
    BY DEF CopiesBounded, Allowed
  <2>1. /\ Cardinality(ArchivesOf({s})) \in Nat /\ Cardinality(Stale(s)) \in Nat
        /\ Cardinality(Free(s)) \in Nat /\ Allowed(s) \in Nat
    BY RoomType, Sizes
  <2> QED
    BY <2>1 DEF CountInv, Room
<1> QED
    BY <1>1, <1>2, <1>3, PTL DEF Spec
=============================================================================
