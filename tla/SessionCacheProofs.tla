------------------------- MODULE SessionCacheProofs -------------------------
(***************************************************************************)
(* What holds of SessionCache for any number of requests, nodes and Redis  *)
(* instances, any TTL and any number of faults, rotations, advances and    *)
(* revocations.  Three results, each with an invariant of its own over the *)
(* same types:                                                             *)
(*   Calm     a snapshot that disagrees with the row fades within a TTL    *)
(*   Aged     what is left of a snapshot and the age of the revocation     *)
(*            never exceed a TTL                                           *)
(*   Covered  after a revocation the tombstone outlasts every snapshot     *)
(*            that is still on its way.                                    *)
(***************************************************************************)
EXTENDS SessionCache, TLAPS

Steps == {"idle", "fill", "complete", "confirm", "capture", "read", "deny", "rotate", "advance",
          "fence", "revoke", "tombstone"}
Ops == {"none", "create", "validate", "rotate", "advance"} \cup Revokers

RowType == [status : {"active", "revoked"}, ver : Nat, gen : Nat]
EntryType == [status : {"none", "active"} \cup Deny, ver : Nat, left : 0..TTL]
JobType == [op : Ops, pc : Steps, ver : Nat, gen : Nat, left : 0..TTL, late : BOOLEAN]

(* A request that validates neither writes the row nor revokes it. *)
JobInv(j) ==
    /\ j.pc = "idle" <=> j.op = "none"
    /\ j.pc \in {"rotate", "advance", "fence", "revoke", "tombstone"} => j.op # "validate"

EntryInv(e) == e.status = "none" \/ e.left = 0 => e = NoEntry

Typed ==
    /\ row \in RowType
    /\ life \in Nat \cup {Endless}
    /\ cache \in [Caches -> EntryType] /\ \A c \in Caches : EntryInv(cache[c])
    /\ home \in [Procs -> Caches]
    /\ job \in [Procs -> JobType] /\ \A p \in Procs : JobInv(job[p])
    /\ gone \in 0..TTL /\ calm \in 0..TTL /\ over \in BOOLEAN

-----------------------------------------------------------------------------
Filling == {"fill", "complete"}
Writer(j) == j.op \notin {"none", "validate"}

(* Calm ticks have passed without a writer.  While the session is usable, a snapshot, in
   Redis or on its way, that disagrees with the row was taken before them. *)
CalmJob(j) == j.pc \in Filling => j.ver = row.ver \/ j.left + calm <= TTL
CalmEntry(e) == e = NoEntry \/ (e.status = "active" /\ e.ver = row.ver) \/ e.left + calm <= TTL

Calm ==
    /\ \A p \in Procs : Writer(job[p]) => calm = 0
    /\ \A p \in Procs : job[p].pc = "deny" => ~ Usable
    /\ Usable => (\A p \in Procs : CalmJob(job[p])) /\ (\A c \in Caches : CalmEntry(cache[c]))

(* A snapshot is older than the revocation it does not know of. *)
Aged ==
    /\ row.status = "active" => gone = 0
    /\ row.status = "revoked" =>
          /\ \A p \in Procs : job[p].pc \in Filling => job[p].left + gone <= TTL
          /\ \A c \in Caches : cache[c].status = "active" => cache[c].left + gone <= TTL
    /\ BoundedStaleness

-----------------------------------------------------------------------------
OneHome == \A p, q \in Procs : home[p] = home[q]

(* The entry e denies for as long as the request j may take. *)
Fences(e, j) == e.status \in Deny /\ e.left >= WithinLife(j.left) /\ j.left >= 1

(* The entry e is no snapshot, and outlasts the one j has on its way. *)
Outlasts(e, j) == e.status # "active" /\ (j.pc = "fill" => WithinLife(j.left) <= e.left)

Revoking == {"revoke", "tombstone"}

(* Requests that began after a revocation was reported never come to a snapshot.  With
   one Redis, a revocation works behind its fence, and when it is over its tombstone
   outlasts what is on its way. *)
Covered ==
    /\ over => row.status = "revoked"
    /\ \A p \in Procs : job[p].late => over /\ job[p].pc \notin Filling
    /\ OneHome /\ life # 0 =>
          \A p \in Procs : job[p].pc \in Revoking => Fences(cache[home[p]], job[p])
    /\ OneHome /\ life # 0 /\ ~ unfenced /\ row.status = "revoked" =>
          \/ \E p \in Procs : job[p].pc = "tombstone"
          \/ \A p \in Procs : Outlasts(cache[home[p]], job[p])
    /\ RevokedStaysOut
-----------------------------------------------------------------------------
(* Times *)

LEMMA LifeBounds ==
    ASSUME life \in Nat \cup {Endless}, NEW n \in 0..TTL
    PROVE  /\ WithinLife(n) \in Int /\ WithinLife(n) >= 0 /\ WithinLife(n) <= n /\ WithinLife(n) <= TTL
           /\ life # Endless => WithinLife(n) <= life
           /\ n >= 1 /\ life # 0 => WithinLife(n) >= 1
BY SessionCacheAssumption DEF WithinLife, Endless

LEMMA DenyBounds ==
    ASSUME life \in Nat \cup {Endless}
    PROVE  DenyLeft \in 0..TTL /\ DenyLeft >= 1 /\ \A n \in 0..TTL : WithinLife(n) <= DenyLeft
BY SessionCacheAssumption DEF DenyLeft, WithinLife, Endless

(* A tick takes one from what is left, of a snapshot as of the session. *)
Less(n) == IF n > 0 THEN n - 1 ELSE n

(* What is left of n where the session has l left: WithinLife(n) is Within(life, n). *)
Within(l, n) == IF l # Endless /\ l < n THEN l ELSE n

LEMMA LifeTick ==
    ASSUME life \in Nat \cup {Endless}, life' = Less(life), NEW n \in 0..TTL
    PROVE  /\ Within(life', Less(n)) <= WithinLife(n)
           /\ Within(life', Less(n)) \in Int
           /\ WithinLife(n) >= 1 => Within(life', Less(n)) <= WithinLife(n) - 1
           /\ n > 1 /\ life' # 0 => WithinLife(n) > 1
           /\ life' # 0 => life # 0
BY SessionCacheAssumption DEF WithinLife, Within, Endless, Less

-----------------------------------------------------------------------------
(* Requests and entries, field by field *)

LEMMA RestType == Rest \in JobType /\ Rest.pc = "idle" /\ Rest.op = "none" /\ Rest.late = FALSE /\ JobInv(Rest)
BY SessionCacheAssumption DEF Rest, JobType, Steps, Ops, JobInv

LEMMA JobFields ==
    ASSUME Typed, NEW p \in Procs
    PROVE  /\ job[p] \in JobType /\ JobInv(job[p])
           /\ job[p].pc \in Steps /\ job[p].op \in Ops /\ job[p].ver \in Nat /\ job[p].gen \in Nat
           /\ job[p].left \in 0..TTL /\ job[p].left \in Int /\ job[p].left >= 0 /\ job[p].left <= TTL
           /\ job[p].late \in BOOLEAN
BY SessionCacheAssumption DEF Typed, JobType

LEMMA EntryFields ==
    ASSUME Typed, NEW c \in Caches
    PROVE  /\ cache[c] \in EntryType /\ EntryInv(cache[c])
           /\ cache[c].status \in {"none", "active"} \cup Deny /\ cache[c].ver \in Nat
           /\ cache[c].left \in 0..TTL /\ cache[c].left \in Int /\ cache[c].left >= 0 /\ cache[c].left <= TTL
BY SessionCacheAssumption DEF Typed, EntryType

LEMMA NoEntryType ==
    /\ NoEntry \in EntryType /\ EntryInv(NoEntry)
    /\ NoEntry.status = "none" /\ NoEntry.ver = 0 /\ NoEntry.left = 0
BY SessionCacheAssumption DEF NoEntry, EntryType, EntryInv

LEMMA StateFields ==
    ASSUME Typed
    PROVE  /\ row.status \in {"active", "revoked"} /\ row.ver \in Nat /\ row.gen \in Nat
           /\ life \in Nat \cup {Endless}
           /\ gone \in Int /\ gone >= 0 /\ gone <= TTL /\ calm \in Int /\ calm >= 0 /\ calm <= TTL
           /\ \A p \in Procs : home[p] \in Caches
BY SessionCacheAssumption DEF Typed, RowType

(* Only p moves. *)
Others(p) == job' \in [Procs -> JobType] /\ \A q \in Procs : q # p => job'[q] = job[q]

(* p is now j. *)
Becomes(p, j) == Others(p) /\ job'[p] = j

Keeps(p) == job'[p].op = job[p].op /\ job'[p].late = job[p].late

(* Nothing moves but requests. *)
Still == UNCHANGED <<row, life, cache, home, gone, calm, over, unfenced>>

LEMMA Becoming ==
    ASSUME Typed, NEW p \in Procs, NEW j \in JobType, job' = [job EXCEPT ![p] = j]
    PROVE  Becomes(p, j)
BY DEF Typed, Becomes, Others

LEMMA MoveType ==
    ASSUME NEW j \in JobType, NEW pc \in Steps
    PROVE  LET k == [j EXCEPT !.pc = pc] IN
           /\ k \in JobType /\ k.pc = pc
           /\ k.op = j.op /\ k.ver = j.ver /\ k.left = j.left /\ k.late = j.late
BY DEF JobType

LEMMA VersionType ==
    ASSUME NEW j \in JobType, NEW pc \in Steps, NEW v \in Nat
    PROVE  LET k == [j EXCEPT !.ver = v, !.pc = pc] IN
           /\ k \in JobType /\ k.pc = pc /\ k.ver = v
           /\ k.op = j.op /\ k.left = j.left /\ k.late = j.late
BY DEF JobType

LEMMA DeadlineType ==
    ASSUME NEW j \in JobType, NEW pc \in Steps
    PROVE  LET k == [j EXCEPT !.left = TTL, !.pc = pc] IN
           /\ k \in JobType /\ k.pc = pc /\ k.left = TTL
           /\ k.op = j.op /\ k.ver = j.ver /\ k.late = j.late
<1>1. TTL \in 0..TTL
  BY SessionCacheAssumption
<1> QED BY <1>1 DEF JobType

(* To the next step, or to an answer. *)
Moves(p, pc) ==
    /\ Others(p) /\ leaks' = leaks /\ Keeps(p)
    /\ job'[p].pc = pc /\ job'[p].ver = job[p].ver /\ job'[p].left = job[p].left

Stops(p) == Becomes(p, Rest) /\ leaks' = leaks

Answers(p) == Becomes(p, Rest) /\ leaks' = leaks \cup Leaks("granted", job[p].late)

LEMMA GotoMoves ==
    ASSUME Typed, NEW p \in Procs, NEW pc \in Steps, Goto(p, pc)
    PROVE  Moves(p, pc)
<1>1. pc \notin Verdicts
  BY DEF Steps, Verdicts
<1>2. job' = [job EXCEPT ![p] = [job[p] EXCEPT !.pc = pc]] /\ leaks' = leaks
  BY <1>1 DEF Goto, Leaks, Verdicts
<1> DEFINE k == [job[p] EXCEPT !.pc = pc]
<1>3. /\ k \in JobType /\ k.pc = pc
      /\ k.op = job[p].op /\ k.ver = job[p].ver /\ k.left = job[p].left /\ k.late = job[p].late
  BY JobFields, MoveType
<1> HIDE DEF k
<1>4. Becomes(p, k)
  BY <1>2, <1>3, Becoming DEF k
<1> QED BY <1>2, <1>3, <1>4 DEF Moves, Becomes, Keeps

LEMMA GotoStops ==
    ASSUME Typed, NEW p \in Procs, Goto(p, "denied")
    PROVE  Stops(p)
<1>1. job' = [job EXCEPT ![p] = Rest] /\ leaks' = leaks
  BY DEF Goto, Leaks, Verdicts
<1> QED BY <1>1, Becoming, RestType DEF Stops

LEMMA GotoAnswers ==
    ASSUME Typed, NEW p \in Procs, Goto(p, "granted")
    PROVE  Answers(p)
<1>1. job' = [job EXCEPT ![p] = Rest] /\ leaks' = leaks \cup Leaks("granted", job[p].late)
  BY DEF Goto, Verdicts
<1> QED BY <1>1, Becoming, RestType DEF Answers

-----------------------------------------------------------------------------
(* What a step can be *)

(* Redis or the database is asked for nothing that changes them. *)
Ends(p) == Still /\ Stops(p)

Grants(p) ==
    /\ Still /\ Answers(p)
    /\ \/ job[p].pc = "fill" /\ "fill" \in Faulty
       \/ job[p].pc = "complete" /\ job[p].left > 0
       \/ job[p].pc = "confirm" /\ Usable

Hits(p) ==
    /\ Still /\ job' = job
    /\ cache[home[p]].status = "active" /\ Alive
    /\ leaks' = leaks \cup Leaks("granted", over)

Confirms(p) == Still /\ job[p].pc \in Filling /\ Moves(p, "confirm")

(* A validation, or a writer, begins. *)
Starts(p) ==
    /\ UNCHANGED <<row, life, cache, home, gone, over, unfenced, leaks>>
    /\ Others(p) /\ job[p].pc = "idle" /\ job'[p].late = over
    /\ \/ job'[p].pc = "capture" /\ job'[p].op = "validate" /\ calm' = calm
       \/ job'[p].pc \in {"read", "advance", "fence"} /\ Writer(job'[p]) /\ calm' = 0

Captures(p) ==
    /\ Still /\ leaks' = leaks /\ Others(p) /\ Keeps(p)
    /\ job[p].pc = "capture" /\ job'[p].pc = "read"

(* The row is read. *)
Sees(p) ==
    /\ Still /\ leaks' = leaks /\ Others(p) /\ Keeps(p)
    /\ job[p].pc = "read" /\ job'[p].ver = row.ver /\ job'[p].left = job[p].left
    /\ \/ Usable /\ job[p].op = "validate" /\ job'[p].pc \in {"fill", "confirm"}
       \/ Usable /\ job[p].op # "validate" /\ job'[p].pc = "rotate"
       \/ ~ Usable /\ job[p].op = "validate" /\ job'[p].pc = "deny"

(* The row is rotated or advanced. *)
Writes(p) ==
    /\ UNCHANGED <<life, cache, home, gone, calm, over, unfenced, leaks>>
    /\ Usable /\ row' \in RowType /\ row'.status = row.status
    /\ Others(p) /\ Keeps(p)
    /\ job[p].pc \in {"rotate", "advance"} /\ job'[p].pc \in {"fill", "confirm"}
    /\ row'.ver = row.ver \/ job[p].pc = "advance"

(* The snapshot is stored. *)
Fills(p) ==
    /\ UNCHANGED <<row, life, home, gone, calm, over, unfenced>>
    /\ job[p].pc = "fill" /\ Moves(p, "complete")
    /\ ~ Refuses(cache[home[p]], "active", job[p].ver)
    /\ cache' = [cache EXCEPT ![home[p]] = Snapshot(p)]

(* An entry that denies is stored, by a reader, as a fence or as a tombstone. *)
Puts(p) ==
    /\ UNCHANGED <<row, life, home, gone, calm, unfenced, leaks>>
    /\ \E st \in Deny : PutDeny(p, st, job[p].ver)
    /\ \/ job[p].pc = "deny" /\ over' = over /\ Becomes(p, Rest)
       \/ job[p].pc = "fence" /\ over' = over /\ Others(p) /\ Keeps(p)
          /\ job'[p].pc = "revoke" /\ job'[p].left = TTL
       \/ job[p].pc = "tombstone" /\ over' = (over \/ row.status = "revoked") /\ Becomes(p, Rest)

Revokes(p) ==
    /\ UNCHANGED <<life, cache, home, gone, calm, over, unfenced, leaks>>
    /\ Usable /\ row' = [row EXCEPT !.status = "revoked"]
    /\ Others(p) /\ Keeps(p) /\ job[p].pc = "revoke"
    /\ job'[p].pc = "tombstone" /\ job'[p].left = job[p].left

(* A revocation finds the row over, or could not leave its tombstone. *)
Reports(p) ==
    /\ UNCHANGED <<row, life, cache, home, gone, leaks>> /\ calm' \in {0, calm}
    /\ Becomes(p, Rest) /\ over' = (over \/ row.status = "revoked")
    /\ (unfenced' = unfenced /\ job[p].pc # "tombstone") \/ unfenced'

Steppings(p) ==
    \/ Ends(p) /\ job[p].pc # "tombstone"
    \/ Grants(p) \/ Hits(p) \/ Confirms(p) \/ Starts(p) \/ Captures(p) \/ Sees(p)
    \/ Writes(p) \/ Fills(p) \/ Puts(p) \/ Revokes(p) \/ Reports(p)

LEMMA FillKinds ==
    ASSUME Typed, NEW p \in Procs, Fill(p) \/ Complete(p) \/ Confirm(p)
    PROVE  (Ends(p) /\ job[p].pc # "tombstone") \/ Grants(p) \/ Confirms(p) \/ Fills(p)
<1> USE DEF At, history
<1>1. /\ Goto(p, "confirm") => Moves(p, "confirm")
      /\ Goto(p, "complete") => Moves(p, "complete")
      /\ Goto(p, "denied") => Stops(p)
      /\ Goto(p, "granted") => Answers(p)
  BY GotoMoves, GotoStops, GotoAnswers DEF Steps
<1>2. CASE Fill(p)
  <2>1. UNCHANGED <<row, life, home, gone, calm, over, unfenced>> /\ job[p].pc = "fill"
    BY <1>2 DEF Fill
  <2>2. CASE UNCHANGED cache /\ Goto(p, "confirm")
    BY <1>1, <2>1, <2>2 DEF Confirms, Still, Filling
  <2>3. CASE UNCHANGED cache /\ Goto(p, "denied")
    BY <1>1, <2>1, <2>3 DEF Ends, Still
  <2>4. CASE UNCHANGED cache /\ Goto(p, "granted") /\ "fill" \in Faulty
    BY <1>1, <2>1, <2>4 DEF Grants, Still
  <2>5. CASE /\ ~ Refuses(cache[home[p]], "active", job[p].ver)
             /\ cache' = [cache EXCEPT ![home[p]] = Snapshot(p)]
             /\ Goto(p, "complete")
    BY <1>1, <2>1, <2>5 DEF Fills
  <2> QED BY <1>2, <2>2, <2>3, <2>4, <2>5 DEF Fill, Fault
<1>3. CASE Complete(p)
  <2>1. Still /\ job[p].pc = "complete"
    BY <1>3 DEF Complete, Still
  <2>2. CASE job[p].left = 0
    BY <1>1, <1>3, <2>1, <2>2 DEF Complete, Confirms, Filling
  <2>3. CASE job[p].left > 0 /\ ~ Alive
    <3>1. ~ (job[p].left = 0)
      BY <2>3, JobFields
    <3> QED BY <1>1, <1>3, <2>1, <2>3, <3>1 DEF Complete, Ends
  <2>4. CASE job[p].left > 0 /\ Alive
    <3>1. ~ (job[p].left = 0)
      BY <2>4, JobFields
    <3>2. Goto(p, "granted")
      BY <1>3, <2>4, <3>1 DEF Complete
    <3> QED BY <1>1, <2>1, <2>4, <3>2 DEF Grants
  <2> QED BY <2>2, <2>3, <2>4, JobFields
<1>4. CASE Confirm(p)
  <2>1. Still /\ job[p].pc = "confirm"
    BY <1>4 DEF Confirm, Still
  <2>2. (Goto(p, "granted") /\ Usable) \/ Goto(p, "denied")
    BY <1>4 DEF Confirm
  <2> QED BY <1>1, <2>1, <2>2 DEF Grants, Ends
<1> QED BY <1>2, <1>3, <1>4

LEMMA ToFillStep == \A n : ToFill(n) \in {"fill", "confirm"} /\ ToFill(n) \in Steps
BY DEF ToFill, Steps

LEMMA ReadKinds ==
    ASSUME Typed, NEW p \in Procs, Capture(p) \/ ReadRow(p)
    PROVE  (Ends(p) /\ job[p].pc # "tombstone") \/ Captures(p) \/ Sees(p)
<1> USE DEF At, history
<1>1. CASE Capture(p)
  <2> DEFINE k == [job[p] EXCEPT !.left = TTL, !.pc = "read"]
  <2>1. k \in JobType /\ k.pc = "read" /\ k.op = job[p].op /\ k.late = job[p].late
    BY JobFields, DeadlineType, ZenonT(60) DEF Steps
  <2>2. job' = [job EXCEPT ![p] = k]
    BY <1>1 DEF Capture
  <2> HIDE DEF k
  <2>3. Becomes(p, k)
    BY <2>1, <2>2, Becoming
  <2>4. Captures(p)
    BY <1>1, <2>1, <2>3 DEF Capture, Captures, Still, Becomes, Keeps
  <2> QED BY <2>4, SMTT(30)
<1>2. CASE ReadRow(p)
  <2>1. Still /\ job[p].pc = "read" /\ job[p].op \in Ops
    BY <1>2, JobFields DEF ReadRow, Still
  <2>2. CASE Goto(p, "denied")
    BY <2>1, <2>2, GotoStops DEF Ends
  <2>3. ASSUME NEW pc \in Steps, job' = [job EXCEPT ![p].ver = row.ver, ![p].pc = pc], leaks' = leaks
        PROVE  Others(p) /\ Keeps(p) /\ job'[p].ver = row.ver /\ job'[p].left = job[p].left /\ job'[p].pc = pc
    <3> DEFINE k == [job[p] EXCEPT !.ver = row.ver, !.pc = pc]
    <3>1. /\ k \in JobType /\ k.pc = pc /\ k.ver = row.ver
          /\ k.op = job[p].op /\ k.left = job[p].left /\ k.late = job[p].late
      <4>1. job[p] \in JobType /\ row.ver \in Nat
        BY JobFields, StateFields
      <4> QED BY <4>1, VersionType
    <3>2. job' = [job EXCEPT ![p] = k]
      BY <2>3
    <3> HIDE DEF k
    <3>3. Becomes(p, k)
      BY <3>1, <3>2, Becoming
    <3> QED BY <3>1, <3>3 DEF Becomes, Keeps
  <2>4. CASE /\ Usable /\ leaks' = leaks
             /\ job' = [job EXCEPT ![p].ver = row.ver,
                                   ![p].pc = IF job[p].op = "validate" THEN ToFill(job[p].left) ELSE "rotate"]
    <3> DEFINE pc == IF job[p].op = "validate" THEN ToFill(job[p].left) ELSE "rotate"
    <3>1. pc \in Steps
      BY ToFillStep DEF Steps
    <3>2. pc \in IF job[p].op = "validate" THEN {"fill", "confirm"} ELSE {"rotate"}
      BY ToFillStep
    <3>3. job' = [job EXCEPT ![p].ver = row.ver, ![p].pc = pc]
      BY <2>4
    <3> HIDE DEF pc
    <3>4. Others(p) /\ Keeps(p) /\ job'[p].ver = row.ver /\ job'[p].left = job[p].left /\ job'[p].pc = pc
      BY <2>3, <2>4, <3>1, <3>3
    <3>5. Sees(p)
      BY <2>1, <2>4, <3>2, <3>4 DEF Sees
    <3> QED BY <3>5
  <2>5. CASE /\ ~ Usable /\ job[p].op = "validate" /\ leaks' = leaks
             /\ job' = [job EXCEPT ![p].ver = row.ver, ![p].pc = "deny"]
    <3>1. Others(p) /\ Keeps(p) /\ job'[p].ver = row.ver /\ job'[p].left = job[p].left /\ job'[p].pc = "deny"
      BY <2>3, <2>5 DEF Steps
    <3> QED BY <2>1, <2>5, <3>1 DEF Sees
  <2> QED BY <1>2, <2>2, <2>4, <2>5 DEF ReadRow
<1> QED BY <1>1, <1>2

LEMMA BegunType ==
    ASSUME Typed, NEW op \in Ops, NEW pc \in Steps
    PROVE  /\ Begun(op, pc) \in JobType
           /\ Begun(op, pc).op = op /\ Begun(op, pc).pc = pc /\ Begun(op, pc).late = over
<1>1. over \in BOOLEAN
  BY DEF Typed
<1>2. ASSUME NEW late \in BOOLEAN
      PROVE  /\ [Rest EXCEPT !.op = op, !.pc = pc, !.late = late] \in JobType
             /\ [Rest EXCEPT !.op = op, !.pc = pc, !.late = late].op = op
             /\ [Rest EXCEPT !.op = op, !.pc = pc, !.late = late].pc = pc
             /\ [Rest EXCEPT !.op = op, !.pc = pc, !.late = late].late = late
  BY RestType DEF JobType
<1> QED BY <1>1, <1>2, Zenon DEF Begun

(* The record of a request that begins, with what it notes of the row. *)
LEMMA NotedType ==
    ASSUME NEW j \in JobType, NEW n \in Nat
    PROVE  /\ [j EXCEPT !.ver = n] \in JobType
           /\ LET k == [j EXCEPT !.ver = n] IN k.op = j.op /\ k.pc = j.pc /\ k.late = j.late
           /\ [j EXCEPT !.left = TTL, !.ver = n] \in JobType
           /\ LET k == [j EXCEPT !.left = TTL, !.ver = n] IN k.op = j.op /\ k.pc = j.pc /\ k.late = j.late
           /\ [j EXCEPT !.left = TTL, !.gen = n] \in JobType
           /\ LET k == [j EXCEPT !.left = TTL, !.gen = n] IN k.op = j.op /\ k.pc = j.pc /\ k.late = j.late
<1>1. TTL \in 0..TTL
  BY SessionCacheAssumption
<1> QED BY <1>1 DEF JobType

LEMMA StartKinds ==
    ASSUME Typed, NEW p \in Procs, LookUp(p) \/ \E op \in {"rotate", "advance"} : BeginWrite(p, op)
    PROVE  Hits(p) \/ Starts(p)
<1>1. CASE LookUp(p)
  <2>1. Still /\ job[p].pc = "idle"
    BY <1>1 DEF LookUp, Still, history, At
  <2>2. CASE job' = [job EXCEPT ![p] = Begun("validate", "capture")] /\ leaks' = leaks
    <3>1. /\ Begun("validate", "capture") \in JobType /\ Begun("validate", "capture").late = over
          /\ Begun("validate", "capture").op = "validate" /\ Begun("validate", "capture").pc = "capture"
      BY BegunType DEF Ops, Steps
    <3>2. Becomes(p, Begun("validate", "capture"))
      BY <2>2, <3>1, Becoming
    <3> QED BY <2>1, <2>2, <3>1, <3>2 DEF Starts, Still, Becomes
  <2>3. CASE /\ cache[home[p]].status = "active" /\ Alive /\ job' = job
             /\ leaks' = leaks \cup Leaks("granted", over)
    BY <2>1, <2>3 DEF Hits
  <2> QED BY <1>1, <2>2, <2>3 DEF LookUp
<1>2. ASSUME NEW op \in {"rotate", "advance"}, BeginWrite(p, op) PROVE Starts(p)
  <2>1. row.ver \in Nat /\ row.gen \in Nat /\ op \in Ops /\ "advance" \in Steps /\ "read" \in Steps
    BY StateFields DEF Ops, Steps
  <2>0. \A pc \in {"advance", "read"} : Begun(op, pc) \in JobType /\ Begun(op, pc).op = op
                                        /\ Begun(op, pc).pc = pc /\ Begun(op, pc).late = over
    BY <2>1, BegunType
  <2> DEFINE k == IF op = "advance" THEN [Begun(op, "advance") EXCEPT !.left = TTL, !.ver = row.ver]
                  ELSE [Begun(op, "read") EXCEPT !.left = TTL, !.gen = row.gen]
  <2>2. k \in JobType /\ k.op = op /\ k.pc \in {"advance", "read"} /\ k.late = over
    BY <2>1, <2>0, NotedType
  <2>3. job' = [job EXCEPT ![p] = k]
    BY <1>2 DEF BeginWrite
  <2> HIDE DEF k
  <2>4. Becomes(p, k)
    BY <2>2, <2>3, Becoming
  <2> QED BY <1>2, <2>2, <2>4 DEF BeginWrite, Starts, Becomes, Writer, At
<1> QED BY <1>1, <1>2

LEMMA WriteKinds ==
    ASSUME Typed, NEW p \in Procs, RotateRow(p) \/ AdvanceRow(p)
    PROVE  (Ends(p) /\ job[p].pc # "tombstone") \/ Writes(p)
<1> USE DEF At, history
<1>1. UNCHANGED <<life, cache, home, gone, calm, over, unfenced>> /\ job[p].pc \in {"rotate", "advance"}
  BY DEF RotateRow, AdvanceRow
<1>2. CASE Goto(p, "denied") /\ UNCHANGED row
  BY <1>1, <1>2, GotoStops DEF Ends, Still
<1>3. CASE /\ Usable /\ row' = [row EXCEPT !.gen = @ + 1] /\ Goto(p, ToFill(job[p].left))
  <2>1. row' \in RowType /\ row'.status = row.status /\ row'.ver = row.ver
    BY <1>3 DEF Typed, RowType
  <2>2. Moves(p, ToFill(job[p].left)) /\ ToFill(job[p].left) \in {"fill", "confirm"}
    BY <1>3, ToFillStep, GotoMoves
  <2> QED BY <1>1, <1>3, <2>1, <2>2 DEF Writes, Moves
<1>4. CASE /\ AdvanceRow(p) /\ Usable /\ row' = [row EXCEPT !.ver = @ + 1] /\ leaks' = leaks
           /\ job' = [job EXCEPT ![p].ver = @ + 1, ![p].pc = ToFill(job[p].left)]
  <2>1. row' \in RowType /\ row'.status = row.status
    BY <1>4 DEF Typed, RowType
  <2> DEFINE pc == ToFill(job[p].left)
  <2> DEFINE v == job[p].ver + 1
  <2> DEFINE k == [job[p] EXCEPT !.ver = v, !.pc = pc]
  <2>2. pc \in {"fill", "confirm"} /\ pc \in Steps /\ job[p] \in JobType /\ v \in Nat
    BY ToFillStep, JobFields
  <2>3. job' = [job EXCEPT ![p] = k]
    BY <1>4
  <2> HIDE DEF pc, v
  <2>4. k \in JobType /\ k.pc = pc /\ k.op = job[p].op /\ k.late = job[p].late
    BY <2>2 DEF JobType
  <2> HIDE DEF k
  <2>5. Becomes(p, k)
    BY <2>3, <2>4, Becoming
  <2> QED BY <1>1, <1>4, <2>1, <2>2, <2>4, <2>5 DEF AdvanceRow, Writes, Becomes, Keeps
<1> QED BY <1>2, <1>3, <1>4 DEF RotateRow, AdvanceRow

LEMMA RevokeKinds ==
    ASSUME Typed, NEW p \in Procs,
           DenyFill(p) \/ Fence(p) \/ RevokeRow(p) \/ Tombstone(p) \/ \E op \in Revokers : ReadCandidate(p, op)
    PROVE  (Ends(p) /\ job[p].pc # "tombstone") \/ Starts(p) \/ Puts(p) \/ Revokes(p) \/ Reports(p)
<1> USE DEF At, history
<1>1. Goto(p, "denied") => Stops(p)
  BY GotoStops
<1>2. CASE DenyFill(p)
  BY <1>1, <1>2 DEF DenyFill, Stops, Puts, Ends, Still, Deny
<1>3. CASE Fence(p)
  <2>1. UNCHANGED <<row, life, home, gone, calm, over, unfenced>> /\ job[p].pc = "fence"
    BY <1>3 DEF Fence
  <2>2. CASE Goto(p, "denied") /\ UNCHANGED cache
    BY <1>1, <2>1, <2>2 DEF Ends, Still
  <2>3. CASE /\ PutDeny(p, "revoking", job[p].ver) /\ leaks' = leaks
             /\ job' = [job EXCEPT ![p].pc = "revoke", ![p].left = TTL]
    <3> DEFINE k == [job[p] EXCEPT !.left = TTL, !.pc = "revoke"]
    <3>1. k \in JobType /\ k.pc = "revoke" /\ k.left = TTL /\ k.op = job[p].op /\ k.late = job[p].late
      BY JobFields, DeadlineType DEF Steps
    <3>2. job' = [job EXCEPT ![p] = k]
      BY <2>3, JobFields DEF Typed, JobType
    <3> HIDE DEF k
    <3>3. Becomes(p, k)
      BY <3>1, <3>2, Becoming
    <3>4. \E st \in Deny : PutDeny(p, st, job[p].ver)
      BY <2>3 DEF Deny
    <3> QED BY <2>1, <2>3, <3>1, <3>3, <3>4, SMTT(30) DEF Puts, Becomes, Keeps
  <2> QED BY <1>3, <2>2, <2>3 DEF Fence
<1>4. CASE RevokeRow(p)
  <2>1. UNCHANGED <<life, cache, home, gone, calm, unfenced>> /\ job[p].pc = "revoke"
    BY <1>4 DEF RevokeRow
  <2>2. CASE Report(p) /\ UNCHANGED row
    BY <1>1, <2>1, <2>2 DEF Report, Reports, Stops
  <2>3. CASE Goto(p, "denied") /\ UNCHANGED <<row, over>>
    BY <1>1, <2>1, <2>3 DEF Ends, Still
  <2>4. CASE /\ Usable /\ row' = [row EXCEPT !.status = "revoked"] /\ UNCHANGED <<over, leaks>>
             /\ job' = [job EXCEPT ![p].pc = "tombstone",
                                   ![p].ver = IF job[p].op = "revokeAll" THEN row.ver ELSE @]
    <3> DEFINE v == IF job[p].op = "revokeAll" THEN row.ver ELSE job[p].ver
    <3> DEFINE k == [job[p] EXCEPT !.ver = v, !.pc = "tombstone"]
    <3>1. v \in Nat /\ job[p] \in JobType /\ "tombstone" \in Steps
      BY JobFields, StateFields DEF Steps
    <3>2. job' = [job EXCEPT ![p] = k]
      BY <2>4, JobFields DEF Typed, JobType
    <3> HIDE DEF v
    <3>3. k \in JobType /\ k.pc = "tombstone" /\ k.left = job[p].left /\ k.op = job[p].op /\ k.late = job[p].late
      BY <3>1, VersionType, ZenonT(60)
    <3> HIDE DEF k
    <3>4. Becomes(p, k)
      BY <3>2, <3>3, Becoming
    <3> QED BY <2>1, <2>4, <3>3, <3>4 DEF Revokes, Becomes, Keeps
  <2> QED BY <1>4, <2>2, <2>3, <2>4 DEF RevokeRow
<1>5. CASE Tombstone(p)
  <2>1. UNCHANGED <<row, life, home, gone, calm>> /\ job[p].pc = "tombstone" /\ Stops(p)
        /\ over' = (over \/ row.status = "revoked")
    BY <1>1, <1>5 DEF Tombstone, Report
  <2>2. CASE PutDeny(p, "revoked", job[p].ver) /\ unfenced' = unfenced
    <3>1. \E st \in Deny : PutDeny(p, st, job[p].ver)
      BY <2>2 DEF Deny
    <3> QED BY <2>1, <2>2, <3>1 DEF Puts, Stops
  <2>3. CASE unfenced' /\ cache' = cache
    BY <2>1, <2>3 DEF Reports, Stops
  <2> QED BY <1>5, <2>2, <2>3 DEF Tombstone
<1>6. ASSUME NEW op \in Revokers, ReadCandidate(p, op) PROVE Starts(p) \/ Reports(p)
  <2>1. UNCHANGED <<row, life, cache, home, gone, unfenced>> /\ calm' = 0 /\ job[p].pc = "idle"
    BY <1>6 DEF ReadCandidate
  <2>2. CASE Report(p)
    BY <1>1, <2>1, <2>2 DEF Report, Reports, Stops
  <2>3. CASE /\ job' = [job EXCEPT ![p] = [Begun(op, "fence") EXCEPT !.ver = row.ver]]
             /\ UNCHANGED <<over, leaks>>
    <3> DEFINE k == [Begun(op, "fence") EXCEPT !.ver = row.ver]
    <3>1. row.ver \in Nat /\ op \in Ops /\ "fence" \in Steps /\ op \notin {"none", "validate"}
      BY StateFields DEF Ops, Steps, Revokers
    <3>0. /\ Begun(op, "fence") \in JobType /\ Begun(op, "fence").op = op
          /\ Begun(op, "fence").pc = "fence" /\ Begun(op, "fence").late = over
      BY <3>1, BegunType
    <3>2. k \in JobType /\ k.op = op /\ k.pc = "fence" /\ k.late = over
      BY <3>1, <3>0, NotedType
    <3> HIDE DEF k
    <3>3. Becomes(p, k)
      BY <2>3, <3>2, Becoming DEF k
    <3> QED BY <2>1, <2>3, <3>1, <3>2, <3>3 DEF Starts, Becomes, Writer
  <2> QED BY <1>6, <2>2, <2>3 DEF ReadCandidate
<1> QED BY <1>2, <1>3, <1>4, <1>5, <1>6

LEMMA StepKinds ==
    ASSUME Typed, [Next]_vars
    PROVE  (\E p \in Procs : Steppings(p)) \/ Tick \/ UNCHANGED vars
<1>1. ASSUME NEW p \in Procs,
             Step(p) \/ LookUp(p) \/ (\E op \in {"rotate", "advance"} : BeginWrite(p, op))
             \/ (\E op \in Revokers : ReadCandidate(p, op))
      PROVE  Steppings(p)
  BY <1>1, FillKinds, ReadKinds, StartKinds, WriteKinds, RevokeKinds DEF Step, Steppings
<1> QED BY <1>1 DEF Next

LEMMA SnapshotIs ==
    ASSUME Typed, NEW p \in Procs
    PROVE  /\ Snapshot(p) \in EntryType /\ EntryInv(Snapshot(p))
           /\ \/ Snapshot(p) = NoEntry
              \/ /\ Snapshot(p).status = "active" /\ Snapshot(p).ver = job[p].ver
                 /\ Snapshot(p).left = WithinLife(job[p].left) /\ WithinLife(job[p].left) >= 1
<1> DEFINE n == WithinLife(job[p].left)
<1>1. n \in Int /\ n >= 0 /\ n <= TTL /\ job[p].ver \in Nat
  BY JobFields, LifeBounds, StateFields
<1>2. Snapshot(p) = IF n > 0 THEN [status |-> "active", ver |-> job[p].ver, left |-> n] ELSE NoEntry
  BY DEF Snapshot, ActiveLeft
<1> HIDE DEF n
<1>3. CASE n > 0
  BY <1>1, <1>2, <1>3, SessionCacheAssumption DEF EntryType, EntryInv, n
<1>4. CASE ~ n > 0
  BY <1>2, <1>4, NoEntryType
<1> QED BY <1>3, <1>4

(* An entry is stored in one Redis. *)
Stored(c, e) == cache' = [cache EXCEPT ![c] = e] /\ e \in EntryType /\ EntryInv(e)

LEMMA StoredTypes ==
    ASSUME Typed, NEW c \in Caches, NEW e, Stored(c, e)
    PROVE  /\ cache' \in [Caches -> EntryType] /\ \A d \in Caches : EntryInv(cache'[d])
           /\ cache'[c] = e /\ \A d \in Caches : d # c => cache'[d] = cache[d]
BY DEF Typed, Stored

LEMMA FillStores ==
    ASSUME Typed, NEW p \in Procs, Fills(p)
    PROVE  home[p] \in Caches /\ Stored(home[p], Snapshot(p))
BY SnapshotIs, StateFields DEF Fills, Stored

DenyEntry(st, v) == [status |-> st, ver |-> v, left |-> DenyLeft]

LEMMA DenyEntryIs ==
    ASSUME Typed, NEW st \in Deny, NEW v \in Nat
    PROVE  /\ DenyEntry(st, v) \in EntryType /\ EntryInv(DenyEntry(st, v))
           /\ DenyEntry(st, v).status = st /\ DenyEntry(st, v).left = DenyLeft
<1>1. DenyLeft \in 0..TTL /\ DenyLeft >= 1
  BY DenyBounds, StateFields
<1> QED BY <1>1 DEF DenyEntry, EntryType, EntryInv, Deny

LEMMA PutStores ==
    ASSUME Typed, NEW p \in Procs, Puts(p)
    PROVE  \E e : /\ home[p] \in Caches /\ Stored(home[p], e)
                  /\ e.status \in Deny /\ e.left = DenyLeft
<1>1. PICK st \in Deny : PutDeny(p, st, job[p].ver)
  BY DEF Puts
<1>2. home[p] \in Caches /\ job[p].ver \in Nat
  BY StateFields, JobFields
<1>3. Stored(home[p], DenyEntry(st, job[p].ver))
  BY <1>1, <1>2, DenyEntryIs DEF PutDeny, Stored, DenyEntry
<1> QED BY <1>2, <1>3, DenyEntryIs

-----------------------------------------------------------------------------
(* Time *)

TickJob(j, k) ==
    /\ k \in JobType /\ k.op = j.op /\ k.pc = j.pc /\ k.ver = j.ver /\ k.late = j.late
    /\ k.left = Less(j.left)

TickEntry(e, f) ==
    /\ f \in EntryType
    /\ (e.left <= 1 /\ f = NoEntry) \/ (e.left > 1 /\ f.status = e.status /\ f.ver = e.ver /\ f.left = e.left - 1)

LEMMA TickFields ==
    ASSUME Typed, Tick
    PROVE  /\ row' = row /\ home' = home /\ over' = over /\ unfenced' = unfenced /\ leaks' = leaks
           /\ life' = Less(life) /\ life' \in Nat \cup {Endless}
           /\ job' \in [Procs -> JobType] /\ \A p \in Procs : TickJob(job[p], job'[p])
           /\ cache' \in [Caches -> EntryType] /\ \A c \in Caches : TickEntry(cache[c], cache'[c])
           /\ gone' = IF row.status = "revoked" /\ gone < TTL THEN gone + 1 ELSE gone
<1>1. row' = row /\ home' = home /\ over' = over /\ unfenced' = unfenced /\ leaks' = leaks
  BY DEF Tick
<1>2. life' = Less(life) /\ life' \in Nat \cup {Endless}
  BY StateFields DEF Tick, Less, Endless
<1>3. ASSUME NEW p \in Procs PROVE TickJob(job[p], job'[p])
  <2>1. job'[p] = IF job[p].left > 0 THEN [job[p] EXCEPT !.left = job[p].left - 1] ELSE job[p]
    BY DEF Tick
  <2>2. job[p] \in JobType /\ (job[p].left > 0 => job[p].left - 1 \in 0..TTL)
    BY JobFields, SessionCacheAssumption
  <2> QED BY <2>1, <2>2 DEF TickJob, JobType, Less
<1>4. job' \in [Procs -> JobType]
  <2>1. job' = [p \in Procs |-> job'[p]]
    BY DEF Tick
  <2> QED BY <1>3, <2>1 DEF TickJob
<1>5. ASSUME NEW c \in Caches PROVE TickEntry(cache[c], cache'[c])
  <2> DEFINE e == cache[c]
  <2>1. cache'[c] = IF e.left = 1 THEN NoEntry ELSE IF e.left > 1 THEN [e EXCEPT !.left = e.left - 1] ELSE e
    BY DEF Tick
  <2>2. e \in EntryType /\ EntryInv(e) /\ e.left \in Int /\ e.left >= 0 /\ e.left <= TTL
    BY EntryFields
  <2> HIDE DEF e
  <2>3. CASE e.left = 0
    BY <2>1, <2>2, <2>3, NoEntryType DEF EntryInv, TickEntry, e
  <2>4. CASE e.left = 1
    BY <2>1, <2>4, NoEntryType DEF TickEntry, e
  <2>5. CASE e.left > 1
    <3>1. e.left - 1 \in 0..TTL
      BY <2>2, <2>5, SessionCacheAssumption
    <3>2. cache'[c] = [e EXCEPT !.left = e.left - 1]
      BY <2>1, <2>2, <2>5
    <3>3. TickEntry(e, cache'[c])
      BY <2>2, <2>5, <3>1, <3>2 DEF TickEntry, EntryType
    <3> QED BY <3>3 DEF e
  <2> QED BY <2>2, <2>3, <2>4, <2>5
<1>6. cache' \in [Caches -> EntryType]
  <2>1. cache' = [c \in Caches |-> cache'[c]]
    BY DEF Tick
  <2> QED BY <1>5, <2>1 DEF TickEntry
<1> QED BY <1>1, <1>2, <1>3, <1>4, <1>5, <1>6 DEF Tick

-----------------------------------------------------------------------------
(* Types *)

LEMMA TypedInit == Init => Typed
<1> SUFFICES ASSUME Init PROVE Typed
  OBVIOUS
<1>1. row \in RowType /\ life \in Nat \cup {Endless} /\ home \in [Procs -> Caches]
      /\ gone \in 0..TTL /\ calm \in 0..TTL
  BY SessionCacheAssumption DEF Init, RowType
<1>2. over \in BOOLEAN
  BY DEF Init
<1>3. cache \in [Caches -> EntryType] /\ \A c \in Caches : EntryInv(cache[c])
  BY NoEntryType DEF Init
<1> DEFINE k == [Rest EXCEPT !.op = "create", !.pc = "fill", !.ver = 1, !.left = TTL]
<1>4. k \in JobType /\ JobInv(k)
  <2>1. TTL \in 0..TTL /\ "create" \in Ops /\ "fill" \in Steps /\ Rest \in JobType
    BY SessionCacheAssumption, RestType DEF Ops, Steps
  <2>2. k \in JobType /\ k.op = "create" /\ k.pc = "fill"
    BY <2>1 DEF JobType
  <2> HIDE DEF k
  <2> QED BY <2>2 DEF JobInv
<1>5. PICK p \in Procs : job = [q \in Procs |-> IF q = p THEN k ELSE Rest]
  BY DEF Init
<1> HIDE DEF k
<1>6. job \in [Procs -> JobType] /\ \A q \in Procs : JobInv(job[q])
  BY <1>4, <1>5, RestType
<1> QED BY <1>1, <1>2, <1>3, <1>6 DEF Typed

LEMMA TypedJob ==
    ASSUME Typed, NEW p \in Procs, Steppings(p)
    PROVE  job' \in [Procs -> JobType] /\ \A q \in Procs : JobInv(job'[q])
<1>1. CASE job' = job
  BY <1>1 DEF Typed
<1>2. ASSUME Others(p), JobInv(job'[p])
      PROVE  job' \in [Procs -> JobType] /\ \A q \in Procs : JobInv(job'[q])
  BY <1>2 DEF Others, Typed
<1>3. CASE Becomes(p, Rest)
  BY <1>2, <1>3, RestType DEF Becomes
<1>4. JobInv(job[p])
  BY DEF Typed
<1>5. CASE Confirms(p) \/ Fills(p)
  BY <1>2, <1>4, <1>5 DEF Confirms, Fills, Moves, Keeps, JobInv, Filling
<1>6. CASE Starts(p)
  BY <1>2, <1>6 DEF Starts, JobInv, Writer
<1>7. CASE Captures(p) \/ Sees(p)
  BY <1>2, <1>4, <1>7 DEF Captures, Sees, Keeps, JobInv
<1>8. CASE Writes(p) \/ Revokes(p)
  BY <1>2, <1>4, <1>8 DEF Writes, Revokes, Keeps, JobInv
<1>9. CASE Puts(p)
  BY <1>2, <1>3, <1>4, <1>9 DEF Puts, Keeps, JobInv
<1> QED BY <1>1, <1>3, <1>5, <1>6, <1>7, <1>8, <1>9
        DEF Steppings, Ends, Stops, Grants, Answers, Hits, Reports

LEMMA TypedRow ==
    ASSUME Typed, NEW p \in Procs, Steppings(p)
    PROVE  /\ row' \in RowType /\ life' = life /\ home' = home
           /\ gone' = gone /\ calm' \in {0, calm}
           /\ over' \in {over, over \/ row.status = "revoked"}
<1>1. row \in RowType
  BY DEF Typed
<1>2. CASE Revokes(p)
  BY <1>1, <1>2 DEF Revokes, RowType
<1>3. CASE Puts(p)
  BY <1>1, <1>3 DEF Puts
<1>4. CASE Writes(p) \/ Fills(p) \/ Reports(p)
  BY <1>1, <1>4 DEF Writes, Fills, Reports
<1>5. CASE Ends(p) \/ Grants(p) \/ Hits(p) \/ Confirms(p) \/ Starts(p) \/ Captures(p) \/ Sees(p)
  BY <1>1, <1>5 DEF Ends, Grants, Hits, Confirms, Starts, Captures, Sees, Still
<1> QED BY <1>2, <1>3, <1>4, <1>5 DEF Steppings

(* A step stores nothing, a snapshot or an entry that denies. *)
LEMMA StepStores ==
    ASSUME NEW p \in Procs, Steppings(p)
    PROVE  cache' = cache \/ Fills(p) \/ Puts(p)
BY DEF Steppings, Ends, Grants, Hits, Confirms, Starts, Captures, Sees, Still, Writes, Revokes, Reports

LEMMA TypedStep == Typed /\ [Next]_vars => Typed'
<1> SUFFICES ASSUME Typed, [Next]_vars PROVE Typed'
  OBVIOUS
<1>1. ASSUME NEW p \in Procs, Steppings(p) PROVE Typed'
  <2>1. cache' \in [Caches -> EntryType] /\ \A c \in Caches : EntryInv(cache'[c])
    <3>1. CASE cache' = cache
      BY <3>1 DEF Typed
    <3>2. CASE Fills(p)
      BY <3>2, FillStores, StoredTypes
    <3>3. CASE Puts(p)
      BY <3>3, PutStores, StoredTypes
    <3> QED BY <1>1, <3>1, <3>2, <3>3, StepStores
  <2>2. over' \in BOOLEAN
    <3>1. over' \in {over, over \/ row.status = "revoked"} /\ over \in BOOLEAN
      BY <1>1, TypedRow DEF Typed
    <3> QED BY <3>1, Zenon
  <2>3. gone' \in 0..TTL /\ calm' \in 0..TTL /\ row' \in RowType /\ life' \in Nat \cup {Endless}
        /\ home' \in [Procs -> Caches]
    BY <1>1, TypedRow, SessionCacheAssumption DEF Typed
  <2> QED BY <1>1, <2>1, <2>2, <2>3, TypedJob DEF Typed
<1>2. CASE Tick
  <2>1. gone' \in 0..TTL /\ calm' \in 0..TTL
    BY <1>2, StateFields, SessionCacheAssumption DEF Tick
  <2>2. \A p \in Procs : JobInv(job'[p])
    BY <1>2, TickFields, JobFields DEF TickJob, JobInv
  <2>3. \A c \in Caches : EntryInv(cache'[c])
    <3> SUFFICES ASSUME NEW c \in Caches PROVE EntryInv(cache'[c])
      OBVIOUS
    <3>1. TickEntry(cache[c], cache'[c]) /\ EntryInv(cache[c]) /\ cache[c].left \in Int
      BY <1>2, TickFields, EntryFields
    <3>2. CASE cache'[c] = NoEntry
      BY <3>2, NoEntryType
    <3>3. CASE cache[c].left > 1 /\ cache'[c].status = cache[c].status /\ cache'[c].left = cache[c].left - 1
      <4>1. cache[c].status # "none"
        BY <3>1, <3>3, NoEntryType DEF EntryInv
      <4> QED BY <3>1, <3>3, <4>1 DEF EntryInv
    <3> QED BY <3>1, <3>2, <3>3 DEF TickEntry
  <2>4. over' \in BOOLEAN /\ row' \in RowType /\ home' \in [Procs -> Caches]
    BY <1>2, TickFields, Zenon DEF Typed
  <2> QED BY <1>2, <2>1, <2>2, <2>3, <2>4, TickFields DEF Typed
<1>3. CASE UNCHANGED vars
  BY <1>3, Zenon DEF vars, Typed
<1> QED BY <1>1, <1>2, <1>3, StepKinds

-----------------------------------------------------------------------------
(* Disagreement fades: Calm *)

(* The session is never usable again. *)
LEMMA UsableBefore ==
    ASSUME Typed, [Next]_vars, Usable'
    PROVE  Usable
<1> USE DEF Usable, Alive
<1>1. ASSUME NEW p \in Procs, Steppings(p) PROVE Usable
  <2>1. CASE Revokes(p)
    BY <2>1 DEF Revokes
  <2>2. CASE Writes(p)
    BY <2>2 DEF Writes
  <2>3. CASE row' = row /\ life' = life
    BY <2>3
  <2> QED BY <1>1, <2>1, <2>2, <2>3
          DEF Steppings, Ends, Grants, Hits, Confirms, Starts, Captures, Sees, Still, Fills, Puts, Reports
<1>2. CASE Tick
  BY <1>2, TickFields, StateFields DEF Less, Endless
<1>3. CASE UNCHANGED vars
  BY <1>3 DEF vars
<1> QED BY <1>1, <1>2, <1>3, StepKinds

LEMMA CalmInit == Init => Calm
<1> SUFFICES ASSUME Init PROVE Calm
  OBVIOUS
<1>1. PICK p \in Procs : job = [q \in Procs |->
          IF q = p THEN [Rest EXCEPT !.op = "create", !.pc = "fill", !.ver = 1, !.left = TTL] ELSE Rest]
  BY DEF Init
<1>2. \A q \in Procs : job[q].pc # "deny" /\ (job[q].pc \in Filling => job[q].ver = 1)
  BY <1>1 DEF Rest, Filling
<1>3. calm = 0 /\ row.ver = 1 /\ \A c \in Caches : cache[c] = NoEntry
  BY DEF Init
<1> QED BY <1>2, <1>3 DEF Calm, CalmJob, CalmEntry

LEMMA CalmWriters ==
    ASSUME Typed, Calm, NEW p \in Procs, Steppings(p)
    PROVE  \A q \in Procs : Writer(job'[q]) => calm' = 0
<1>1. calm' \in {0, calm}
  BY TypedRow
<1>2. ASSUME Others(p), Writer(job'[p]) => Writer(job[p]) \/ calm' = 0
      PROVE  \A q \in Procs : Writer(job'[q]) => calm' = 0
  BY <1>1, <1>2 DEF Others, Calm
<1>3. CASE job' = job
  BY <1>1, <1>3 DEF Calm
<1>4. CASE Becomes(p, Rest)
  BY <1>2, <1>4, RestType DEF Becomes, Writer
<1>5. CASE Others(p) /\ Keeps(p)
  BY <1>2, <1>5 DEF Keeps, Writer
<1>6. CASE Starts(p)
  BY <1>2, <1>6 DEF Starts, Writer
<1> QED BY <1>3, <1>4, <1>5, <1>6
        DEF Steppings, Ends, Stops, Grants, Answers, Hits, Reports, Confirms, Moves, Captures, Sees,
            Writes, Fills, Puts, Revokes

LEMMA CalmDeny ==
    ASSUME Typed, Calm, [Next]_vars, NEW p \in Procs, Steppings(p)
    PROVE  \A q \in Procs : job'[q].pc = "deny" => ~ Usable'
<1> SUFFICES ASSUME NEW q \in Procs, job'[q].pc = "deny" PROVE ~ Usable
  BY UsableBefore
<1>1. CASE q = p
  BY <1>1, RestType
     DEF Calm, Steppings, Ends, Stops, Grants, Answers, Hits, Reports, Becomes, Confirms, Moves, Starts,
         Captures, Sees, Writes, Fills, Puts, Revokes
<1>2. CASE q # p
  BY <1>2
     DEF Calm, Steppings, Ends, Stops, Grants, Answers, Hits, Reports, Becomes, Others, Confirms, Moves,
         Starts, Captures, Sees, Writes, Fills, Puts, Revokes
<1> QED BY <1>1, <1>2

(* Where a writer is at work nothing is asked of snapshots. *)
LEMMA CalmIsZero ==
    ASSUME Typed', calm' = 0
    PROVE  (\A p \in Procs : CalmJob(job[p])') /\ (\A c \in Caches : CalmEntry(cache[c])')
<1>1. ASSUME NEW p \in Procs PROVE job'[p].left \in Int /\ job'[p].left <= TTL
  <2>1. job'[p] \in JobType
    BY DEF Typed
  <2> QED BY <2>1, SessionCacheAssumption DEF JobType
<1>2. ASSUME NEW c \in Caches PROVE cache'[c].left \in Int /\ cache'[c].left <= TTL
  <2>1. cache'[c] \in EntryType
    BY DEF Typed
  <2> QED BY <2>1, SessionCacheAssumption DEF EntryType
<1> QED BY <1>1, <1>2 DEF CalmJob, CalmEntry

LEMMA CalmSnapshots ==
    ASSUME Typed, Calm, [Next]_vars, NEW p \in Procs, Steppings(p), Usable'
    PROVE  (\A q \in Procs : CalmJob(job[q])') /\ (\A c \in Caches : CalmEntry(cache[c])')
<1>1. Typed' /\ Usable /\ calm' \in {0, calm}
  BY TypedStep, UsableBefore, TypedRow
<1>2. CASE calm' = 0
  BY <1>1, <1>2, CalmIsZero
<1>3. CASE calm' # 0
  <2>1. ~ Writer(job[p]) /\ calm' = calm
    BY <1>1, <1>3 DEF Calm
  <2>2. job[p].pc \notin {"rotate", "advance", "fence", "revoke", "tombstone"}
    BY <2>1, JobFields DEF JobInv, Writer
  <2>3. ~ Writes(p) /\ ~ Puts(p) /\ ~ Revokes(p) /\ row' = row
    <3>1. ~ Writes(p) /\ ~ Puts(p) /\ ~ Revokes(p)
      BY <1>1, <2>2 DEF Writes, Puts, Revokes, Calm
    <3> QED BY <3>1 DEF Steppings, Ends, Grants, Hits, Confirms, Starts, Captures, Sees, Still, Fills, Reports
  <2>4. ASSUME NEW q \in Procs PROVE CalmJob(job[q])'
    <3>1. CalmJob(job[q])
      BY <1>1 DEF Calm
    <3>2. CASE job'[q].pc \notin Filling
      BY <3>2 DEF CalmJob
    <3>3. CASE job'[q] = job[q]
      BY <2>1, <2>3, <3>1, <3>3 DEF CalmJob
    <3>4. CASE q # p
      BY <3>3, <3>4 DEF Steppings, Ends, Stops, Grants, Answers, Hits, Reports, Becomes, Others, Confirms, Moves,
                        Starts, Captures, Sees, Writes, Fills, Puts, Revokes
    <3>5. CASE Fills(p) /\ q = p
      BY <2>1, <2>3, <3>1, <3>5 DEF Fills, Moves, CalmJob, Filling
    <3>6. CASE Sees(p) /\ q = p
      BY <2>3, <3>6 DEF Sees, CalmJob
    <3>7. CASE Becomes(p, Rest) /\ q = p
      BY <3>2, <3>7, RestType DEF Becomes, Filling
    <3>8. CASE (Confirms(p) \/ Starts(p) \/ Captures(p)) /\ q = p
      BY <3>2, <3>8 DEF Confirms, Moves, Starts, Captures, Filling
    <3> QED BY <2>3, <3>3, <3>4, <3>5, <3>6, <3>7, <3>8
            DEF Steppings, Ends, Stops, Grants, Answers, Hits, Reports
  <2>5. ASSUME NEW c \in Caches PROVE CalmEntry(cache[c])'
    <3>1. CalmEntry(cache[c])
      BY <1>1 DEF Calm
    <3>2. CASE cache'[c] = cache[c]
      BY <2>1, <2>3, <3>1, <3>2 DEF CalmEntry
    <3>3. CASE Fills(p) /\ c = home[p]
      <4>1. cache'[c] = Snapshot(p)
        BY <3>3, FillStores, StoredTypes
      <4>2. CASE Snapshot(p) = NoEntry
        BY <4>1, <4>2 DEF CalmEntry
      <4>3. CASE /\ Snapshot(p).status = "active" /\ Snapshot(p).ver = job[p].ver
                 /\ Snapshot(p).left = WithinLife(job[p].left)
        <5>1. job[p].ver = row.ver \/ job[p].left + calm <= TTL
          BY <1>1, <3>3 DEF Calm, CalmJob, Fills, Filling
        <5>2. CASE job[p].ver = row.ver
          BY <2>3, <4>1, <4>3, <5>2 DEF CalmEntry
        <5>3. CASE job[p].left + calm <= TTL
          <6>1. /\ WithinLife(job[p].left) \in Int /\ WithinLife(job[p].left) <= job[p].left
                /\ job[p].left \in Int /\ calm \in Int
            BY JobFields, StateFields, LifeBounds
          <6>2. cache'[c].left + calm' <= TTL
            BY <2>1, <4>1, <4>3, <5>3, <6>1, SessionCacheAssumption
          <6> QED BY <6>2 DEF CalmEntry
        <5> QED BY <5>1, <5>2, <5>3
      <4> QED BY <4>2, <4>3, SnapshotIs
    <3>4. CASE Fills(p) /\ c # home[p]
      BY <3>2, <3>4, FillStores, StoredTypes
    <3> QED BY <2>3, <3>2, <3>3, <3>4, StepStores
  <2> QED BY <2>4, <2>5
<1> QED BY <1>2, <1>3

LEMMA CalmTick ==
    ASSUME Typed, Calm, Tick, [Next]_vars
    PROVE  Calm'
<1>1. /\ row' = row /\ Typed'
      /\ \A p \in Procs : TickJob(job[p], job'[p])
      /\ \A c \in Caches : TickEntry(cache[c], cache'[c])
  BY TickFields, TypedStep
<1>2. calm' = IF \E p \in Procs : Writer(job[p]) THEN 0 ELSE IF calm < TTL THEN calm + 1 ELSE calm
  BY DEF Tick, Writer
<1>3. \A p \in Procs : Writer(job'[p]) <=> Writer(job[p])
  BY <1>1 DEF TickJob, Writer
<1>4. \A p \in Procs : Writer(job'[p]) => calm' = 0
  BY <1>2, <1>3
<1>5. \A p \in Procs : job'[p].pc = "deny" => ~ Usable'
  BY <1>1, UsableBefore DEF TickJob, Calm
<1>6. ASSUME Usable' PROVE (\A p \in Procs : CalmJob(job[p])') /\ (\A c \in Caches : CalmEntry(cache[c])')
  <2>1. CASE calm' = 0
    BY <1>1, <2>1, CalmIsZero
  <2>2. CASE calm' # 0
    <3>1. calm' <= calm + 1 /\ calm' <= TTL /\ calm' \in Int /\ calm \in Int
      BY <1>2, <2>2, StateFields, SessionCacheAssumption
    <3>2. ASSUME NEW p \in Procs PROVE CalmJob(job[p])'
      <4>1. CalmJob(job[p]) /\ TickJob(job[p], job'[p]) /\ job[p].left \in Int /\ job[p].left >= 0
        BY <1>1, <1>6, UsableBefore, JobFields DEF Calm
      <4>2. job[p].left + calm <= TTL => Less(job[p].left) + calm' <= TTL
        BY <3>1, <4>1, SessionCacheAssumption DEF Less
      <4> QED BY <1>1, <4>1, <4>2 DEF CalmJob, TickJob
    <3>3. ASSUME NEW c \in Caches PROVE CalmEntry(cache[c])'
      <4>1. CalmEntry(cache[c]) /\ TickEntry(cache[c], cache'[c]) /\ cache[c].left \in Int
        BY <1>1, <1>6, UsableBefore, EntryFields DEF Calm
      <4>2. CASE cache'[c] = NoEntry
        BY <4>2 DEF CalmEntry
      <4>3. CASE /\ cache[c].left > 1 /\ cache'[c].status = cache[c].status
                 /\ cache'[c].ver = cache[c].ver /\ cache'[c].left = cache[c].left - 1
        <5>1. cache[c].left + calm <= TTL => cache'[c].left + calm' <= TTL
          BY <3>1, <4>1, <4>3, SessionCacheAssumption
        <5>2. cache[c] # NoEntry
          BY <4>3, NoEntryType
        <5> QED BY <1>1, <4>1, <4>3, <5>1, <5>2 DEF CalmEntry
      <4> QED BY <4>1, <4>2, <4>3 DEF TickEntry
    <3> QED BY <3>2, <3>3
  <2> QED BY <2>1, <2>2
<1> QED BY <1>4, <1>5, <1>6 DEF Calm

LEMMA CalmStep == Typed /\ Calm /\ [Next]_vars => Calm'
<1> SUFFICES ASSUME Typed, Calm, [Next]_vars PROVE Calm'
  OBVIOUS
<1>1. ASSUME NEW p \in Procs, Steppings(p) PROVE Calm'
  <2>1. \A q \in Procs : Writer(job'[q]) => calm' = 0
    BY <1>1, CalmWriters
  <2>2. \A q \in Procs : job'[q].pc = "deny" => ~ Usable'
    BY <1>1, CalmDeny
  <2>3. Usable' => (\A q \in Procs : CalmJob(job[q])') /\ (\A c \in Caches : CalmEntry(cache[c])')
    BY <1>1, CalmSnapshots
  <2> QED BY <2>1, <2>2, <2>3 DEF Calm
<1>2. CASE UNCHANGED vars
  BY <1>2 DEF vars, Calm, CalmJob, CalmEntry, Usable, Alive
<1> QED BY <1>1, <1>2, CalmTick, StepKinds

(* A deny tombstone that no revocation stands behind, and a snapshot of a version the row
   has left, are gone a TTL after the last rotation, advance or revocation, however many
   requests, Redis instances and faults there are: what is in Redis then agrees with a
   usable row (writeUserSessionCache, writeUserSessionDenyFence).  Nothing is assumed. *)
THEOREM DisagreementFades == Spec => []CalmCacheAgrees
<1>1. Init => Typed /\ Calm
  BY TypedInit, CalmInit
<1>2. Typed /\ Calm /\ [Next]_vars => Typed' /\ Calm'
  BY TypedStep, CalmStep
<1>3. Typed /\ Calm => CalmCacheAgrees
  <2> SUFFICES ASSUME Typed, Calm, calm = TTL, Usable, NEW c \in Caches
               PROVE  cache[c] = NoEntry \/ (cache[c].status = "active" /\ cache[c].ver = row.ver)
    BY DEF CalmCacheAgrees
  <2>1. CalmEntry(cache[c]) /\ EntryInv(cache[c]) /\ cache[c].left \in Int /\ cache[c].left >= 0
    BY EntryFields DEF Calm
  <2>2. cache[c].left + calm <= TTL => cache[c].left = 0
    BY <2>1, SessionCacheAssumption
  <2> QED BY <2>1, <2>2 DEF CalmEntry, EntryInv
<1> QED BY <1>1, <1>2, <1>3, PTL DEF Spec

-----------------------------------------------------------------------------
(* Snapshots age: Aged *)

(* Where a request can be after a step of p. *)
LEMMA FillingBefore ==
    ASSUME NEW p \in Procs, Steppings(p), NEW q \in Procs, job'[q].pc \in Filling
    PROVE  \/ job[q].pc \in Filling /\ job'[q].left = job[q].left /\ job'[q].late = job[q].late
              /\ (job'[q].pc = "fill" => job[q].pc = "fill")
           \/ q = p /\ Usable /\ (Sees(p) \/ Writes(p))
<1>1. CASE q # p
  BY <1>1 DEF Steppings, Ends, Stops, Grants, Answers, Hits, Reports, Becomes, Others, Confirms, Moves,
              Starts, Captures, Sees, Writes, Fills, Puts, Revokes
<1>2. CASE q = p /\ Becomes(p, Rest)
  BY <1>2, RestType DEF Becomes, Filling
<1>3. CASE q = p /\ ~ Becomes(p, Rest)
  BY <1>3 DEF Steppings, Ends, Stops, Grants, Answers, Hits, Reports, Confirms, Moves, Keeps,
              Starts, Captures, Sees, Writes, Fills, Puts, Revokes, Filling
<1> QED BY <1>1, <1>2, <1>3

(* An active entry after a step was there before, or is the snapshot of p. *)
LEMMA ActiveBefore ==
    ASSUME Typed, NEW p \in Procs, Steppings(p), NEW c \in Caches, cache'[c].status = "active"
    PROVE  \/ cache'[c] = cache[c]
           \/ /\ Fills(p) /\ c = home[p] /\ job[p].pc = "fill"
              /\ cache'[c].left = WithinLife(job[p].left) /\ WithinLife(job[p].left) >= 1
<1>1. CASE Fills(p)
  <2>1. CASE c = home[p]
    <3>1. cache'[c] = Snapshot(p)
      BY <1>1, <2>1, FillStores, StoredTypes
    <3>2. Snapshot(p) # NoEntry
      BY <3>1, NoEntryType
    <3> QED BY <1>1, <2>1, <3>1, <3>2, SnapshotIs DEF Fills
  <2>2. CASE c # home[p]
    BY <1>1, <2>2, FillStores, StoredTypes
  <2> QED BY <2>1, <2>2
<1>2. CASE Puts(p)
  <2>1. PICK e : home[p] \in Caches /\ Stored(home[p], e) /\ e.status \in Deny
    BY <1>2, PutStores
  <2>2. c # home[p]
    BY <2>1, StoredTypes DEF Deny
  <2> QED BY <2>1, <2>2, StoredTypes
<1> QED BY <1>1, <1>2, StepStores

LEMMA LeaksChange ==
    ASSUME NEW p \in Procs, Steppings(p)
    PROVE  leaks' = leaks \/ Grants(p) \/ Hits(p)
BY DEF Steppings, Ends, Stops, Confirms, Moves, Starts, Captures, Sees, Writes, Fills, Puts, Revokes, Reports

(* The row is revoked for good, and only by Revokes. *)
LEMMA RevokedBefore ==
    ASSUME NEW p \in Procs, Steppings(p)
    PROVE  row'.status = row.status \/ Revokes(p)
BY DEF Steppings, Ends, Grants, Hits, Confirms, Starts, Captures, Sees, Still, Writes, Fills, Puts, Reports

LEMMA AgedInit == Init => Aged
BY DEF Init, Aged, BoundedStaleness

LEMMA AgedStepping ==
    ASSUME "fill" \notin Faulty, Typed, Aged, [Next]_vars, NEW p \in Procs, Steppings(p)
    PROVE  Aged'
<1>1. gone' = gone /\ Typed'
  BY TypedRow, TypedStep
<1>2. row'.status = "active" => gone' = 0
  <2>1. CASE Revokes(p)
    BY <2>1, StateFields DEF Revokes, Typed, RowType
  <2>2. CASE row'.status = row.status
    BY <1>1, <2>2 DEF Aged
  <2> QED BY <2>1, <2>2, RevokedBefore
<1>3. ASSUME row'.status = "revoked", NEW q \in Procs, job'[q].pc \in Filling
      PROVE  job'[q].left + gone' <= TTL
  <2>1. job'[q].left \in Int /\ job'[q].left <= TTL
    <3>1. job'[q] \in JobType
      BY <1>1 DEF Typed
    <3> QED BY <3>1, SessionCacheAssumption DEF JobType
  <2>2. CASE row.status = "active"
    BY <1>1, <2>1, <2>2 DEF Aged
  <2>3. CASE row.status = "revoked"
    BY <1>1, <1>3, <2>3, FillingBefore DEF Aged, Usable
  <2> QED BY <2>2, <2>3, StateFields
<1>4. ASSUME row'.status = "revoked", NEW c \in Caches, cache'[c].status = "active"
      PROVE  cache'[c].left + gone' <= TTL
  <2>1. cache'[c].left \in Int /\ cache'[c].left <= TTL
    <3>1. cache'[c] \in EntryType
      BY <1>1 DEF Typed
    <3> QED BY <3>1, SessionCacheAssumption DEF EntryType
  <2>2. CASE row.status = "active"
    BY <1>1, <2>1, <2>2 DEF Aged
  <2>3. CASE row.status = "revoked" /\ cache'[c] = cache[c]
    BY <1>1, <1>4, <2>3 DEF Aged
  <2>4. CASE row.status = "revoked" /\ job[p].pc = "fill" /\ cache'[c].left = WithinLife(job[p].left)
    <3>1. job[p].left + gone <= TTL
      BY <2>4 DEF Aged, Filling
    <3>2. /\ WithinLife(job[p].left) \in Int /\ WithinLife(job[p].left) <= job[p].left
          /\ job[p].left \in Int /\ gone \in Int
      BY JobFields, StateFields, LifeBounds
    <3> QED BY <1>1, <2>4, <3>1, <3>2, SessionCacheAssumption
  <2> QED BY <1>4, <2>2, <2>3, <2>4, StateFields, ActiveBefore
<1>5. BoundedStaleness'
  <2>1. CASE leaks' = leaks
    BY <2>1 DEF Aged, BoundedStaleness
  <2>2. CASE Grants(p)
    <3>1. gone # TTL
      <4>1. CASE job[p].pc = "complete" /\ job[p].left > 0
        BY <4>1, JobFields, StateFields, SessionCacheAssumption DEF Aged, Filling
      <4>2. CASE Usable
        BY <4>2, SessionCacheAssumption DEF Aged, Usable
      <4> QED BY <2>2, <4>1, <4>2 DEF Grants
    <3>2. leaks' = leaks \cup Leaks("granted", job[p].late)
      BY <2>2 DEF Grants, Answers
    <3> QED BY <3>1, <3>2 DEF Leaks, Aged, BoundedStaleness
  <2>3. CASE Hits(p)
    <3>1. home[p] \in Caches /\ cache[home[p]].status = "active"
      BY <2>3, StateFields DEF Hits
    <3>2. cache[home[p]].left >= 1 /\ cache[home[p]].left \in Int
      BY <3>1, EntryFields, NoEntryType DEF EntryInv
    <3>3. gone # TTL
      BY <3>1, <3>2, StateFields, SessionCacheAssumption DEF Aged
    <3>4. leaks' = leaks \cup Leaks("granted", over)
      BY <2>3 DEF Hits
    <3> QED BY <3>3, <3>4 DEF Leaks, Aged, BoundedStaleness
  <2> QED BY <2>1, <2>2, <2>3, LeaksChange
<1> QED BY <1>2, <1>3, <1>4, <1>5 DEF Aged

LEMMA AgedTick ==
    ASSUME Typed, Aged, Tick
    PROVE  Aged'
<1>1. row' = row /\ leaks' = leaks
      /\ gone' = IF row.status = "revoked" /\ gone < TTL THEN gone + 1 ELSE gone
  BY TickFields
<1>2. gone \in Int /\ gone <= TTL /\ gone' <= TTL /\ gone' <= gone + 1 /\ gone' \in Int
  BY <1>1, StateFields, SessionCacheAssumption
<1>3. row'.status = "active" => gone' = 0
  BY <1>1 DEF Aged
<1>4. ASSUME row'.status = "revoked", NEW q \in Procs, job'[q].pc \in Filling
      PROVE  job'[q].left + gone' <= TTL
  <2>1. job'[q].pc = job[q].pc /\ job'[q].left = Less(job[q].left) /\ job[q].left \in Int /\ job[q].left >= 0
    BY TickFields, JobFields DEF TickJob
  <2>2. job[q].left + gone <= TTL
    BY <1>1, <1>4, <2>1 DEF Aged
  <2> QED BY <1>2, <2>1, <2>2, SessionCacheAssumption DEF Less
<1>5. ASSUME row'.status = "revoked", NEW c \in Caches, cache'[c].status = "active"
      PROVE  cache'[c].left + gone' <= TTL
  <2>1. cache[c].status = "active" /\ cache'[c].left = cache[c].left - 1 /\ cache[c].left \in Int
    BY <1>5, TickFields, EntryFields, NoEntryType DEF TickEntry
  <2>2. cache[c].left + gone <= TTL
    BY <1>1, <1>5, <2>1 DEF Aged
  <2> QED BY <1>2, <2>1, <2>2, SessionCacheAssumption
<1> QED BY <1>1, <1>3, <1>4, <1>5 DEF Aged, BoundedStaleness

LEMMA AgedStep == "fill" \notin Faulty /\ Typed /\ Aged /\ [Next]_vars => Aged'
<1> SUFFICES ASSUME "fill" \notin Faulty, Typed, Aged, [Next]_vars PROVE Aged'
  OBVIOUS
<1>1. CASE UNCHANGED vars
  BY <1>1 DEF vars, Aged, BoundedStaleness
<1> QED BY <1>1, AgedStepping, AgedTick, StepKinds

(* A session revoked in the database is accepted for less than one TTL, with any number of
   Redis instances, whatever fails in the revocation and however long a snapshot is on its
   way: what is left of the observation window when it is written is all it gets
   (writeUserSessionCache).  The write of a snapshot must not fail: the request it belongs
   to is answered as if the deadline had been kept. *)
THEOREM StalenessIsBounded ==
    ASSUME "fill" \notin Faulty
    PROVE  Spec => []BoundedStaleness
<1>1. Init => Typed /\ Aged
  BY TypedInit, AgedInit
<1>2. Typed /\ Aged /\ [Next]_vars => Typed' /\ Aged'
  BY TypedStep, AgedStep
<1>3. Aged => BoundedStaleness
  BY DEF Aged
<1> QED BY <1>1, <1>2, <1>3, PTL DEF Spec

-----------------------------------------------------------------------------
(* The tombstone outlasts what is on its way: Covered *)

LEMMA LateBefore ==
    ASSUME NEW p \in Procs, Steppings(p), NEW q \in Procs, job'[q].late
    PROVE  job[q].late \/ (q = p /\ Starts(p) /\ over)
<1>1. CASE q # p
  BY <1>1 DEF Steppings, Ends, Stops, Grants, Answers, Hits, Reports, Becomes, Others, Confirms, Moves,
              Starts, Captures, Sees, Writes, Fills, Puts, Revokes
<1>2. CASE q = p /\ Becomes(p, Rest)
  BY <1>2, RestType DEF Becomes
<1>3. CASE q = p /\ (Starts(p) \/ Keeps(p) \/ job' = job)
  BY <1>3 DEF Starts, Keeps
<1> QED BY <1>1, <1>2, <1>3 DEF Steppings, Ends, Stops, Grants, Answers, Hits, Reports, Confirms, Moves,
                                 Captures, Sees, Writes, Fills, Puts, Revokes

LEMMA RevokingBefore ==
    ASSUME NEW p \in Procs, Steppings(p), NEW q \in Procs, job'[q].pc \in Revoking
    PROVE  \/ job[q].pc \in Revoking /\ job'[q].left = job[q].left
           \/ q = p /\ Puts(p) /\ job'[q].left = TTL
<1>1. CASE q # p
  BY <1>1 DEF Steppings, Ends, Stops, Grants, Answers, Hits, Reports, Becomes, Others, Confirms, Moves,
              Starts, Captures, Sees, Writes, Fills, Puts, Revokes
<1>2. CASE q = p /\ Becomes(p, Rest)
  BY <1>2, RestType DEF Becomes, Revoking
<1>3. CASE q = p /\ ~ Becomes(p, Rest)
  BY <1>3 DEF Steppings, Ends, Stops, Grants, Answers, Hits, Reports, Confirms, Moves,
              Starts, Captures, Sees, Writes, Fills, Puts, Revokes, Revoking
<1> QED BY <1>1, <1>2, <1>3

LEMMA UnfencedBefore ==
    ASSUME NEW p \in Procs, Steppings(p)
    PROVE  unfenced' = unfenced \/ unfenced'
BY DEF Steppings, Ends, Grants, Hits, Confirms, Starts, Captures, Sees, Still, Writes, Fills, Puts, Revokes, Reports

(* A revocation that is about to leave its tombstone stays there, leaves it or fails to. *)
LEMMA TombstoneNext ==
    ASSUME NEW p \in Procs, Steppings(p), NEW q \in Procs, job[q].pc = "tombstone"
    PROVE  job'[q].pc = "tombstone" \/ Puts(p) \/ unfenced'
<1>1. CASE q # p
  BY <1>1 DEF Steppings, Ends, Stops, Grants, Answers, Hits, Reports, Becomes, Others, Confirms, Moves,
              Starts, Captures, Sees, Writes, Fills, Puts, Revokes
<1>2. CASE q = p
  BY <1>2 DEF Steppings, Grants, Hits, Reports, Confirms, Starts, Captures, Sees, Writes, Fills, Revokes, Filling
<1> QED BY <1>1, <1>2

(* With one Redis everybody meets the entry p has put there. *)
LEMMA PutCovers ==
    ASSUME Typed, Typed', OneHome, NEW p \in Procs, Puts(p), NEW q \in Procs
    PROVE  LET e == cache'[home[q]] IN
           e.status \in Deny /\ \A n \in 0..TTL : WithinLife(n)' <= e.left
<1>1. PICK e : home[p] \in Caches /\ Stored(home[p], e) /\ e.status \in Deny /\ e.left = DenyLeft
  BY PutStores
<1>2. home[q] = home[p] /\ life' = life
  BY DEF OneHome, Puts
<1>3. cache'[home[q]] = e
  BY <1>1, <1>2, StoredTypes
<1>4. \A n \in 0..TTL : WithinLife(n)' = WithinLife(n)
  BY <1>2 DEF WithinLife
<1>5. \A n \in 0..TTL : WithinLife(n) <= DenyLeft
  BY DenyBounds, StateFields
<1> QED BY <1>1, <1>3, <1>4, <1>5

LEMMA CoveredInit == Init => Covered
<1> SUFFICES ASSUME Init PROVE Covered
  OBVIOUS
<1>1. PICK p \in Procs : job = [q \in Procs |->
          IF q = p THEN [Rest EXCEPT !.op = "create", !.pc = "fill", !.ver = 1, !.left = TTL] ELSE Rest]
  BY DEF Init
<1>2. \A q \in Procs : job[q].late = FALSE /\ job[q].pc \notin Revoking
  BY <1>1 DEF Rest, Revoking
<1>3. row.status = "active" /\ over = FALSE /\ leaks = {}
  BY DEF Init
<1> QED BY <1>2, <1>3 DEF Covered, RevokedStaysOut

LEMMA CoveredOver ==
    ASSUME Typed, Covered, NEW p \in Procs, Steppings(p)
    PROVE  /\ over' => row'.status = "revoked"
           /\ over => over'
           /\ \A q \in Procs : job'[q].late => over' /\ job'[q].pc \notin Filling
<1>1. over' \in {over, over \/ row.status = "revoked"}
  BY TypedRow
<1>2. (over => over') /\ (over' => over \/ row.status = "revoked")
  BY <1>1, Zenon
<1>3. row.status = "revoked" => row'.status = "revoked"
  BY RevokedBefore DEF Revokes, Usable
<1>4. over' => row'.status = "revoked"
  BY <1>2, <1>3 DEF Covered
<1>5. ASSUME NEW q \in Procs, job'[q].late PROVE over' /\ job'[q].pc \notin Filling
  <2>1. CASE q = p /\ Starts(p) /\ over
    BY <1>2, <2>1 DEF Starts, Filling
  <2>2. CASE job[q].late
    <3>1. over /\ job[q].pc \notin Filling /\ ~ Usable
      BY <2>2 DEF Covered, Usable
    <3> QED BY <1>2, <3>1, FillingBefore
  <2> QED BY <1>5, <2>1, <2>2, LateBefore
<1> QED BY <1>2, <1>4, <1>5

LEMMA CoveredFences ==
    ASSUME Typed, Typed', Covered, OneHome, life # 0, NEW p \in Procs, Steppings(p),
           NEW q \in Procs, job'[q].pc \in Revoking
    PROVE  Fences(cache[home[q]], job[q])'
<1>1. life' = life /\ home' = home
  BY TypedRow
<1>2. job'[q].left \in 0..TTL
  <2>1. job'[q] \in JobType
    BY DEF Typed
  <2> QED BY <2>1 DEF JobType
<1>3. job'[q].left >= 1
  BY RevokingBefore, SessionCacheAssumption DEF Covered, Fences
<1>4. CASE Puts(p)
  BY <1>1, <1>2, <1>3, <1>4, PutCovers DEF Fences
<1>5. CASE ~ Puts(p)
  <2>1. job[q].pc \in Revoking /\ job'[q].left = job[q].left
    BY <1>5, RevokingBefore
  <2>2. Fences(cache[home[q]], job[q])
    BY <2>1 DEF Covered
  <2>3. ~ Fills(p)
    <3>1. home[p] = home[q]
      BY DEF OneHome
    <3> QED BY <2>2, <3>1 DEF Fills, Refuses, Fences
  <2>4. cache' = cache
    BY <1>5, <2>3, StepStores
  <2> QED BY <1>1, <2>1, <2>2, <2>4 DEF Fences, WithinLife
<1> QED BY <1>4, <1>5

LEMMA CoveredOutlasts ==
    ASSUME Typed, Typed', Covered, OneHome, life # 0, NEW p \in Procs, Steppings(p),
           ~ unfenced', row'.status = "revoked"
    PROVE  \/ \E q \in Procs : job'[q].pc = "tombstone"
           \/ \A q \in Procs : Outlasts(cache[home[q]], job[q])'
<1>1. life' = life /\ home' = home
  BY TypedRow
<1>2. \A q \in Procs : job'[q].left \in 0..TTL
  <2> TAKE q \in Procs
  <2>1. job'[q] \in JobType
    BY DEF Typed
  <2> QED BY <2>1 DEF JobType
<1>3. CASE Revokes(p)
  BY <1>3 DEF Revokes
<1>4. CASE Puts(p)
  BY <1>1, <1>2, <1>4, PutCovers DEF Outlasts, Deny
<1>5. CASE ~ Revokes(p) /\ ~ Puts(p)
  <2>1. row.status = "revoked" /\ ~ unfenced
    BY <1>5, RevokedBefore, UnfencedBefore
  <2>2. CASE \E q \in Procs : job[q].pc = "tombstone"
    BY <1>5, <2>2, TombstoneNext
  <2>3. CASE \A q \in Procs : Outlasts(cache[home[q]], job[q])
    <3>1. \A q \in Procs : job'[q].pc = "fill" => job[q].pc = "fill" /\ job'[q].left = job[q].left
      BY <2>1, FillingBefore DEF Filling, Usable
    <3>2. CASE cache' = cache
      BY <1>1, <2>3, <3>1, <3>2 DEF Outlasts, WithinLife
    <3>3. CASE Fills(p)
      <4>1. home[p] \in Caches /\ cache[home[p]].status = "none"
        BY <2>3, <3>3, EntryFields, StateFields DEF Outlasts, Fills, Refuses
      <4>2. cache[home[p]] = NoEntry /\ NoEntry.left = 0
        BY <4>1, EntryFields, NoEntryType DEF EntryInv
      <4>3. ~ WithinLife(job[p].left) >= 1
        <5>1. WithinLife(job[p].left) \in Int /\ WithinLife(job[p].left) <= 0
          BY <2>3, <3>3, <4>2, JobFields, StateFields, LifeBounds DEF Outlasts, Fills
        <5> QED BY <5>1
      <4>4. Snapshot(p) = NoEntry
        BY <4>3, SnapshotIs
      <4>5. cache' = cache
        BY <3>3, <4>1, <4>2, <4>4 DEF Fills, Typed
      <4> QED BY <3>2, <4>5
    <3> QED BY <1>5, <3>2, <3>3, StepStores
  <2> QED BY <2>1, <2>2, <2>3 DEF Covered
<1> QED BY <1>3, <1>4, <1>5

LEMMA CoveredLeaks ==
    ASSUME Typed, Covered, OneHome, NEW p \in Procs, Steppings(p), ~ unfenced'
    PROVE  "late" \notin leaks'
<1>1. ~ unfenced
  BY UnfencedBefore
<1>2. "late" \notin leaks
  BY <1>1 DEF Covered, RevokedStaysOut, OneHome
<1>3. CASE Grants(p)
  <2>1. ~ job[p].late
    BY <1>3 DEF Grants, Covered, Filling, Usable
  <2>2. "late" \notin Leaks("granted", job[p].late)
    BY <2>1 DEF Leaks
  <2>3. leaks' = leaks \cup Leaks("granted", job[p].late)
    BY <1>3 DEF Grants, Answers
  <2> QED BY <1>2, <2>2, <2>3
<1>4. CASE Hits(p)
  <2>1. life # 0 /\ cache[home[p]].status = "active"
    BY <1>4, StateFields DEF Hits, Alive, Endless
  <2>2. ~ over
    <3> SUFFICES ASSUME over PROVE FALSE
      OBVIOUS
    <3>1. CASE \E q \in Procs : job[q].pc = "tombstone"
      <4>1. PICK q \in Procs : job[q].pc = "tombstone"
        BY <3>1
      <4>2. Fences(cache[home[q]], job[q]) /\ home[q] = home[p]
        BY <2>1, <4>1 DEF Covered, OneHome, Revoking
      <4> QED BY <2>1, <4>2 DEF Fences, Deny
    <3>2. CASE \A q \in Procs : Outlasts(cache[home[q]], job[q])
      BY <2>1, <3>2 DEF Outlasts
    <3> QED BY <1>1, <2>1, <3>1, <3>2 DEF Covered
  <2>3. "late" \notin Leaks("granted", over)
    BY <2>2 DEF Leaks
  <2>4. leaks' = leaks \cup Leaks("granted", over)
    BY <1>4 DEF Hits
  <2> QED BY <1>2, <2>3, <2>4
<1> QED BY <1>2, <1>3, <1>4, LeaksChange

LEMMA CoveredTick ==
    ASSUME Prompt, Typed, Covered, Tick
    PROVE  Covered'
<1>1. /\ row' = row /\ home' = home /\ over' = over /\ unfenced' = unfenced /\ leaks' = leaks
      /\ life' = Less(life)
      /\ \A q \in Procs : TickJob(job[q], job'[q])
      /\ \A c \in Caches : TickEntry(cache[c], cache'[c])
  BY TickFields
<1>2. \A q \in Procs : job'[q].late = job[q].late /\ job'[q].pc = job[q].pc /\ job'[q].left = Less(job[q].left)
  BY <1>1 DEF TickJob
<1>3. OneHome' <=> OneHome
  BY <1>1 DEF OneHome
<1>4. ASSUME OneHome, life' # 0, NEW q \in Procs, job'[q].pc \in Revoking
      PROVE  Fences(cache[home[q]], job[q])'
  <2> DEFINE e == cache[home[q]]
  <2> DEFINE n == job[q].left
  <2>1. /\ home[q] \in Caches /\ n \in 0..TTL /\ n \in Int /\ e.left \in Int
        /\ life \in Nat \cup {Endless} /\ TickEntry(e, cache'[home[q]])
    BY <1>1, StateFields, JobFields, EntryFields
  <2>2. n > 1
    BY <1>2, <1>4 DEF Tick, Revoking
  <2>3. WithinLife(n) > 1 /\ life # 0 /\ Within(life', Less(n)) <= WithinLife(n) - 1
        /\ WithinLife(n) \in Int /\ Within(life', Less(n)) \in Int
    <3>1. WithinLife(n) > 1 /\ life # 0
      BY <1>1, <1>4, <2>1, <2>2, LifeTick
    <3>2. WithinLife(n) \in Int
      BY <2>1, LifeBounds
    <3>3. /\ WithinLife(n) >= 1 => Within(life', Less(n)) <= WithinLife(n) - 1
          /\ Within(life', Less(n)) \in Int
      BY <1>1, <2>1, LifeTick
    <3> QED BY <3>1, <3>2, <3>3
  <2>4. e.status \in Deny /\ e.left >= WithinLife(n)
    BY <1>2, <1>4, <2>3 DEF Covered, Fences
  <2> HIDE DEF e, n
  <2>5. e.left > 1
    BY <2>1, <2>3, <2>4
  <2>6. cache'[home[q]].status = e.status /\ cache'[home[q]].left = e.left - 1
    BY <2>1, <2>5 DEF TickEntry
  <2>7. Less(n) >= 1 /\ Less(n) = job'[q].left
    BY <1>2, <2>1, <2>2 DEF Less, n
  <2>8. cache'[home[q]].left >= Within(life', Less(n))
    BY <2>1, <2>3, <2>4, <2>6
  <2>9. cache'[home[q]].status \in Deny
    BY <2>4, <2>6
  <2>10. cache'[home[q]].left >= Within(life', job'[q].left) /\ job'[q].left >= 1
    BY <2>7, <2>8
  <2> QED BY <1>1, <2>9, <2>10 DEF Fences, WithinLife, Within
<1>5. ASSUME OneHome, life' # 0, ~ unfenced, row.status = "revoked"
      PROVE  \/ \E q \in Procs : job'[q].pc = "tombstone"
             \/ \A q \in Procs : Outlasts(cache[home[q]], job[q])'
  <2>1. life # 0
    BY <1>1, <1>5, StateFields DEF Less, Endless
  <2>2. CASE \E q \in Procs : job[q].pc = "tombstone"
    BY <1>2, <2>2
  <2>3. ASSUME NEW q \in Procs, Outlasts(cache[home[q]], job[q])
        PROVE  Outlasts(cache[home[q]], job[q])'
    <3> DEFINE e == cache[home[q]]
    <3> DEFINE f == cache'[home[q]]
    <3> DEFINE n == job[q].left
    <3>1. /\ home[q] \in Caches /\ n \in 0..TTL /\ n \in Int /\ e.left \in Int /\ e.left >= 0
          /\ life \in Nat \cup {Endless} /\ TickEntry(e, f)
      BY <1>1, StateFields, JobFields, EntryFields
    <3>2. /\ Within(life', Less(n)) <= WithinLife(n)
          /\ WithinLife(n) >= 1 => Within(life', Less(n)) <= WithinLife(n) - 1
          /\ WithinLife(n) \in Int /\ WithinLife(n) >= 0
      BY <1>1, <3>1, LifeTick, LifeBounds
    <3>3. Within(life', Less(n)) \in Int
      BY <1>1, <3>1, LifeTick
    <3>4. e.status # "active" /\ (job[q].pc = "fill" => WithinLife(n) <= e.left)
      BY <2>3 DEF Outlasts
    <3> HIDE DEF e, f, n
    <3>5. f.status # "active"
      BY <3>1, <3>4, NoEntryType DEF TickEntry
    <3>6. job[q].pc = "fill" => Within(life', Less(n)) <= f.left
      BY <3>1, <3>2, <3>3, <3>4, NoEntryType DEF TickEntry
    <3>7. job'[q].pc = "fill" => Within(life', job'[q].left) <= f.left
      BY <1>2, <3>6 DEF n
    <3> QED BY <1>1, <3>5, <3>7 DEF Outlasts, f, WithinLife, Within
  <2> QED BY <1>5, <2>1, <2>2, <2>3 DEF Covered
<1>6. RevokedStaysOut'
  BY <1>1 DEF Covered, RevokedStaysOut
<1>7. /\ over' => row'.status = "revoked"
      /\ \A q \in Procs : job'[q].late => over' /\ job'[q].pc \notin Filling
  BY <1>1, <1>2 DEF Covered
<1> QED BY <1>1, <1>3, <1>4, <1>5, <1>6, <1>7 DEF Covered

LEMMA CoveredStep == Prompt /\ Typed /\ Covered /\ [Next]_vars => Covered'
<1> SUFFICES ASSUME Prompt, Typed, Covered, [Next]_vars PROVE Covered'
  OBVIOUS
<1>1. Typed'
  BY TypedStep
<1>2. ASSUME NEW p \in Procs, Steppings(p) PROVE Covered'
  <2>1. life' = life /\ (OneHome' <=> OneHome)
    BY <1>2, TypedRow DEF OneHome
  <2>2. OneHome' /\ life' # 0 => \A q \in Procs : job'[q].pc \in Revoking => Fences(cache[home[q]], job[q])'
    BY <1>1, <1>2, <2>1, CoveredFences
  <2>3. OneHome' /\ life' # 0 /\ ~ unfenced' /\ row'.status = "revoked" =>
          \/ \E q \in Procs : job'[q].pc = "tombstone"
          \/ \A q \in Procs : Outlasts(cache[home[q]], job[q])'
    BY <1>1, <1>2, <2>1, CoveredOutlasts
  <2>4. RevokedStaysOut'
    BY <1>2, <2>1, CoveredLeaks DEF RevokedStaysOut, OneHome
  <2> QED BY <1>2, <2>2, <2>3, <2>4, CoveredOver DEF Covered
<1>3. CASE UNCHANGED vars
  BY <1>3 DEF vars, Covered, OneHome, Fences, Outlasts, WithinLife, RevokedStaysOut
<1> QED BY <1>2, <1>3, CoveredTick, StepKinds

(* Where the nodes share one Redis, no request that begins after a revocation has been
   reported is granted, whatever snapshots are on their way, unless a tombstone was not
   written: the fence refuses snapshots until the tombstone is there, and the tombstone
   has a full TTL where a snapshot has what is left of one (GetUserSessionCached,
   RevokeUserSession, revokeUserSessions).  A revocation takes less than a TTL from its
   fence to its tombstone. *)
THEOREM RevocationIsFinal ==
    ASSUME Prompt
    PROVE  Spec => []RevokedStaysOut
<1>1. Init => Typed /\ Covered
  BY TypedInit, CoveredInit
<1>2. Typed /\ Covered /\ [Next]_vars => Typed' /\ Covered'
  BY TypedStep, CoveredStep
<1>3. Covered => RevokedStaysOut
  BY DEF Covered
<1> QED BY <1>1, <1>2, <1>3, PTL DEF Spec
=============================================================================
