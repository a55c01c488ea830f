-------------------------- MODULE BackOffice_proofs --------------------------
(***************************************************************************)
(* The goods, the assets and the people of the back office, for any rows,   *)
(* any requests and any scenes.  Each component is proved by itself, as the *)
(* instance it is in BackOffice; the last section takes the invariants to   *)
(* the back office, where one part moves at a time.                         *)
(***************************************************************************)
EXTENDS BackOffice, Sums_proofs, FiniteSetTheorems

-----------------------------------------------------------------------------
(* The leave of an employee. *)

\* What the constants of this part are.
LEMMA LeaveNumbers ==
    /\ LeaveRequests \in Nat \ {0} /\ LeaveDays \subseteq Nat /\ LeaveTotal \in Nat
BY BackOfficeAssumption

-----------------------------------------------------------------------------
(* Types. *)

LEMMA LeaveIdle == Leave!Idle \in Leave!Work
BY LeaveNumbers DEF Leave!Idle, Leave!Work, Leave!Status, Leave!RequestId

\* What is loaded of a request.
LEMMA LoadedType ==
    ASSUME Leave!TypeOK, NEW r \in Leave!RequestId
    PROVE  /\ request[r] \in Leave!Request
           /\ Leave!Loaded(r) \in Leave!Work
           /\ Leave!Loaded(r).request = r /\ Leave!Loaded(r).columns = "all"
           /\ Leave!Loaded(r).status = request[r].status /\ Leave!Loaded(r).days = request[r].days
<1>1. request[r] \in Leave!Request /\ request[r].status \in Leave!Status
        /\ request[r].days \in Nat
  BY DEF Leave!TypeOK, Leave!Request
<1>2. Leave!Idle \in Leave!Work /\ Leave!Status = {"PENDING", "APPROVED", "REJECTED", "CANCELLED"}
  BY LeaveIdle DEF Leave!Status
<1> DEFINE u == [Leave!Idle EXCEPT !.request = r]
           v == [u EXCEPT !.status = request[r].status]
           w == [v EXCEPT !.days = request[r].days]
<1>3. u \in Leave!Work /\ u.request = r /\ u.columns = "all"
  BY <1>2 DEF Leave!Work, Leave!Idle
<1>4. v \in Leave!Work /\ v.request = r /\ v.columns = "all" /\ v.status = request[r].status
  BY <1>1, <1>3 DEF Leave!Work
<1>5. /\ w \in Leave!Work /\ w.request = r /\ w.columns = "all" /\ w.status = request[r].status
      /\ w.days = request[r].days
  BY <1>1, <1>4 DEF Leave!Work
<1>6. Leave!Loaded(r) = w
  BY DEF Leave!Loaded
<1> QED BY <1>1, <1>5, <1>6

\* An approved request stays approved, or is cancelled.
LeaveAllowed(before, now) == before = "APPROVED" => now \in {"APPROVED", "CANCELLED"}

\* What a request begins with.
AskedStatus(r, g, s) == [Leave!Loaded(r) EXCEPT !.stage = g, !.columns = "status", !.status = s]
AskedAll(r, g, s, d) == [Leave!Loaded(r) EXCEPT !.stage = g, !.status = s, !.days = d]
AskedActive(r) == [Leave!Loaded(r) EXCEPT !.stage = "writing", !.columns = "is_active"]

LEMMA AskedStatusType ==
    ASSUME Leave!TypeOK, NEW r \in Leave!RequestId, NEW g \in {"approving", "writing"},
           NEW s \in Leave!Status
    PROVE  /\ AskedStatus(r, g, s) \in Leave!Work
           /\ AskedStatus(r, g, s).stage = g /\ AskedStatus(r, g, s).request = r
           /\ AskedStatus(r, g, s).columns = "status" /\ AskedStatus(r, g, s).status = s
           /\ AskedStatus(r, g, s).days = request[r].days
<1> DEFINE l == Leave!Loaded(r)
<1>1. /\ l \in Leave!Work /\ l.request = r /\ l.columns = "all"
      /\ l.status = request[r].status /\ l.days = request[r].days
  BY LoadedType
<1>2. AskedStatus(r, g, s) = [l EXCEPT !.stage = g, !.columns = "status", !.status = s]
  BY DEF AskedStatus
<1> HIDE DEF l
<1> QED BY <1>1, <1>2 DEF Leave!Work

LEMMA AskedAllType ==
    ASSUME Leave!TypeOK, NEW r \in Leave!RequestId, NEW g \in {"form", "writing"},
           NEW s \in Leave!Status, NEW d \in Nat
    PROVE  /\ AskedAll(r, g, s, d) \in Leave!Work
           /\ AskedAll(r, g, s, d).stage = g /\ AskedAll(r, g, s, d).request = r
           /\ AskedAll(r, g, s, d).columns = "all" /\ AskedAll(r, g, s, d).status = s
           /\ AskedAll(r, g, s, d).days = d
<1> DEFINE l == Leave!Loaded(r)
<1>1. /\ l \in Leave!Work /\ l.request = r /\ l.columns = "all"
      /\ l.status = request[r].status /\ l.days = request[r].days
  BY LoadedType
<1>2. AskedAll(r, g, s, d) = [l EXCEPT !.stage = g, !.status = s, !.days = d]
  BY DEF AskedAll
<1> HIDE DEF l
<1> QED BY <1>1, <1>2 DEF Leave!Work

LEMMA AskedActiveType ==
    ASSUME Leave!TypeOK, NEW r \in Leave!RequestId
    PROVE  /\ AskedActive(r) \in Leave!Work
           /\ AskedActive(r).stage = "writing" /\ AskedActive(r).request = r
           /\ AskedActive(r).columns = "is_active"
           /\ AskedActive(r).status = request[r].status
           /\ AskedActive(r).days = request[r].days
<1> DEFINE l == Leave!Loaded(r)
<1>1. /\ l \in Leave!Work /\ l.request = r /\ l.columns = "all"
      /\ l.status = request[r].status /\ l.days = request[r].days
  BY LoadedType
<1>2. AskedActive(r) = [l EXCEPT !.stage = "writing", !.columns = "is_active"]
  BY DEF AskedActive
<1> HIDE DEF l
<1> QED BY <1>1, <1>2 DEF Leave!Work

\* A request that begins: its row is active, nothing is written yet, and what it
\* is to write comes from one of the entry points.
LEMMA Asks ==
    ASSUME Leave!TypeOK, NEW p \in Session, NEW r \in Leave!RequestId,
           \/ Leave!AskApprove(p, r) \/ Leave!AskReject(p, r) \/ Leave!AskPatch(p, r)
                \/ Leave!AskAdmin(p, r)
           \/ Leave!AskRetire(p, r)
    PROVE  \E w \in Leave!Work :
             /\ Leave!Goto(p, w) /\ UNCHANGED <<request, used, entries>>
             /\ Leave!At(p, "idle") /\ ("race" \in entries \/ Leave!AtRest)
             /\ request[r].row = "active" /\ w.request = r
             /\ w.stage \in {"approving", "form", "writing"}
             /\ w.stage \in {"approving", "form"} => w.columns # "is_active"
             /\ "edit" \notin entries => w.days = request[r].days
             /\ w.columns = "is_active" =>
                  "retire" \in entries /\ w.status = request[r].status /\ w.days = request[r].days
             /\ w.columns # "is_active" /\ "edit" \notin entries /\ "reopen" \notin entries =>
                  LeaveAllowed(request[r].status, w.status)
             /\ w.stage # "approving"
                  => entries \cap (Leave!EntryPoint \ {"approve", "race", "crash"}) # {}
             /\ w.stage = "approving" => w.columns = "status" /\ w.status = "APPROVED"
             /\ w.status = "APPROVED" =>
                  w.stage = "approving" \/ entries \cap {"grant", "edit", "retire"} # {}
<1> USE DEF Leave!Starts
<1>0. request[r].status \in Leave!Status /\ request[r].days \in Nat
  BY LoadedType DEF Leave!Request
<1>1. CASE Leave!AskApprove(p, r)
  <2> DEFINE w == AskedStatus(r, "approving", "APPROVED")
  <2>1. Leave!Goto(p, w) /\ UNCHANGED <<request, used, entries>> /\ Leave!Starts(p, "approve", r)
    BY <1>1 DEF Leave!AskApprove, AskedStatus
  <2>2. w \in Leave!Work /\ w.stage = "approving" /\ w.request = r /\ w.columns = "status"
        /\ w.status = "APPROVED" /\ w.days = request[r].days
    BY AskedStatusType DEF Leave!Status
  <2> HIDE DEF w
  <2> QED BY <2>1, <2>2 DEF LeaveAllowed
<1>2. CASE Leave!AskReject(p, r)
  <2> DEFINE w == AskedStatus(r, "writing", "REJECTED")
  <2>1. Leave!Goto(p, w) /\ UNCHANGED <<request, used, entries>> /\ Leave!Starts(p, "reject", r)
        /\ request[r].status = "PENDING"
    BY <1>2 DEF Leave!AskReject, AskedStatus
  <2>2. w \in Leave!Work /\ w.stage = "writing" /\ w.request = r /\ w.columns = "status"
        /\ w.status = "REJECTED" /\ w.days = request[r].days
    BY AskedStatusType DEF Leave!Status
  <2> HIDE DEF w
  <2> QED BY <2>1, <2>2 DEF LeaveAllowed, Leave!EntryPoint
<1>3. ASSUME NEW g \in {"form", "writing"}, NEW s \in Leave!Status,
             NEW d \in LeaveDays \cup {request[r].days}, Leave!Change(r, s, d)
      PROVE  LET w == AskedAll(r, g, s, d)
             IN  /\ w \in Leave!Work /\ w.stage = g /\ w.request = r /\ w.columns = "all"
                 /\ "edit" \notin entries => w.days = request[r].days
                 /\ "edit" \notin entries /\ "reopen" \notin entries =>
                      LeaveAllowed(request[r].status, w.status)
                 /\ w.status = "APPROVED" => entries \cap {"grant", "edit", "retire"} # {}
  <2>1. d \in Nat
    BY <1>0, LeaveNumbers
  <2> DEFINE w == AskedAll(r, g, s, d)
  <2>2. w \in Leave!Work /\ w.stage = g /\ w.request = r /\ w.columns = "all"
        /\ w.status = s /\ w.days = d
    BY <2>1, AskedAllType
  <2> HIDE DEF w
  <2>3. /\ "edit" \notin entries => w.days = request[r].days
        /\ "edit" \notin entries /\ "reopen" \notin entries
             => LeaveAllowed(request[r].status, w.status)
        /\ w.status = "APPROVED" => entries \cap {"grant", "edit", "retire"} # {}
    BY <2>2, <1>3 DEF Leave!Change, LeaveAllowed
  <2> QED BY <2>2, <2>3 DEF w
<1>4. CASE Leave!AskPatch(p, r)
  <2>1. PICK s \in Leave!Status, d \in LeaveDays \cup {request[r].days} :
          /\ Leave!Change(r, s, d) /\ Leave!Goto(p, AskedAll(r, "writing", s, d))
          /\ \E entry \in {"cancel", "grant", "reopen", "edit"} : Leave!Starts(p, entry, r)
          /\ UNCHANGED <<request, used, entries>>
    BY <1>4 DEF Leave!AskPatch, AskedAll
  <2> DEFINE w == AskedAll(r, "writing", s, d)
  <2>2. /\ w \in Leave!Work /\ w.stage = "writing" /\ w.request = r /\ w.columns = "all"
        /\ "edit" \notin entries => w.days = request[r].days
        /\ "edit" \notin entries /\ "reopen" \notin entries
             => LeaveAllowed(request[r].status, w.status)
        /\ w.status = "APPROVED" => entries \cap {"grant", "edit", "retire"} # {}
    BY <2>1, <1>3
  <2>3. Leave!Goto(p, w)
    BY <2>1
  <2> HIDE DEF w
  <2> QED BY <2>1, <2>2, <2>3 DEF Leave!EntryPoint
<1>5. CASE Leave!AskAdmin(p, r)
  <2>1. PICK s \in Leave!Status, d \in LeaveDays \cup {request[r].days} :
          /\ Leave!Change(r, s, d) /\ Leave!Goto(p, AskedAll(r, "form", s, d))
               /\ Leave!Starts(p, "admin", r)
          /\ UNCHANGED <<request, used, entries>>
    BY <1>5 DEF Leave!AskAdmin, AskedAll
  <2> DEFINE w == AskedAll(r, "form", s, d)
  <2>2. /\ w \in Leave!Work /\ w.stage = "form" /\ w.request = r /\ w.columns = "all"
        /\ "edit" \notin entries => w.days = request[r].days
        /\ "edit" \notin entries /\ "reopen" \notin entries
             => LeaveAllowed(request[r].status, w.status)
        /\ w.status = "APPROVED" => entries \cap {"grant", "edit", "retire"} # {}
    BY <2>1, <1>3
  <2>3. Leave!Goto(p, w)
    BY <2>1
  <2> HIDE DEF w
  <2> QED BY <2>1, <2>2, <2>3 DEF Leave!EntryPoint
<1>6. CASE Leave!AskRetire(p, r)
  <2> DEFINE w == AskedActive(r)
  <2>1. Leave!Goto(p, w) /\ UNCHANGED <<request, used, entries>> /\ Leave!Starts(p, "retire", r)
    BY <1>6 DEF Leave!AskRetire, AskedActive
  <2>2. w \in Leave!Work /\ w.stage = "writing" /\ w.request = r /\ w.columns = "is_active"
        /\ w.status = request[r].status /\ w.days = request[r].days
    BY AskedActiveType
  <2> HIDE DEF w
  <2> QED BY <2>1, <2>2 DEF Leave!EntryPoint
<1> QED BY <1>1, <1>2, <1>4, <1>5, <1>6

\* What is written, and logged.
LEMMA WrittenType ==
    ASSUME NEW row \in Leave!Request, NEW w \in Leave!Work
    PROVE  /\ Leave!Written(row, w) \in Leave!Request
           /\ row.row # "absent" => Leave!Written(row, w).row # "absent"
           /\ Leave!Written(row, w).newest = row.newest
                /\ Leave!Written(row, w).before = row.before
           /\ w.columns # "is_active" => Leave!Written(row, w).status = w.status
           /\ w.columns = "is_active" => Leave!Written(row, w).status = row.status
           /\ w.days = row.days => Leave!Written(row, w).days = row.days
<1>1. w.columns \in {"status", "is_active", "all"} /\ w.status \in Leave!Status /\ w.days \in Nat
  BY DEF Leave!Work
<1>2. CASE w.columns = "status"
  <2>1. Leave!Written(row, w) = [row EXCEPT !.status = w.status]
    BY <1>2 DEF Leave!Written
  <2> QED BY <1>1, <1>2, <2>1 DEF Leave!Request
<1>3. CASE w.columns = "is_active"
  <2>1. Leave!Written(row, w) = [row EXCEPT !.row = "retired"]
    BY <1>3 DEF Leave!Written
  <2> QED BY <1>1, <1>3, <2>1 DEF Leave!Request
<1>4. CASE w.columns = "all"
  <2>1. Leave!Written(row, w) = [row EXCEPT !.row = "active", !.status = w.status, !.days = w.days]
    BY <1>4 DEF Leave!Written
  <2> QED BY <1>1, <1>4, <2>1 DEF Leave!Request
<1> QED BY <1>1, <1>2, <1>3, <1>4

LEMMA LoggedType ==
    ASSUME NEW row \in Leave!Request, NEW w \in Leave!Work
    PROVE  /\ Leave!Logged(row, w) \in Leave!Request /\ Leave!Logged(row, w).row = row.row
           /\ Leave!Logged(row, w).status = row.status /\ Leave!Logged(row, w).days = row.days
           /\ Leave!Logged(row, w).newest = w.status /\ Leave!Logged(row, w).before = row.newest
BY DEF Leave!Logged, Leave!Request, Leave!Work

LEMMA CountedType ==
    ASSUME Leave!TypeOK, NEW before, NEW w \in Leave!Work
    PROVE  Leave!Counted(before, w) \in Nat
BY DEF Leave!TypeOK, Leave!Counted, Leave!Work

LEMMA LeaveTypes == Leave!TypeOK /\ [Leave!Next]_(Leave!vars) => Leave!TypeOK'
<1> SUFFICES ASSUME Leave!TypeOK, [Leave!Next]_(Leave!vars) PROVE Leave!TypeOK'
  OBVIOUS
<1> USE DEF Leave!TypeOK
<1>1. CASE UNCHANGED Leave!vars
  BY <1>1 DEF Leave!vars
<1>2. ASSUME NEW r \in Leave!RequestId, NEW d \in LeaveDays, Leave!Create(r, d)
      PROVE  Leave!TypeOK'
  <2>1. [Leave!NoRequest EXCEPT !.row = "active", !.days = d] \in Leave!Request
    BY LeaveNumbers DEF Leave!NoRequest, Leave!Request, Leave!Status
  <2> QED BY <1>2, <2>1 DEF Leave!Create
<1>3. \A p \in Session : Leave!Done(p) => desk' \in [Session -> Leave!Work]
  BY LeaveIdle DEF Leave!Done, Leave!Goto
<1>4. ASSUME NEW p \in Session, NEW r \in Leave!RequestId,
             Leave!AskApprove(p, r) \/ Leave!AskReject(p, r) \/ Leave!AskPatch(p, r)
               \/ Leave!AskAdmin(p, r)
             \/ Leave!AskRetire(p, r)
      PROVE  Leave!TypeOK'
  <2>1. PICK w \in Leave!Work : Leave!Goto(p, w) /\ UNCHANGED <<request, used, entries>>
    BY <1>4, Asks
  <2> QED BY <2>1 DEF Leave!Goto
<1>5. ASSUME NEW p \in Session,
             Leave!CommitApprove(p) \/ Leave!CommitAdmin(p) \/ Leave!Write(p) \/ Leave!Log(p)
               \/ Leave!Handle(p) \/ Leave!Crash(p)
      PROVE  Leave!TypeOK'
  <2> DEFINE w == desk[p]
             r == w.request
  <2>0. w \in Leave!Work /\ r \in Leave!RequestId /\ request[r] \in Leave!Request
    BY DEF Leave!Work
  <2>1. ASSUME Leave!SaveAll(p, w) PROVE request' \in [Leave!RequestId -> Leave!Request]
               /\ used' \in Nat
                                         /\ desk' \in [Session -> Leave!Work]
    <3> DEFINE row == Leave!Logged(Leave!Written(request[r], w), w)
    <3>1. row \in Leave!Request
      BY <2>0, WrittenType, LoggedType
    <3>2. Leave!Counted(row.before, w) \in Nat
      BY <2>0, CountedType
    <3>3. request' = [request EXCEPT ![r] = row] /\ used' = Leave!Counted(row.before, w)
            /\ Leave!Done(p)
      BY <2>1 DEF Leave!SaveAll
    <3> HIDE DEF row
    <3> QED BY <2>0, <3>1, <3>2, <3>3, <1>3
  <2>2. CASE Leave!CommitApprove(p)
    BY <2>1, <2>2, <1>3 DEF Leave!CommitApprove
  <2>3. CASE Leave!CommitAdmin(p)
    BY <2>1, <2>3 DEF Leave!CommitAdmin
  <2>4. CASE Leave!Write(p)
    <3>1. Leave!Written(request[r], w) \in Leave!Request
      BY <2>0, WrittenType
    <3>2. [w EXCEPT !.stage = "logging"] \in Leave!Work
      BY <2>0 DEF Leave!Work
    <3> QED BY <2>0, <2>4, <3>1, <3>2 DEF Leave!Write, Leave!Goto
  <2>5. CASE Leave!Log(p)
    <3>1. Leave!Logged(request[r], w) \in Leave!Request
      BY <2>0, LoggedType
    <3>2. [w EXCEPT !.stage = "handling"] \in Leave!Work
      BY <2>0 DEF Leave!Work
    <3> QED BY <2>0, <2>5, <3>1, <3>2 DEF Leave!Log, Leave!Goto
  <2>6. CASE Leave!Handle(p)
    BY <2>0, <2>6, <1>3, CountedType DEF Leave!Handle
  <2>7. CASE Leave!Crash(p)
    BY <2>7, <1>3 DEF Leave!Crash
  <2> QED BY <1>5, <2>2, <2>3, <2>4, <2>5, <2>6, <2>7
<1> QED BY <1>1, <1>2, <1>4, <1>5 DEF Leave!Next

-----------------------------------------------------------------------------
(* The invariant. *)

Still == entries \subseteq {"approve", "race", "crash"}
OneByOne == entries \subseteq Leave!EntryPoint \ {"reopen", "edit", "race", "crash"}
ByTheView == entries \cap {"grant", "edit", "retire"} = {}

\* What is being done to a request: it was loaded with the days it has, and its
\* status, the last of its history, or the last but one, is what it was before.
WorkRight(p) ==
    LET w == desk[p]
        row == request[w.request]
    IN  w.stage # "idle" =>
            /\ row.row # "absent" /\ w.days = row.days
            /\ Still => w.stage = "approving" /\ w.columns = "status" /\ w.status = "APPROVED"
            /\ w.stage \in {"approving", "form"} => w.columns # "is_active"
            /\ w.stage \in {"approving", "form", "writing"} =>
                  /\ LeaveAllowed(row.status, w.status)
                  /\ w.columns = "is_active" => w.status = row.status
            /\ w.stage = "logging" => row.status = w.status /\ LeaveAllowed(row.newest, w.status)
            /\ w.stage = "handling" =>
                  row.status = w.status /\ row.newest = w.status
                    /\ LeaveAllowed(row.before, w.status)

LoggingAt(r) == \E p \in Session : Leave!At(p, "logging") /\ desk[p].request = r
HandlingAt(r) == \E p \in Session : Leave!At(p, "handling") /\ desk[p].request = r

\* The status with which a request was counted last.
CountedAs(r) ==
    IF LoggingAt(r) THEN request[r].newest
    ELSE IF HandlingAt(r) THEN request[r].before ELSE request[r].status
CountedDays ==
    [r \in Leave!RequestId |-> IF CountedAs(r) = "APPROVED" THEN request[r].days ELSE 0]

OneSession ==
    \A p, q \in Session : ~Leave!At(p, "idle") /\ ~Leave!At(q, "idle") => p = q
Blank == \A r \in Leave!RequestId : request[r].row = "absent" => request[r] = Leave!NoRequest
HistoryRight == \A r \in Leave!RequestId : ~LoggingAt(r) => request[r].newest = request[r].status

Exact ==
    Still \/ OneByOne =>
        /\ OneByOne => OneSession
        /\ \A p \in Session : WorkRight(p)
        /\ Blank /\ HistoryRight
        /\ used = SumTo(CountedDays, LeaveRequests)

Within ==
    ByTheView =>
        /\ used <= LeaveTotal
        /\ \A p \in Session :
              ~Leave!At(p, "idle") /\ desk[p].status = "APPROVED" => Leave!At(p, "approving")

LeaveInv == Leave!TypeOK /\ Exact /\ Within

-----------------------------------------------------------------------------
(* The days used. *)

\* The days that are added or taken off are those the request is counted with.
LEMMA CountRight ==
    ASSUME NEW f \in [Leave!RequestId -> Nat], NEW r \in Leave!RequestId,
           used = SumTo(f, LeaveRequests),
           NEW before, NEW w, w.days \in Nat,
           f[r] = IF before = "APPROVED" THEN w.days ELSE 0, LeaveAllowed(before, w.status)
    PROVE  Leave!Counted(before, w)
             = SumTo([f EXCEPT ![r] = IF w.status = "APPROVED" THEN w.days ELSE 0], LeaveRequests)
<1> DEFINE N == LeaveRequests
           v == IF w.status = "APPROVED" THEN w.days ELSE 0
<1>1. N \in Nat /\ N \in 0..N /\ Leave!RequestId = 1..N
  BY LeaveNumbers DEF Leave!RequestId
<1>2. f \in [1..N -> Nat] /\ f \in [1..N -> Int] /\ r \in 1..N /\ v \in Int /\ r <= N
  BY <1>1
<1>0. v = IF w.status = "APPROVED" THEN w.days ELSE 0
  OBVIOUS
<1> HIDE DEF N, v
<1>3. SumTo([f EXCEPT ![r] = v], N) = SumTo(f, N) - f[r] + v
  <2> DEFINE g == [f EXCEPT ![r] = v]
  <2>1. \A n \in 0..N : SumTo(g, n) = IF n < r THEN SumTo(f, n) ELSE SumTo(f, n) - f[r] + v
    BY <1>1, <1>2, SumToUpdate
  <2> HIDE DEF g
  <2>2. SumTo(g, N) = IF N < r THEN SumTo(f, N) ELSE SumTo(f, N) - f[r] + v
    BY <1>1, <2>1
  <2>3. SumTo(g, N) = SumTo(f, N) - f[r] + v
    BY <1>1, <1>2, <2>2
  <2> QED BY <2>3 DEF g
<1>4. SumTo(f, N) \in Nat /\ f[r] <= SumTo(f, N) /\ f[r] \in Nat
  BY <1>1, <1>2, SumToNat
<1>5. used = SumTo(f, N)
  BY DEF N
<1>6. Leave!Counted(before, w) = SumTo(f, N) - f[r] + v
  BY <1>0, <1>4, <1>5 DEF Leave!Counted, LeaveAllowed
<1> QED BY <1>3, <1>6 DEF N, v

\* While a request p moves, no other one is between its steps.
LEMMA Mine ==
    ASSUME Leave!TypeOK, Exact, Still \/ OneByOne, NEW p \in Session,
           ~Leave!At(p, "idle") \/ "race" \in entries \/ Leave!AtRest
    PROVE  /\ \A q \in Session : q # p => ~Leave!At(q, "logging") /\ ~Leave!At(q, "handling")
           /\ OneByOne => \A q \in Session : q # p => Leave!At(q, "idle")
<1>1. OneByOne => "race" \notin entries
  BY DEF OneByOne
<1>2. OneByOne => \A q \in Session : q # p => Leave!At(q, "idle")
  BY <1>1 DEF Exact, OneSession, Leave!AtRest
<1>3. Still => \A q \in Session : ~Leave!At(q, "logging") /\ ~Leave!At(q, "handling")
  BY DEF Exact, WorkRight, Leave!At
<1>4. \A q \in Session : Leave!At(q, "idle") => ~Leave!At(q, "logging")
        /\ ~Leave!At(q, "handling")
  BY DEF Leave!At
<1> QED BY <1>2, <1>3, <1>4

LEMMA CountedMine ==
    ASSUME NEW p \in Session,
           \A q \in Session : q # p => ~Leave!At(q, "logging") /\ ~Leave!At(q, "handling")
    PROVE  \A r \in Leave!RequestId : CountedAs(r) =
             IF Leave!At(p, "logging") /\ desk[p].request = r THEN request[r].newest
             ELSE IF Leave!At(p, "handling") /\ desk[p].request = r THEN request[r].before
             ELSE request[r].status
BY DEF CountedAs, LoggingAt, HandlingAt

LEMMA CountedAfter ==
    ASSUME Leave!TypeOK, NEW p \in Session, NEW w, desk' = [desk EXCEPT ![p] = w],
           \A q \in Session : q # p => ~Leave!At(q, "logging") /\ ~Leave!At(q, "handling")
    PROVE  /\ \A r \in Leave!RequestId : CountedAs(r)' =
                 IF w.stage = "logging" /\ w.request = r THEN request'[r].newest
                 ELSE IF w.stage = "handling" /\ w.request = r THEN request'[r].before
                 ELSE request'[r].status
           /\ \A r \in Leave!RequestId : LoggingAt(r)' <=> w.stage = "logging" /\ w.request = r
<1>1. desk'[p] = w /\ \A q \in Session : q # p => desk'[q] = desk[q]
  BY DEF Leave!TypeOK
<1>2. \A q \in Session : q # p => ~Leave!At(q, "logging")' /\ ~Leave!At(q, "handling")'
  BY <1>1 DEF Leave!At
<1>3. Leave!At(p, "logging")' <=> w.stage = "logging"
  BY <1>1 DEF Leave!At
<1>4. Leave!At(p, "handling")' <=> w.stage = "handling"
  BY <1>1 DEF Leave!At
<1>5. \A r \in Leave!RequestId : LoggingAt(r)' <=> w.stage = "logging" /\ w.request = r
  BY <1>1, <1>2, <1>3 DEF LoggingAt
<1>6. \A r \in Leave!RequestId : HandlingAt(r)' <=> w.stage = "handling" /\ w.request = r
  BY <1>1, <1>2, <1>4 DEF HandlingAt
<1> QED BY <1>5, <1>6 DEF CountedAs

LEMMA LoggingMine ==
    ASSUME NEW p \in Session,
           \A q \in Session : q # p => ~Leave!At(q, "logging") /\ ~Leave!At(q, "handling")
    PROVE  \A r \in Leave!RequestId :
             LoggingAt(r) <=> Leave!At(p, "logging") /\ desk[p].request = r
BY DEF LoggingAt

\* The others stay right, as long as no row goes and the days stay.
LEMMA OthersRight ==
    ASSUME Leave!TypeOK, Exact, Still \/ OneByOne, NEW p \in Session, NEW w,
           ~Leave!At(p, "idle") \/ "race" \in entries \/ Leave!AtRest,
           desk' = [desk EXCEPT ![p] = w], entries' = entries,
           \A r \in Leave!RequestId : request[r].row # "absent" =>
               request'[r].row # "absent" /\ request'[r].days = request[r].days
    PROVE  /\ \A q \in Session : q # p => WorkRight(q)'
           /\ (OneByOne => OneSession)'
<1>1. desk'[p] = w /\ \A q \in Session : q # p => desk'[q] = desk[q]
  BY DEF Leave!TypeOK
<1>2. ASSUME NEW q \in Session, q # p PROVE WorkRight(q)'
  <2>0. desk'[q] = desk[q] /\ desk[q].request \in Leave!RequestId
    BY <1>1, <1>2 DEF Leave!TypeOK, Leave!Work
  <2>1. CASE OneByOne
    <3>1. desk[q].stage = "idle"
      BY <1>2, <2>1, Mine DEF Leave!At
    <3> QED BY <2>0, <3>1 DEF WorkRight
  <2>2. CASE Still /\ desk[q].stage # "idle"
    <3>1. /\ desk[q].stage = "approving" /\ desk[q].columns = "status"
          /\ desk[q].status = "APPROVED" /\ request[desk[q].request].row # "absent"
          /\ desk[q].days = request[desk[q].request].days
      BY <2>2 DEF Exact, WorkRight
    <3>2. /\ request'[desk[q].request].row # "absent"
          /\ desk[q].days = request'[desk[q].request].days
      BY <2>0, <3>1
    <3> QED BY <2>0, <3>1, <3>2 DEF WorkRight, LeaveAllowed
  <2>3. CASE desk[q].stage = "idle"
    BY <2>0, <2>3 DEF WorkRight
  <2> QED BY <2>1, <2>2, <2>3
<1>3. (OneByOne => OneSession)'
  <2>1. CASE OneByOne
    <3>1. \A q \in Session : q # p => desk'[q].stage = "idle"
      BY <1>1, <2>1, Mine DEF Leave!At
    <3>2. \A q \in Session : q # p => Leave!At(q, "idle")'
      BY <3>1 DEF Leave!At
    <3> QED BY <3>2 DEF OneSession
  <2>2. CASE ~OneByOne
    BY <2>2 DEF OneByOne
  <2> QED BY <2>1, <2>2
<1> QED BY <1>2, <1>3

\* The days with which requests are counted.
LEMMA CountedDaysType ==
    ASSUME Leave!TypeOK
    PROVE  /\ CountedDays \in [Leave!RequestId -> Nat]
           /\ \A r \in Leave!RequestId :
                CountedDays[r] = IF CountedAs(r) = "APPROVED" THEN request[r].days ELSE 0
BY DEF CountedDays, Leave!TypeOK, Leave!Request

\* A step that counts nothing, after which all requests are counted as before.
LEMMA SameDays ==
    ASSUME used' = used, Exact, Still \/ OneByOne,
           \A r \in Leave!RequestId : CountedAs(r)' = CountedAs(r) /\ 
               (CountedAs(r) = "APPROVED" => request'[r].days = request[r].days)
    PROVE  used' = SumTo(CountedDays', LeaveRequests)
<1>1. CountedDays' = CountedDays
  BY DEF CountedDays
<1> QED BY <1>1 DEF Exact

LEMMA CreateExact ==
    ASSUME Leave!TypeOK, Exact, NEW r \in Leave!RequestId, NEW d \in LeaveDays, Leave!Create(r, d)
    PROVE  Exact'
<1> SUFFICES ASSUME Still \/ OneByOne
             PROVE  /\ (OneByOne => OneSession)' /\ \A p \in Session : WorkRight(p)'
                    /\ Blank' /\ HistoryRight' /\ used' = SumTo(CountedDays', LeaveRequests)
  BY DEF Exact, Leave!Create, Still, OneByOne
<1> USE DEF Leave!Create
<1>1. /\ request'[r].row = "active" /\ request'[r].status = "PENDING"
      /\ request'[r].newest = "PENDING" /\ request'[r].before = "none"
      /\ request[r].row = "absent"
      /\ \A q \in Leave!RequestId : q # r => request'[q] = request[q]
  BY DEF Leave!TypeOK, Leave!NoRequest
<1>2. \A p \in Session : desk'[p] = desk[p] /\ desk[p].request \in Leave!RequestId
  BY DEF Leave!TypeOK, Leave!Work
<1>3. \A p \in Session : desk[p].stage # "idle" => desk[p].request # r
  BY <1>1 DEF Exact, WorkRight
<1>4. ASSUME NEW p \in Session PROVE WorkRight(p)'
  BY <1>1, <1>2, <1>3 DEF Exact, WorkRight, Still
<1>5. ~LoggingAt(r) /\ ~HandlingAt(r) /\ ~LoggingAt(r)' /\ ~HandlingAt(r)'
  BY <1>3 DEF LoggingAt, HandlingAt, Leave!At
<1>6. \A q \in Leave!RequestId : q # r => (LoggingAt(q)' <=> LoggingAt(q))
                                          /\ (HandlingAt(q)' <=> HandlingAt(q))
  BY DEF LoggingAt, HandlingAt, Leave!At
<1>7. HistoryRight'
  BY <1>1, <1>5, <1>6 DEF HistoryRight, Exact
<1>8. (OneByOne => OneSession)'
  BY DEF OneByOne, OneSession, Leave!At, Exact
<1>9. Blank'
  BY <1>1 DEF Blank, Exact
<1>10. used' = SumTo(CountedDays', LeaveRequests)
  <2>1. CountedAs(r) = "PENDING" /\ CountedAs(r)' = "PENDING"
    BY <1>1, <1>5 DEF CountedAs, Exact, Blank, Leave!NoRequest
  <2>2. \A q \in Leave!RequestId : q # r => CountedAs(q)' = CountedAs(q)
    BY <1>1, <1>6 DEF CountedAs
  <2> QED BY <1>1, <2>1, <2>2, SameDays
<1> QED BY <1>4, <1>7, <1>8, <1>9, <1>10

\* A step of p that leaves the rows: it asks, or is given up.
LEMMA AskExact ==
    ASSUME Leave!TypeOK, Exact, NEW p \in Session, NEW r \in Leave!RequestId,
           \/ Leave!AskApprove(p, r) \/ Leave!AskReject(p, r) \/ Leave!AskPatch(p, r)
                \/ Leave!AskAdmin(p, r)
           \/ Leave!AskRetire(p, r)
    PROVE  Exact'
<1>1. PICK w \in Leave!Work :
         /\ Leave!Goto(p, w) /\ UNCHANGED <<request, used, entries>>
         /\ Leave!At(p, "idle") /\ ("race" \in entries \/ Leave!AtRest)
         /\ request[r].row = "active" /\ w.request = r
         /\ w.stage \in {"approving", "form", "writing"}
         /\ w.stage \in {"approving", "form"} => w.columns # "is_active"
         /\ "edit" \notin entries => w.days = request[r].days
         /\ w.columns = "is_active" =>
              "retire" \in entries /\ w.status = request[r].status /\ w.days = request[r].days
         /\ w.columns # "is_active" /\ "edit" \notin entries /\ "reopen" \notin entries =>
              LeaveAllowed(request[r].status, w.status)
         /\ w.stage # "approving"
              => entries \cap (Leave!EntryPoint \ {"approve", "race", "crash"}) # {}
         /\ w.stage = "approving" => w.columns = "status" /\ w.status = "APPROVED"
         /\ w.status = "APPROVED" =>
              w.stage = "approving" \/ entries \cap {"grant", "edit", "retire"} # {}
  BY Asks
<1> SUFFICES ASSUME Still \/ OneByOne
             PROVE  /\ (OneByOne => OneSession)' /\ \A q \in Session : WorkRight(q)'
                    /\ Blank' /\ HistoryRight' /\ used' = SumTo(CountedDays', LeaveRequests)
  BY <1>1 DEF Exact, Still, OneByOne
<1>2. desk' = [desk EXCEPT ![p] = w] /\ desk'[p] = w
  BY <1>1 DEF Leave!Goto, Leave!TypeOK
<1>3. /\ \A q \in Session : q # p => WorkRight(q)'
      /\ (OneByOne => OneSession)'
  BY <1>1, <1>2, OthersRight
<1>4. "edit" \notin entries /\ "reopen" \notin entries
  BY DEF Still, OneByOne
<1>5. WorkRight(p)'
  <2>1. Still => w.stage = "approving"
    BY <1>1 DEF Still, Leave!EntryPoint
  <2>2. request'[r] = request[r] /\ (Still' <=> Still)
    BY <1>1 DEF Still
  <2>3. w.columns = "is_active" => LeaveAllowed(request[r].status, w.status)
    BY <1>1, LoadedType DEF LeaveAllowed, OneByOne
  <2> QED BY <1>1, <1>2, <1>4, <2>1, <2>2, <2>3 DEF WorkRight
<1>6. \A q \in Session : q # p => ~Leave!At(q, "logging") /\ ~Leave!At(q, "handling")
  BY <1>1, Mine
<1>7. \A q \in Leave!RequestId : CountedAs(q)' = CountedAs(q)
  <2>1. ~Leave!At(p, "logging") /\ ~Leave!At(p, "handling")
    BY <1>1 DEF Leave!At
  <2>2. \A q \in Leave!RequestId : CountedAs(q) = request[q].status
    BY <1>6, <2>1, CountedMine
  <2>3. \A q \in Leave!RequestId : CountedAs(q)' = request'[q].status
    BY <1>1, <1>2, <1>6, CountedAfter
  <2> QED BY <1>1, <2>2, <2>3
<1>8. used' = SumTo(CountedDays', LeaveRequests)
  BY <1>1, <1>7, SameDays
<1>9. HistoryRight'
  <2>1. \A q \in Leave!RequestId : ~LoggingAt(q)
    BY <1>1, <1>6, LoggingMine DEF Leave!At
  <2> QED BY <1>1, <2>1 DEF HistoryRight, Exact
<1> QED BY <1>1, <1>3, <1>5, <1>8, <1>9 DEF Blank, Exact

\* What is given up, or declined, has not begun to write, where that counts.
LEMMA DoneExact ==
    ASSUME Leave!TypeOK, Exact, NEW p \in Session, Leave!Done(p),
           UNCHANGED <<request, used, entries>>,
           ~Leave!At(p, "idle"), Leave!At(p, "approving") \/ "crash" \in entries
    PROVE  Exact'
<1> SUFFICES ASSUME Still \/ OneByOne
             PROVE  /\ (OneByOne => OneSession)' /\ \A q \in Session : WorkRight(q)'
                    /\ Blank' /\ HistoryRight' /\ used' = SumTo(CountedDays', LeaveRequests)
  BY DEF Exact, Still, OneByOne
<1>1. Leave!At(p, "approving")
  BY DEF Exact, WorkRight, Still, OneByOne, Leave!At
<1>2. desk' = [desk EXCEPT ![p] = Leave!Idle] /\ desk'[p] = Leave!Idle
        /\ Leave!Idle.stage = "idle"
  BY DEF Leave!Done, Leave!Goto, Leave!TypeOK, Leave!Idle
<1>3. /\ \A q \in Session : q # p => WorkRight(q)'
      /\ (OneByOne => OneSession)'
  BY <1>2, OthersRight
<1>4. WorkRight(p)'
  BY <1>2 DEF WorkRight
<1>5. \A q \in Session : q # p => ~Leave!At(q, "logging") /\ ~Leave!At(q, "handling")
  BY Mine
<1>6. ~Leave!At(p, "logging") /\ ~Leave!At(p, "handling")
  BY <1>1 DEF Leave!At
<1>7. \A q \in Leave!RequestId : CountedAs(q)' = CountedAs(q)
  <2>1. \A q \in Leave!RequestId : CountedAs(q) = request[q].status
    BY <1>5, <1>6, CountedMine
  <2>2. \A q \in Leave!RequestId : CountedAs(q)' = request'[q].status
    BY <1>2, <1>5, CountedAfter
  <2> QED BY <2>1, <2>2
<1>8. used' = SumTo(CountedDays', LeaveRequests)
  BY <1>7, SameDays
<1>9. HistoryRight'
  <2>1. \A q \in Leave!RequestId : ~LoggingAt(q)
    BY <1>5, <1>6, LoggingMine
  <2> QED BY <2>1 DEF HistoryRight, Exact
<1> QED BY <1>3, <1>4, <1>8, <1>9 DEF Blank, Exact

\* The row, the history and the balance in one transaction.
LEMMA SaveExact ==
    ASSUME Leave!TypeOK, Exact, NEW p \in Session, Leave!SaveAll(p, desk[p]), entries' = entries,
           Leave!At(p, "approving") \/ Leave!At(p, "form")
    PROVE  Exact'
<1> SUFFICES ASSUME Still \/ OneByOne
             PROVE  /\ (OneByOne => OneSession)' /\ \A q \in Session : WorkRight(q)'
                    /\ Blank' /\ HistoryRight' /\ used' = SumTo(CountedDays', LeaveRequests)
  BY DEF Exact, Still, OneByOne
<1> DEFINE w == desk[p]
           r == w.request
           old == request[r]
           written == Leave!Written(old, w)
           row == Leave!Logged(written, w)
<1>1. w \in Leave!Work /\ r \in Leave!RequestId /\ old \in Leave!Request /\ w.days \in Nat
        /\ w.status \in Leave!Status
  BY DEF Leave!TypeOK, Leave!Work
<1>2. /\ old.row # "absent" /\ w.days = old.days /\ w.columns # "is_active"
      /\ LeaveAllowed(old.status, w.status) /\ ~Leave!At(p, "idle")
  BY DEF Exact, WorkRight, Leave!At
<1>3. written \in Leave!Request /\ written.row # "absent" /\ written.newest = old.newest
      /\ written.status = w.status /\ written.days = old.days
  BY <1>1, <1>2, WrittenType
<1>4. /\ row \in Leave!Request /\ row.row # "absent" /\ row.status = w.status
           /\ row.days = old.days
      /\ row.newest = w.status /\ row.before = old.newest
  BY <1>1, <1>3, LoggedType
<1>5. request' = [request EXCEPT ![r] = row] /\ used' = Leave!Counted(row.before, w)
        /\ Leave!Done(p)
  BY DEF Leave!SaveAll
<1> HIDE DEF written, row
<1>6. request'[r] = row /\ \A q \in Leave!RequestId : q # r => request'[q] = request[q]
  BY <1>1, <1>5 DEF Leave!TypeOK
<1>7. desk' = [desk EXCEPT ![p] = Leave!Idle] /\ desk'[p] = Leave!Idle
        /\ Leave!Idle.stage = "idle"
  BY <1>5 DEF Leave!Done, Leave!Goto, Leave!TypeOK, Leave!Idle
<1>8. /\ \A q \in Session : q # p => WorkRight(q)'
      /\ (OneByOne => OneSession)'
  <2>1. \A q \in Leave!RequestId : request[q].row # "absent" =>
               request'[q].row # "absent" /\ request'[q].days = request[q].days
    BY <1>4, <1>6
  <2> QED BY <1>2, <1>7, <2>1, OthersRight
<1>9. WorkRight(p)'
  BY <1>7 DEF WorkRight
<1>10. \A q \in Session : q # p => ~Leave!At(q, "logging") /\ ~Leave!At(q, "handling")
  BY <1>2, Mine
<1>11. \A q \in Leave!RequestId : ~LoggingAt(q)
  BY <1>10, LoggingMine DEF Leave!At
<1>12. old.newest = old.status
  BY <1>1, <1>11 DEF Exact, HistoryRight
<1>13. HistoryRight' /\ Blank'
  BY <1>4, <1>6, <1>11, <1>12 DEF HistoryRight, Exact, Blank
<1>14. used' = SumTo(CountedDays', LeaveRequests)
  <2>1. \A q \in Leave!RequestId : CountedAs(q) = request[q].status
    BY <1>10, CountedMine DEF Leave!At
  <2>2. \A q \in Leave!RequestId : CountedAs(q)' = request'[q].status
    BY <1>7, <1>10, CountedAfter
  <2>3. /\ CountedDays \in [Leave!RequestId -> Nat]
        /\ CountedDays[r] = IF old.status = "APPROVED" THEN w.days ELSE 0
    BY <1>1, <1>2, <2>1, CountedDaysType
  <2>4. CountedDays' = [CountedDays EXCEPT ![r] = IF w.status = "APPROVED" THEN w.days ELSE 0]
    BY <1>1, <1>2, <1>4, <1>6, <2>1, <2>2, ZenonT(60) DEF CountedDays
  <2>5. used = SumTo(CountedDays, LeaveRequests)
    BY DEF Exact
  <2> HIDE DEF w
  <2>6. Leave!Counted(old.status, w) = SumTo(CountedDays', LeaveRequests)
    BY <1>1, <1>2, <2>3, <2>4, <2>5, CountRight
  <2> QED BY <1>4, <1>5, <1>12, <2>6
<1> QED BY <1>8, <1>9, <1>13, <1>14

\* The three steps of a save without a transaction: the row,
LEMMA WriteExact ==
    ASSUME Leave!TypeOK, Exact, NEW p \in Session, Leave!Write(p)
    PROVE  Exact'
<1> SUFFICES ASSUME Still \/ OneByOne
             PROVE  /\ (OneByOne => OneSession)' /\ \A q \in Session : WorkRight(q)'
                    /\ Blank' /\ HistoryRight' /\ used' = SumTo(CountedDays', LeaveRequests)
  BY DEF Exact, Still, OneByOne, Leave!Write
<1> DEFINE w == desk[p]
<1> SUFFICES ASSUME NEW r \in Leave!RequestId, r = w.request
             PROVE  /\ (OneByOne => OneSession)' /\ \A q \in Session : WorkRight(q)'
                    /\ Blank' /\ HistoryRight' /\ used' = SumTo(CountedDays', LeaveRequests)
  BY DEF Leave!TypeOK, Leave!Work
<1> DEFINE old == request[r]
           row == Leave!Written(old, w)
           next == [w EXCEPT !.stage = "logging"]
<1>1. w \in Leave!Work /\ r \in Leave!RequestId /\ old \in Leave!Request /\ w.stage = "writing"
  BY DEF Leave!TypeOK, Leave!Work, Leave!Write, Leave!At
<1>2. ~Still
  BY <1>1 DEF Exact, WorkRight
<1>3. /\ old.row # "absent" /\ w.days = old.days /\ LeaveAllowed(old.status, w.status)
      /\ w.columns = "is_active" => w.status = old.status
  BY <1>1 DEF Exact, WorkRight
<1>4. /\ row \in Leave!Request /\ row.row # "absent" /\ row.status = w.status
           /\ row.days = old.days
      /\ row.newest = old.newest /\ row.before = old.before
  BY <1>1, <1>3, WrittenType
<1>5. request' = [request EXCEPT ![r] = row] /\ used' = used
      /\ desk' = [desk EXCEPT ![p] = next] /\ entries' = entries
  BY DEF Leave!Write, Leave!Goto
<1>6. /\ next.stage = "logging" /\ next.request = r /\ next.columns = w.columns
      /\ next.status = w.status /\ next.days = w.days
  BY <1>1 DEF Leave!Work
<1> HIDE DEF row, next
<1>7. /\ request'[r] = row /\ \A q \in Leave!RequestId : q # r => request'[q] = request[q]
      /\ desk'[p] = next
  BY <1>1, <1>5 DEF Leave!TypeOK
<1>8. ~Leave!At(p, "idle") /\ ~Leave!At(p, "logging") /\ ~Leave!At(p, "handling")
  BY <1>1 DEF Leave!At
<1>9. /\ \A q \in Session : q # p => WorkRight(q)'
      /\ (OneByOne => OneSession)'
  <2>1. \A q \in Leave!RequestId : request[q].row # "absent" =>
               request'[q].row # "absent" /\ request'[q].days = request[q].days
    BY <1>4, <1>7
  <2> QED BY <1>5, <1>8, <2>1, OthersRight
<1>10. \A q \in Session : q # p => ~Leave!At(q, "logging") /\ ~Leave!At(q, "handling")
  BY <1>8, Mine
<1>11. \A q \in Leave!RequestId : ~LoggingAt(q) /\ request[q].newest = request[q].status
  BY <1>8, <1>10, LoggingMine DEF Exact, HistoryRight
<1>12. WorkRight(p)'
  BY <1>1, <1>2, <1>3, <1>4, <1>5, <1>6, <1>7, <1>11 DEF WorkRight, Still
<1>13. HistoryRight' /\ Blank'
  <2>1. \A q \in Leave!RequestId : q # r => request'[q].newest = request'[q].status
    BY <1>7, <1>11
  <2>2. LoggingAt(r)'
    <3>1. \A q \in Leave!RequestId : LoggingAt(q)' <=> next.stage = "logging" /\ next.request = q
      BY <1>5, <1>10, CountedAfter
    <3> QED BY <1>1, <1>6, <3>1
  <2> QED BY <1>4, <1>7, <2>1, <2>2 DEF HistoryRight, Exact, Blank
<1>14. used' = SumTo(CountedDays', LeaveRequests)
  <2>1. \A q \in Leave!RequestId : CountedAs(q) = request[q].status
    BY <1>8, <1>10, CountedMine
  <2>2. \A q \in Leave!RequestId : CountedAs(q)' =
          IF q = r THEN request'[q].newest ELSE request'[q].status
    <3>1. \A q \in Leave!RequestId : CountedAs(q)' =
                 IF next.stage = "logging" /\ next.request = q THEN request'[q].newest
                 ELSE IF next.stage = "handling" /\ next.request = q THEN request'[q].before
                 ELSE request'[q].status
      BY <1>5, <1>10, CountedAfter
    <3> QED BY <1>6, <3>1
  <2>3. \A q \in Leave!RequestId : CountedAs(q)' = CountedAs(q)
          /\ request'[q].days = request[q].days
    BY <1>4, <1>7, <1>11, <2>1, <2>2
  <2> QED BY <1>5, <2>3, SameDays
<1> QED BY <1>9, <1>12, <1>13, <1>14

\* its history,
LEMMA LogExact ==
    ASSUME Leave!TypeOK, Exact, NEW p \in Session, Leave!Log(p)
    PROVE  Exact'
<1> SUFFICES ASSUME Still \/ OneByOne
             PROVE  /\ (OneByOne => OneSession)' /\ \A q \in Session : WorkRight(q)'
                    /\ Blank' /\ HistoryRight' /\ used' = SumTo(CountedDays', LeaveRequests)
  BY DEF Exact, Still, OneByOne, Leave!Log
<1> DEFINE w == desk[p]
<1> SUFFICES ASSUME NEW r \in Leave!RequestId, r = w.request
             PROVE  /\ (OneByOne => OneSession)' /\ \A q \in Session : WorkRight(q)'
                    /\ Blank' /\ HistoryRight' /\ used' = SumTo(CountedDays', LeaveRequests)
  BY DEF Leave!TypeOK, Leave!Work
<1> DEFINE old == request[r]
           row == Leave!Logged(old, w)
           next == [w EXCEPT !.stage = "handling"]
<1>1. w \in Leave!Work /\ r \in Leave!RequestId /\ old \in Leave!Request /\ w.stage = "logging"
  BY DEF Leave!TypeOK, Leave!Work, Leave!Log, Leave!At
<1>2. ~Still
  BY <1>1 DEF Exact, WorkRight
<1>3. /\ old.row # "absent" /\ w.days = old.days
      /\ old.status = w.status /\ LeaveAllowed(old.newest, w.status)
  BY <1>1 DEF Exact, WorkRight
<1>4. /\ row \in Leave!Request /\ row.row # "absent" /\ row.status = w.status
           /\ row.days = old.days
      /\ row.newest = w.status /\ row.before = old.newest
  BY <1>1, <1>3, LoggedType
<1>5. request' = [request EXCEPT ![r] = row] /\ used' = used
      /\ desk' = [desk EXCEPT ![p] = next] /\ entries' = entries
  BY DEF Leave!Log, Leave!Goto
<1>6. /\ next.stage = "handling" /\ next.request = r /\ next.columns = w.columns
      /\ next.status = w.status /\ next.days = w.days
  BY <1>1 DEF Leave!Work
<1> HIDE DEF row, next
<1>7. /\ request'[r] = row /\ \A q \in Leave!RequestId : q # r => request'[q] = request[q]
      /\ desk'[p] = next
  BY <1>1, <1>5 DEF Leave!TypeOK
<1>8. ~Leave!At(p, "idle") /\ Leave!At(p, "logging") /\ ~Leave!At(p, "handling")
  BY <1>1 DEF Leave!At
<1>9. /\ \A q \in Session : q # p => WorkRight(q)'
      /\ (OneByOne => OneSession)'
  <2>1. \A q \in Leave!RequestId : request[q].row # "absent" =>
               request'[q].row # "absent" /\ request'[q].days = request[q].days
    BY <1>4, <1>7
  <2> QED BY <1>5, <1>8, <2>1, OthersRight
<1>10. \A q \in Session : q # p => ~Leave!At(q, "logging") /\ ~Leave!At(q, "handling")
  BY <1>8, Mine
<1>11. \A q \in Leave!RequestId : q # r => request[q].newest = request[q].status
  BY <1>10, LoggingMine DEF Exact, HistoryRight
<1>12. WorkRight(p)'
  BY <1>1, <1>2, <1>3, <1>4, <1>5, <1>6, <1>7 DEF WorkRight, Still
<1>13. HistoryRight' /\ Blank'
  <2>1. \A q \in Leave!RequestId : request'[q].newest = request'[q].status
    BY <1>4, <1>7, <1>11
  <2> QED BY <1>4, <1>7, <2>1 DEF HistoryRight, Exact, Blank
<1>14. used' = SumTo(CountedDays', LeaveRequests)
  <2>1. \A q \in Leave!RequestId : CountedAs(q) =
          IF q = r THEN request[q].newest ELSE request[q].status
    BY <1>8, <1>10, CountedMine
  <2>2. \A q \in Leave!RequestId : CountedAs(q)' =
          IF q = r THEN request'[q].before ELSE request'[q].status
    <3>1. \A q \in Leave!RequestId : CountedAs(q)' =
                 IF next.stage = "logging" /\ next.request = q THEN request'[q].newest
                 ELSE IF next.stage = "handling" /\ next.request = q THEN request'[q].before
                 ELSE request'[q].status
      BY <1>5, <1>10, CountedAfter
    <3> QED BY <1>6, <3>1
  <2>3. \A q \in Leave!RequestId : CountedAs(q)' = CountedAs(q)
          /\ request'[q].days = request[q].days
    BY <1>4, <1>7, <2>1, <2>2
  <2> QED BY <1>5, <2>3, SameDays
<1> QED BY <1>9, <1>12, <1>13, <1>14

\* and the balance.
LEMMA HandleExact ==
    ASSUME Leave!TypeOK, Exact, NEW p \in Session, Leave!Handle(p)
    PROVE  Exact'
<1> SUFFICES ASSUME Still \/ OneByOne
             PROVE  /\ (OneByOne => OneSession)' /\ \A q \in Session : WorkRight(q)'
                    /\ Blank' /\ HistoryRight' /\ used' = SumTo(CountedDays', LeaveRequests)
  BY DEF Exact, Still, OneByOne, Leave!Handle
<1> DEFINE w == desk[p]
           r == w.request
           row == request[r]
<1>1. w \in Leave!Work /\ r \in Leave!RequestId /\ row \in Leave!Request /\ w.stage = "handling"
      /\ w.days \in Nat
  BY DEF Leave!TypeOK, Leave!Work, Leave!Handle, Leave!At
<1>2. /\ w.days = row.days
      /\ row.status = w.status /\ LeaveAllowed(row.before, w.status)
  BY <1>1 DEF Exact, WorkRight
<1>3. request' = request /\ used' = Leave!Counted(row.before, w) /\ Leave!Done(p)
        /\ entries' = entries
  BY DEF Leave!Handle
<1>4. desk' = [desk EXCEPT ![p] = Leave!Idle] /\ desk'[p] = Leave!Idle
        /\ Leave!Idle.stage = "idle"
  BY <1>3 DEF Leave!Done, Leave!Goto, Leave!TypeOK, Leave!Idle
<1>5. ~Leave!At(p, "idle") /\ ~Leave!At(p, "logging") /\ Leave!At(p, "handling")
  BY <1>1 DEF Leave!At
<1>6. /\ \A q \in Session : q # p => WorkRight(q)'
      /\ (OneByOne => OneSession)'
  BY <1>3, <1>4, <1>5, OthersRight
<1>7. WorkRight(p)'
  BY <1>4 DEF WorkRight
<1>8. \A q \in Session : q # p => ~Leave!At(q, "logging") /\ ~Leave!At(q, "handling")
  BY <1>5, Mine
<1>9. HistoryRight' /\ Blank'
  <2>1. \A q \in Leave!RequestId : request[q].newest = request[q].status
    BY <1>5, <1>8, LoggingMine DEF HistoryRight, Exact
  <2> QED BY <1>3, <2>1 DEF HistoryRight, Exact, Blank
<1>10. used' = SumTo(CountedDays', LeaveRequests)
  <2>1. \A q \in Leave!RequestId : CountedAs(q) =
          IF q = r THEN request[q].before ELSE request[q].status
    BY <1>5, <1>8, CountedMine
  <2>2. \A q \in Leave!RequestId : CountedAs(q)' = request'[q].status
    BY <1>4, <1>8, CountedAfter
  <2>3. /\ CountedDays \in [Leave!RequestId -> Nat]
        /\ CountedDays[r] = IF row.before = "APPROVED" THEN w.days ELSE 0
    BY <1>1, <1>2, <2>1, CountedDaysType
  <2>4. CountedDays' = [CountedDays EXCEPT ![r] = IF w.status = "APPROVED" THEN w.days ELSE 0]
    BY <1>1, <1>2, <1>3, <2>1, <2>2, ZenonT(60) DEF CountedDays
  <2>5. used = SumTo(CountedDays, LeaveRequests)
    BY DEF Exact
  <2> HIDE DEF w
  <2>6. Leave!Counted(row.before, w) = SumTo(CountedDays', LeaveRequests)
    BY <1>1, <1>2, <2>3, <2>4, <2>5, CountRight
  <2> QED BY <1>3, <2>6
<1> QED BY <1>6, <1>7, <1>9, <1>10

LEMMA ExactStep == Leave!TypeOK /\ Exact /\ [Leave!Next]_(Leave!vars) => Exact'
<1> SUFFICES ASSUME Leave!TypeOK, Exact, [Leave!Next]_(Leave!vars) PROVE Exact'
  OBVIOUS
<1>1. CASE UNCHANGED Leave!vars
  BY <1>1 DEF Leave!vars, Exact, Still, OneByOne, OneSession, WorkRight, Blank, HistoryRight,
              LoggingAt, HandlingAt, CountedDays, CountedAs, Leave!At
<1>2. ASSUME NEW p \in Session, Leave!CommitApprove(p) PROVE Exact'
  <2>1. CASE Leave!Fits(desk[p].days)
    BY <1>2, <2>1, SaveExact DEF Leave!CommitApprove
  <2>2. CASE ~Leave!Fits(desk[p].days)
    BY <1>2, <2>2, DoneExact DEF Leave!CommitApprove, Leave!At
  <2> QED BY <2>1, <2>2
<1>3. ASSUME NEW p \in Session, Leave!CommitAdmin(p) PROVE Exact'
  BY <1>3, SaveExact DEF Leave!CommitAdmin
<1>4. ASSUME NEW p \in Session, Leave!Crash(p) PROVE Exact'
  BY <1>4, DoneExact DEF Leave!Crash
<1> QED BY <1>1, <1>2, <1>3, <1>4, CreateExact, AskExact, WriteExact, LogExact, HandleExact
        DEF Leave!Next

-----------------------------------------------------------------------------
(* No more days than there are. *)

LEMMA WithinStep == Leave!TypeOK /\ Within /\ [Leave!Next]_(Leave!vars) => Within'
<1> SUFFICES ASSUME Leave!TypeOK, Within, [Leave!Next]_(Leave!vars), ByTheView
             PROVE  /\ used' <= LeaveTotal
                    /\ \A p \in Session :
                          ~Leave!At(p, "idle")' /\ desk'[p].status = "APPROVED"
                            => Leave!At(p, "approving")'
  BY DEF Within, ByTheView, Leave!Next, Leave!vars, Leave!Create, Leave!AskApprove,
    Leave!AskReject,
     Leave!AskPatch, Leave!AskAdmin,
         Leave!AskRetire, Leave!CommitApprove, Leave!CommitAdmin, Leave!Write, Leave!Log,
            Leave!Handle, Leave!Crash
<1>0. /\ used <= LeaveTotal /\ used \in Nat /\ LeaveTotal \in Nat
      /\ \A p \in Session :
            desk[p].stage # "idle" /\ desk[p].status = "APPROVED" =>
                desk[p].stage = "approving"
  BY LeaveNumbers DEF Within, Leave!TypeOK, Leave!At
<1>1. ASSUME desk' = desk, used' = used
      PROVE  /\ used' <= LeaveTotal
             /\ \A p \in Session :
                   ~Leave!At(p, "idle")' /\ desk'[p].status = "APPROVED"
                     => Leave!At(p, "approving")'
  BY <1>0, <1>1 DEF Leave!At
\* A step that moves one session.
<1>2. ASSUME NEW p \in Session, NEW w, desk' = [desk EXCEPT ![p] = w],
             w.stage # "idle" /\ w.status = "APPROVED" => w.stage = "approving",
             used' <= LeaveTotal
      PROVE  /\ used' <= LeaveTotal
             /\ \A q \in Session :
                   ~Leave!At(q, "idle")' /\ desk'[q].status = "APPROVED"
                     => Leave!At(q, "approving")'
  <2>1. desk'[p] = w /\ \A q \in Session : q # p => desk'[q] = desk[q]
    BY <1>2 DEF Leave!TypeOK
  <2> QED BY <1>0, <1>2, <2>1 DEF Leave!At
<1>3. Leave!Idle.stage = "idle"
  BY DEF Leave!Idle
<1>4. ASSUME NEW p \in Session, Leave!Done(p), used' <= LeaveTotal
      PROVE  /\ used' <= LeaveTotal
             /\ \A q \in Session :
                   ~Leave!At(q, "idle")' /\ desk'[q].status = "APPROVED"
                     => Leave!At(q, "approving")'
  BY <1>2, <1>3, <1>4 DEF Leave!Done, Leave!Goto
<1>5. ASSUME NEW p \in Session, NEW before
      PROVE  /\ Leave!Counted(before, desk[p]) <= used + desk[p].days
             /\ desk[p].status # "APPROVED" => Leave!Counted(before, desk[p]) <= used
             /\ Leave!Counted(before, desk[p]) \in Nat
  BY <1>0 DEF Leave!Counted, Leave!TypeOK, Leave!Work
<1>6. ASSUME NEW p \in Session, NEW r \in Leave!RequestId,
             \/ Leave!AskApprove(p, r) \/ Leave!AskReject(p, r) \/ Leave!AskPatch(p, r)
                  \/ Leave!AskAdmin(p, r)
             \/ Leave!AskRetire(p, r)
      PROVE  /\ used' <= LeaveTotal
             /\ \A q \in Session :
                   ~Leave!At(q, "idle")' /\ desk'[q].status = "APPROVED"
                     => Leave!At(q, "approving")'
  <2>1. PICK w \in Leave!Work :
          /\ Leave!Goto(p, w) /\ UNCHANGED <<request, used, entries>>
          /\ w.status = "APPROVED" =>
               w.stage = "approving" \/ entries \cap {"grant", "edit", "retire"} # {}
    BY <1>6, Asks
  <2> QED BY <1>0, <1>2, <2>1 DEF Leave!Goto, ByTheView
<1>7. ASSUME NEW p \in Session, Leave!CommitApprove(p) PROVE used' <= LeaveTotal /\ Leave!Done(p)
  <2>1. CASE Leave!Fits(desk[p].days)
    <3>1. used + desk[p].days <= LeaveTotal /\ desk[p].days \in Nat
      BY <2>1 DEF Leave!Fits, Leave!TypeOK, Leave!Work
    <3>2. PICK before : used' = Leave!Counted(before, desk[p]) /\ Leave!Done(p)
      BY <1>7, <2>1 DEF Leave!CommitApprove, Leave!SaveAll
    <3>3. Leave!Counted(before, desk[p]) <= used + desk[p].days
          /\ Leave!Counted(before, desk[p]) \in Nat
      BY <1>5
    <3> QED BY <1>0, <3>1, <3>2, <3>3
  <2>2. CASE ~Leave!Fits(desk[p].days)
    BY <1>0, <1>7, <2>2 DEF Leave!CommitApprove
  <2> QED BY <2>1, <2>2
<1>8. ASSUME NEW p \in Session, Leave!CommitAdmin(p) \/ Leave!Handle(p) PROVE used' <= LeaveTotal
             /\ Leave!Done(p)
  <2>1. PICK before : used' = Leave!Counted(before, desk[p]) /\ Leave!Done(p)
    BY <1>8 DEF Leave!CommitAdmin, Leave!Handle, Leave!SaveAll
  <2>2. desk[p].status # "APPROVED"
    BY <1>0, <1>8 DEF Leave!CommitAdmin, Leave!Handle, Leave!At
  <2> QED BY <1>0, <1>5, <2>1, <2>2
<1>9. ASSUME NEW p \in Session, Leave!Write(p) \/ Leave!Log(p)
      PROVE  /\ used' <= LeaveTotal
             /\ \A q \in Session :
                   ~Leave!At(q, "idle")' /\ desk'[q].status = "APPROVED"
                     => Leave!At(q, "approving")'
  <2>1. desk[p] \in Leave!Work /\ desk[p].status # "APPROVED" /\ used' = used
    BY <1>0, <1>9 DEF Leave!Write, Leave!Log, Leave!At, Leave!TypeOK
  <2>2. PICK g \in {"logging", "handling"} :
          desk' = [desk EXCEPT ![p] = [desk[p] EXCEPT !.stage = g]]
    BY <1>9 DEF Leave!Write, Leave!Log, Leave!Goto
  <2>3. [desk[p] EXCEPT !.stage = g].status = desk[p].status
    BY <2>1 DEF Leave!Work
  <2> DEFINE w == [desk[p] EXCEPT !.stage = g]
  <2> HIDE DEF w
  <2>4. desk' = [desk EXCEPT ![p] = w] /\ w.status # "APPROVED"
    BY <2>1, <2>2, <2>3 DEF w
  <2> QED BY <1>0, <1>2, <2>1, <2>4
<1>10. ASSUME NEW p \in Session, Leave!Crash(p) PROVE used' <= LeaveTotal /\ Leave!Done(p)
  BY <1>0, <1>10 DEF Leave!Crash
<1>11. CASE UNCHANGED Leave!vars
  BY <1>1, <1>11 DEF Leave!vars
<1>12. ASSUME NEW r \in Leave!RequestId, NEW d \in LeaveDays, Leave!Create(r, d)
       PROVE  desk' = desk /\ used' = used
  BY <1>12 DEF Leave!Create
<1> QED BY <1>1, <1>4, <1>6, <1>7, <1>8, <1>9, <1>10, <1>11, <1>12 DEF Leave!Next

-----------------------------------------------------------------------------
(* The invariant. *)

LEMMA LeaveStarts == Leave!Init => LeaveInv
<1> SUFFICES ASSUME Leave!Init PROVE LeaveInv
  OBVIOUS
<1> USE DEF Leave!Init
<1>1. Leave!NoRequest \in Leave!Request
  BY DEF Leave!NoRequest, Leave!Request, Leave!Status
<1>2. Leave!TypeOK
  BY <1>1, LeaveIdle DEF Leave!TypeOK
<1>3. /\ \A p \in Session : desk[p].stage = "idle"
      /\ \A r \in Leave!RequestId : request[r] = Leave!NoRequest /\ request[r].status = "PENDING"
                                    /\ request[r].newest = "PENDING"
  BY DEF Leave!Idle, Leave!NoRequest
<1>4. \A r \in Leave!RequestId : CountedAs(r) = "PENDING"
  BY <1>3 DEF CountedAs, LoggingAt, HandlingAt, Leave!At
<1>5. CountedDays = [r \in Leave!RequestId |-> 0]
  BY <1>4 DEF CountedDays
<1>6. used = SumTo(CountedDays, LeaveRequests)
  <2> DEFINE N == LeaveRequests
             f == CountedDays
  <2>1. N \in Nat /\ N \in 0..N /\ f \in [1..N -> Int] /\ \A r \in 1..N : f[r] = 0
    BY <1>5, LeaveNumbers DEF Leave!RequestId
  <2> HIDE DEF N, f
  <2>2. SumTo(f, N) = 0
    BY <2>1, SumToZero
  <2> QED BY <2>2 DEF N, f
<1>7. Exact
  BY <1>3, <1>6 DEF Exact, OneSession, WorkRight, Blank, HistoryRight, Leave!At
<1>8. Within
  BY <1>3, LeaveNumbers DEF Within, Leave!At
<1> QED BY <1>2, <1>7, <1>8 DEF LeaveInv

LEMMA LeaveStep == LeaveInv /\ [Leave!Next]_(Leave!vars) => LeaveInv'
BY LeaveTypes, ExactStep, WithinStep DEF LeaveInv

LEMMA LeaveKeeps == LeaveInv => Leave!UsedExact /\ Leave!WithinTotal
<1> SUFFICES ASSUME LeaveInv PROVE Leave!UsedExact /\ Leave!WithinTotal
  OBVIOUS
<1>1. ASSUME Leave!AtRest, Still \/ OneByOne PROVE used = SumTo(Leave!Granted, LeaveRequests)
  <2>1. \A r \in Leave!RequestId : CountedAs(r) = request[r].status
    BY <1>1 DEF CountedAs, LoggingAt, HandlingAt, Leave!AtRest, Leave!At
  <2>2. CountedDays = Leave!Granted
    BY <2>1 DEF CountedDays, Leave!Granted
  <2> QED BY <1>1, <2>2 DEF LeaveInv, Exact
<1>2. Leave!UsedExact
  BY <1>1 DEF Leave!UsedExact, Leave!SumTo, SumTo, Still, OneByOne
<1> QED BY <1>2 DEF LeaveInv, Within, Leave!WithinTotal, ByTheView

-----------------------------------------------------------------------------
(* The count of a stock. *)

\* What the constants of this part are.
LEMMA StockCountNumbers ==
    CountedProducts \in Nat \ {0} /\ MostStock \in Nat
BY BackOfficeAssumption

-----------------------------------------------------------------------------
(* Types. *)

LEMMA StockCountCountedType ==
    ASSUME NEW a \in 0..MostStock, NEW b \in 0..MostStock, NEW c \in BOOLEAN
    PROVE  /\ StockCount!Counted(a, b, c) \in StockCount!Item
           /\ StockCount!Counted(a, b, c).system = a /\ StockCount!Counted(a, b, c).actual = b
           /\ StockCount!Counted(a, b, c).difference = b - a
                /\ StockCount!Counted(a, b, c).adjusted = c
BY StockCountNumbers DEF StockCount!Counted, StockCount!Item

LEMMA CountIdle == StockCount!Idle \in StockCount!Work /\ StockCount!Idle.stage = "idle"
<1> DEFINE x == StockCount!Counted(0, 0, FALSE)
<1>1. 0 \in 0..MostStock /\ 1 \in StockCount!ProductId
  BY StockCountNumbers DEF StockCount!ProductId
<1>2. x \in StockCount!Item
  BY <1>1, StockCountCountedType
<1>3. StockCount!Idle = [stage |-> "idle", product |-> 1, item |-> x, todo |-> {}]
  BY DEF StockCount!Idle
<1> HIDE DEF x
<1> QED BY <1>1, <1>2, <1>3 DEF StockCount!Work

\* The fields of an item.
LEMMA ItemFields ==
    ASSUME StockCount!TypeOK, NEW i \in StockCount!ProductId
    PROVE  /\ counted[i] \in StockCount!Item /\ counted[i].system \in 0..MostStock
                /\ counted[i].actual \in 0..MostStock
           /\ counted[i].difference \in (-MostStock)..MostStock /\ counted[i].adjusted \in BOOLEAN
           /\ stock[i] \in 0..MostStock /\ since[i] \in Int
BY DEF StockCount!TypeOK, StockCount!Item

-----------------------------------------------------------------------------
(* The invariant. *)

Alone == "race" \notin entries

OneRequest == \A p, q \in Session : ~StockCount!At(p, "idle") /\ ~StockCount!At(q, "idle")
  => p = q

\* Until the adjustment, the stock is what the count was created with and what has
\* moved since, and the differences are those to what was counted.
Open(i) ==
    /\ stock[i] = counted[i].system + since[i]
    /\ counted[i].difference = counted[i].actual - counted[i].system
    /\ ~counted[i].adjusted

\* What a request has in memory is what is stored.
MemoryRight(p) ==
    LET w == desk[p]
    IN  /\ w.stage # "idle" => count # "NONE"
        /\ w.stage \in {"updating", "examining", "adjusting", "posting", "completing"} =>
              count # "ADJUSTED"
        /\ w.stage = "completing" => StockCount!Differing = {}
        /\ w.stage = "posting" => w.todo = StockCount!Differing
        /\ w.stage = "administering" =>
              /\ w.item.system = counted[w.product].system
              /\ w.item.difference = w.item.actual - w.item.system
              /\ w.item.adjusted = counted[w.product].adjusted

CountInv ==
    /\ StockCount!TypeOK
    /\ Alone =>
          /\ OneRequest /\ \A p \in Session : MemoryRight(p)
          /\ count \in {"DRAFT", "IN_PROGRESS", "COMPLETED"} => \A i \in StockCount!ProductId :
               Open(i)

LEMMA CountStarts == StockCount!Init => CountInv
<1> SUFFICES ASSUME StockCount!Init PROVE CountInv
  OBVIOUS
<1> USE DEF StockCount!Init
<1>1. StockCount!Counted(0, 0, FALSE) \in StockCount!Item
  <2>1. 0 \in 0..MostStock
    BY StockCountNumbers
  <2> QED BY <2>1, StockCountCountedType
<1>2. StockCount!TypeOK
  <2> DEFINE x == StockCount!Counted(0, 0, FALSE)
  <2>1. counted = [i \in StockCount!ProductId |-> x] /\ x \in StockCount!Item
    BY <1>1
  <2> HIDE DEF x
  <2>2. counted \in [StockCount!ProductId -> StockCount!Item]
    BY <2>1
  <2>3. desk \in [Session -> StockCount!Work] /\ since \in [StockCount!ProductId -> Int]
    BY CountIdle
  <2> QED BY <2>2, <2>3 DEF StockCount!TypeOK, StockCount!Status
<1>3. \A p \in Session : desk[p].stage = "idle"
  BY CountIdle
<1> QED BY <1>2, <1>3 DEF CountInv, OneRequest, MemoryRight, StockCount!At

\* What is kept of a count by a step that moves one request.
LEMMA OnlyOne ==
    ASSUME CountInv, Alone, NEW p \in Session, NEW w, StockCount!Goto(p, w),
           ~StockCount!At(p, "idle") \/ \A q \in Session : StockCount!At(q, "idle")
    PROVE  /\ desk'[p] = w
           /\ \A q \in Session : q # p => desk'[q].stage = "idle" /\ desk[q].stage = "idle"
           /\ OneRequest'
<1>1. desk'[p] = w /\ \A q \in Session : q # p => desk'[q] = desk[q]
  BY DEF StockCount!Goto, CountInv, StockCount!TypeOK
<1>2. \A q \in Session : q # p => desk[q].stage = "idle"
  BY DEF CountInv, OneRequest, StockCount!At
<1>3. \A q \in Session : q # p => desk'[q].stage = "idle"
  BY <1>1, <1>2
<1>4. \A q \in Session : q # p => StockCount!At(q, "idle")'
  BY <1>3 DEF StockCount!At
<1> QED BY <1>1, <1>2, <1>3, <1>4 DEF OneRequest

LEMMA GotoType ==
    ASSUME StockCount!TypeOK, NEW p \in Session, NEW w \in StockCount!Work, StockCount!Goto(p, w)
    PROVE  desk' \in [Session -> StockCount!Work]
BY DEF StockCount!Goto, StockCount!TypeOK

LEMMA DoneType ==
    ASSUME StockCount!TypeOK, NEW p \in Session, StockCount!Done(p)
    PROVE  desk' \in [Session -> StockCount!Work]
BY GotoType, CountIdle DEF StockCount!Done

LEMMA CreateStep ==
    ASSUME CountInv, StockCount!Create
    PROVE  CountInv' /\ StockCount!ClosesExact
<1>1. \A i \in StockCount!ProductId :
        /\ stock[i] \in 0..MostStock
             /\ counted'[i] = StockCount!Counted(stock[i], stock[i], FALSE)
        /\ counted'[i] \in StockCount!Item /\ counted'[i].system = stock[i]
             /\ counted'[i].actual = stock[i]
        /\ counted'[i].difference = stock[i] - stock[i] /\ ~counted'[i].adjusted
        /\ since'[i] = 0 /\ stock'[i] = stock[i]
  BY StockCountCountedType, ZenonT(60) DEF StockCount!Create, CountInv, StockCount!TypeOK
<1>2. StockCount!TypeOK'
  <2>1. counted' \in [StockCount!ProductId -> StockCount!Item]
    BY <1>1 DEF StockCount!Create
  <2>2. since' \in [StockCount!ProductId -> Int]
    BY DEF StockCount!Create
  <2> QED BY <2>1, <2>2 DEF StockCount!Create, CountInv, StockCount!TypeOK, StockCount!Status
<1>3. ASSUME Alone PROVE /\ OneRequest' /\ \A p \in Session : MemoryRight(p)'
                         /\ \A i \in StockCount!ProductId : Open(i)'
  <2>1. \A p \in Session : desk'[p].stage = "idle"
    BY <1>3 DEF StockCount!Create, CountInv, MemoryRight
  <2>2. \A i \in StockCount!ProductId : Open(i)'
    <3> TAKE i \in StockCount!ProductId
    <3>1. stock[i] \in 0..MostStock
      BY ItemFields DEF CountInv
    <3>2. stock[i] = stock[i] + 0
      BY <3>1, StockCountNumbers
    <3> QED BY <1>1, <3>2 DEF Open
  <2>3. OneRequest'
    BY <2>1 DEF OneRequest, StockCount!At
  <2> QED BY <2>1, <2>2, <2>3 DEF MemoryRight
<1>4. Alone' <=> Alone
  BY DEF StockCount!Create, Alone
<1> QED BY <1>2, <1>3, <1>4 DEF CountInv, StockCount!ClosesExact, StockCount!Create

LEMMA MoveStep ==
    ASSUME CountInv, NEW i \in StockCount!ProductId, NEW n \in {-1, 1}, StockCount!Move(i, n)
    PROVE  CountInv' /\ StockCount!ClosesExact
<1>1. /\ stock'[i] = stock[i] + n /\ since'[i] = since[i] + n
      /\ \A j \in StockCount!ProductId : j # i => stock'[j] = stock[j] /\ since'[j] = since[j]
  BY DEF StockCount!Move, CountInv, StockCount!TypeOK
<1>2. StockCount!TypeOK'
  <2>1. stock' \in [StockCount!ProductId -> 0..MostStock]
    BY DEF StockCount!Move, CountInv, StockCount!TypeOK
  <2>2. since' \in [StockCount!ProductId -> Int]
    BY DEF StockCount!Move, CountInv, StockCount!TypeOK
  <2> QED BY <2>1, <2>2 DEF StockCount!Move, CountInv, StockCount!TypeOK
<1>3. \A j \in StockCount!ProductId : counted[j].system \in 0..MostStock
        /\ stock[j] \in 0..MostStock /\ since[j] \in Int
  BY ItemFields DEF CountInv
<1>4. ASSUME NEW j \in StockCount!ProductId, Open(j) PROVE Open(j)'
  <2>1. stock'[j] = counted[j].system + since'[j]
    BY <1>1, <1>3, <1>4, StockCountNumbers DEF Open
  <2> QED BY <1>4, <2>1 DEF Open, StockCount!Move
<1>5. /\ OneRequest => OneRequest'
      /\ (Alone' <=> Alone)
      /\ \A p \in Session : MemoryRight(p) => MemoryRight(p)'
  BY DEF StockCount!Move, OneRequest, StockCount!At, Alone, MemoryRight, StockCount!Differing
<1> QED BY <1>2, <1>4, <1>5 DEF CountInv, StockCount!ClosesExact, StockCount!Move

\* A request that loads something, and changes nothing else.
LEMMA LoadStep ==
    ASSUME CountInv, NEW p \in Session, NEW w \in StockCount!Work, StockCount!Goto(p, w),
           UNCHANGED <<stock, since, count, counted, entries>>,
           ~StockCount!At(p, "idle")
             \/ ("race" \in entries \/ \A q \in Session : StockCount!At(q, "idle")),
           Alone => MemoryRight(p)'
    PROVE  CountInv' /\ StockCount!ClosesExact
<1>1. StockCount!TypeOK'
  BY GotoType DEF CountInv, StockCount!TypeOK
<1>2. ASSUME Alone PROVE OneRequest' /\ \A q \in Session : MemoryRight(q)'
  <2>1. /\ \A q \in Session : q # p => desk'[q].stage = "idle" /\ desk[q].stage = "idle"
        /\ OneRequest'
    BY <1>2, OnlyOne DEF Alone
  <2> QED BY <1>2, <2>1 DEF MemoryRight
<1>3. (\A i \in StockCount!ProductId : Open(i)) => \A i \in StockCount!ProductId : Open(i)'
  BY DEF Open
<1> QED BY <1>1, <1>2, <1>3 DEF CountInv, Alone, StockCount!ClosesExact

LEMMA AskStep ==
    ASSUME CountInv, NEW p \in Session, StockCount!AskUpdate(p) \/ StockCount!AskAdjust(p)
    PROVE  CountInv' /\ StockCount!ClosesExact
<1>1. PICK g \in {"updating", "examining"} :
        /\ StockCount!Starts(p) /\ count # "ADJUSTED"
        /\ StockCount!Goto(p, [StockCount!Idle EXCEPT !.stage = g])
        /\ UNCHANGED <<stock, since, count, counted, entries>>
  BY DEF StockCount!AskUpdate, StockCount!AskAdjust
<1> DEFINE w == [StockCount!Idle EXCEPT !.stage = g]
<1>2. w \in StockCount!Work /\ w.stage = g
  BY CountIdle DEF StockCount!Work
<1>3. StockCount!Goto(p, w)
  BY <1>1
<1> HIDE DEF w
<1>4. desk'[p] = w
  BY <1>3 DEF StockCount!Goto, CountInv, StockCount!TypeOK
<1>5. MemoryRight(p)'
  BY <1>1, <1>2, <1>4 DEF MemoryRight, StockCount!Starts
<1> QED BY <1>1, <1>2, <1>3, <1>5, LoadStep DEF StockCount!Starts

LEMMA AskItemStep ==
    ASSUME CountInv, NEW p \in Session, NEW i \in StockCount!ProductId, NEW n \in 0..MostStock,
           StockCount!AskItem(p, i, n)
    PROVE  CountInv' /\ StockCount!ClosesExact
<1> DEFINE x == StockCount!Counted(counted[i].system, n, counted[i].adjusted)
           w == [StockCount!Idle EXCEPT !.stage = "administering", !.product = i, !.item = x]
<1>1. /\ x \in StockCount!Item /\ x.system = counted[i].system /\ x.actual = n
      /\ x.difference = n - counted[i].system /\ x.adjusted = counted[i].adjusted
  BY ItemFields, StockCountCountedType DEF CountInv
<1>2. StockCount!Goto(p, w) /\ StockCount!Starts(p)
        /\ UNCHANGED <<stock, since, count, counted, entries>>
  BY DEF StockCount!AskItem
<1> HIDE DEF x
<1>3. w \in StockCount!Work /\ w.stage = "administering" /\ w.product = i /\ w.item = x
  BY <1>1, CountIdle DEF StockCount!Work
<1> HIDE DEF w
<1>4. desk'[p] = w
  BY <1>2 DEF StockCount!Goto, CountInv, StockCount!TypeOK
<1>5. MemoryRight(p)'
  BY <1>1, <1>2, <1>3, <1>4 DEF MemoryRight, StockCount!Starts
<1> QED BY <1>2, <1>3, <1>5, LoadStep DEF StockCount!Starts

LEMMA ExamineStep ==
    ASSUME CountInv, NEW p \in Session, StockCount!Examine(p)
    PROVE  CountInv' /\ StockCount!ClosesExact
<1>1. PICK g \in {"completing", "adjusting"} :
        /\ g = "completing" => StockCount!Differing = {}
        /\ StockCount!Goto(p, [desk[p] EXCEPT !.stage = g])
  BY DEF StockCount!Examine
<1> DEFINE w == [desk[p] EXCEPT !.stage = g]
<1>0. desk[p] \in StockCount!Work
  BY DEF CountInv, StockCount!TypeOK
<1>2. w \in StockCount!Work /\ w.stage = g
  BY <1>0 DEF StockCount!Work
<1>3. StockCount!Goto(p, w)
  BY <1>1
<1> HIDE DEF w
<1>4. desk'[p] = w
  BY <1>3 DEF StockCount!Goto, CountInv, StockCount!TypeOK
<1>5. ASSUME Alone PROVE MemoryRight(p)'
  <2>1. count # "NONE" /\ count # "ADJUSTED"
    BY <1>5 DEF CountInv, MemoryRight, StockCount!Examine, StockCount!At
  <2> QED BY <1>1, <1>2, <1>4, <2>1 DEF MemoryRight, StockCount!Examine, StockCount!Differing
<1> QED BY <1>2, <1>3, <1>5, LoadStep DEF StockCount!Examine, StockCount!At

LEMMA FetchStep ==
    ASSUME CountInv, NEW p \in Session, StockCount!Fetch(p)
    PROVE  CountInv' /\ StockCount!ClosesExact
<1> DEFINE w == [desk[p] EXCEPT !.stage = "posting", !.todo = StockCount!Differing]
<1>1. StockCount!Differing \in SUBSET StockCount!ProductId
  BY DEF StockCount!Differing
<1>0. desk[p] \in StockCount!Work
  BY DEF CountInv, StockCount!TypeOK
<1>2. w \in StockCount!Work /\ w.stage = "posting" /\ w.todo = StockCount!Differing
  BY <1>0, <1>1 DEF StockCount!Work
<1>3. StockCount!Goto(p, w)
  BY DEF StockCount!Fetch
<1> HIDE DEF w
<1>4. desk'[p] = w
  BY <1>3 DEF StockCount!Goto, CountInv, StockCount!TypeOK
<1>5. ASSUME Alone PROVE MemoryRight(p)'
  <2>1. count # "NONE" /\ count # "ADJUSTED"
    BY <1>5 DEF CountInv, MemoryRight, StockCount!Fetch, StockCount!At
  <2> QED BY <1>2, <1>4, <2>1 DEF MemoryRight, StockCount!Fetch, StockCount!Differing
<1> QED BY <1>2, <1>3, <1>5, LoadStep DEF StockCount!Fetch, StockCount!At

\* A request that ends, when no other one is in progress.
LEMMA EndStep ==
    ASSUME CountInv, NEW p \in Session, StockCount!Done(p), ~StockCount!At(p, "idle"), Alone
    PROVE  OneRequest' /\ \A q \in Session : MemoryRight(q)'
<1>1. StockCount!Goto(p, StockCount!Idle) /\ StockCount!Idle.stage = "idle"
  BY CountIdle DEF StockCount!Done
<1>2. /\ desk'[p] = StockCount!Idle /\ OneRequest'
      /\ \A q \in Session : q # p => desk'[q].stage = "idle"
  BY <1>1, OnlyOne
<1>3. \A q \in Session : desk'[q].stage = "idle"
  BY <1>1, <1>2
<1> QED BY <1>2, <1>3 DEF MemoryRight

LEMMA CommitUpdateStep ==
    ASSUME CountInv, NEW p \in Session, StockCount!CommitUpdate(p)
    PROVE  CountInv' /\ StockCount!ClosesExact
<1>1. StockCount!TypeOK'
  BY DoneType DEF StockCount!CommitUpdate, CountInv, StockCount!TypeOK, StockCount!Status
<1>2. ~StockCount!At(p, "idle") /\ (Alone' <=> Alone)
  BY DEF StockCount!CommitUpdate, StockCount!At, Alone
<1>3. ASSUME Alone PROVE count \in {"DRAFT", "IN_PROGRESS", "COMPLETED"}
  BY <1>3 DEF StockCount!CommitUpdate, CountInv, MemoryRight, StockCount!At, StockCount!TypeOK,
     StockCount!Status
<1>4. (\A i \in StockCount!ProductId : Open(i)) => \A i \in StockCount!ProductId : Open(i)'
  BY DEF Open, StockCount!CommitUpdate
<1>5. StockCount!ClosesExact
  BY DEF StockCount!ClosesExact, StockCount!CommitUpdate
<1> QED BY <1>1, <1>2, <1>3, <1>4, <1>5, EndStep DEF CountInv, StockCount!CommitUpdate

LEMMA CompleteStep ==
    ASSUME CountInv, NEW p \in Session, StockCount!Complete(p)
    PROVE  CountInv' /\ StockCount!ClosesExact
<1>1. StockCount!TypeOK'
  BY DoneType DEF StockCount!Complete, CountInv, StockCount!TypeOK, StockCount!Status
<1>2. ~StockCount!At(p, "idle") /\ (Alone' <=> Alone)
  BY DEF StockCount!Complete, StockCount!At, Alone
<1>3. ASSUME Alone PROVE count \in {"DRAFT", "IN_PROGRESS", "COMPLETED"}
             /\ StockCount!Differing = {}
  BY <1>3 DEF StockCount!Complete, CountInv, MemoryRight, StockCount!At, StockCount!TypeOK,
     StockCount!Status
<1>4. (\A i \in StockCount!ProductId : Open(i)) => \A i \in StockCount!ProductId : Open(i)'
  BY DEF Open, StockCount!Complete
<1>5. ASSUME Alone, NEW i \in StockCount!ProductId
      PROVE  stock'[i] = counted'[i].actual + since'[i]
  <2>1. Open(i) /\ counted[i].difference = 0
    BY <1>3, <1>5 DEF CountInv, StockCount!Differing, Open
  <2> QED BY <2>1, ItemFields, StockCountNumbers DEF Open, StockCount!Complete, CountInv
<1> QED BY <1>1, <1>2, <1>3, <1>4, <1>5, EndStep DEF CountInv, StockCount!Complete,
   StockCount!ClosesExact, Alone

LEMMA CommitItemStep ==
    ASSUME CountInv, NEW p \in Session, StockCount!CommitItem(p)
    PROVE  CountInv' /\ StockCount!ClosesExact
<1>1. PICK i \in StockCount!ProductId, x \in StockCount!Item :
        desk[p].product = i /\ desk[p].item = x /\ counted' = [counted EXCEPT ![i] = x]
  BY DEF StockCount!CommitItem, CountInv, StockCount!TypeOK, StockCount!Work
<1>2. counted'[i] = x /\ \A j \in StockCount!ProductId : j # i => counted'[j] = counted[j]
  BY <1>1 DEF CountInv, StockCount!TypeOK
<1>3. StockCount!TypeOK'
  BY <1>1, DoneType DEF StockCount!CommitItem, CountInv, StockCount!TypeOK
<1>4. ~StockCount!At(p, "idle") /\ (Alone' <=> Alone)
  BY DEF StockCount!CommitItem, StockCount!At, Alone
<1>5. ASSUME Alone, NEW j \in StockCount!ProductId, Open(j) PROVE Open(j)'
  <2>1. /\ x.system = counted[i].system /\ x.difference = x.actual - x.system
        /\ x.adjusted = counted[i].adjusted
    BY <1>1, <1>5 DEF StockCount!CommitItem, CountInv, MemoryRight, StockCount!At
  <2> QED BY <1>2, <1>5, <2>1 DEF Open, StockCount!CommitItem
<1>6. StockCount!ClosesExact
  BY DEF StockCount!ClosesExact, StockCount!CommitItem
<1> QED BY <1>3, <1>4, <1>5, <1>6, EndStep DEF CountInv, StockCount!CommitItem

LEMMA PostStep ==
    ASSUME CountInv, NEW p \in Session, StockCount!Post(p)
    PROVE  CountInv' /\ StockCount!ClosesExact
<1> SUFFICES ASSUME NEW these \in SUBSET StockCount!ProductId, these = desk[p].todo
             PROVE  CountInv' /\ StockCount!ClosesExact
  BY DEF CountInv, StockCount!TypeOK, StockCount!Work
<1>1. ~StockCount!At(p, "idle") /\ (Alone' <=> Alone) /\ StockCount!Done(p) /\ since' = since
        /\ entries' = entries
  BY DEF StockCount!Post, StockCount!At, Alone
<1>2. CASE ~StockCount!Enough(these)
  <2>1. UNCHANGED <<stock, counted, count>>
    BY <1>2 DEF StockCount!Post
  <2>2. StockCount!TypeOK'
    BY <1>1, <2>1, DoneType DEF CountInv, StockCount!TypeOK
  <2>3. (\A i \in StockCount!ProductId : Open(i)) => \A i \in StockCount!ProductId : Open(i)'
    BY <1>1, <2>1 DEF Open
  <2> QED BY <1>1, <2>1, <2>2, <2>3, EndStep DEF CountInv, StockCount!ClosesExact
<1>3. CASE StockCount!Enough(these)
  <2>1. /\ stock' = [i \in StockCount!ProductId |->
              IF i \in these THEN stock[i] + StockCount!Difference(i) ELSE stock[i]]
        /\ counted' = [i \in StockCount!ProductId |->
              StockCount!Counted(counted[i].system, counted[i].actual,
                                 counted[i].adjusted \/ i \in these)]
        /\ count' = "ADJUSTED" /\ \A i \in these :
             stock[i] + StockCount!Difference(i) <= MostStock
    BY <1>3 DEF StockCount!Post
  <2>2. ASSUME NEW i \in StockCount!ProductId
        PROVE  /\ counted'[i] \in StockCount!Item /\ counted'[i].actual = counted[i].actual
               /\ stock'[i] = IF i \in these THEN stock[i] + StockCount!Difference(i) ELSE stock[i]
               /\ stock'[i] \in 0..MostStock
    <3>1. /\ counted[i].system \in 0..MostStock /\ counted[i].actual \in 0..MostStock
               /\ stock[i] \in 0..MostStock
          /\ counted[i].adjusted \in BOOLEAN /\ counted[i].difference \in (-MostStock)..MostStock
      BY ItemFields DEF CountInv
    <3>2. PICK b \in BOOLEAN :
            counted'[i] = StockCount!Counted(counted[i].system, counted[i].actual, b)
      BY <2>1, <3>1
    <3>3. counted'[i] \in StockCount!Item /\ counted'[i].actual = counted[i].actual
      BY <3>1, <3>2, StockCountCountedType
    <3>4. stock'[i] = IF i \in these THEN stock[i] + StockCount!Difference(i) ELSE stock[i]
      BY <2>1
    <3>5. stock'[i] \in 0..MostStock
      BY <1>3, <2>1, <3>1, <3>4, StockCountNumbers DEF StockCount!Enough, StockCount!Difference
    <3> QED BY <3>3, <3>4, <3>5
  <2>3. StockCount!TypeOK'
    <3>1. stock' \in [StockCount!ProductId -> 0..MostStock]
      BY <2>1, <2>2
    <3>2. counted' \in [StockCount!ProductId -> StockCount!Item]
      BY <2>1, <2>2
    <3> QED BY <1>1, <2>1, <3>1, <3>2, DoneType DEF CountInv, StockCount!TypeOK, StockCount!Status
  <2>4. ASSUME Alone, NEW i \in StockCount!ProductId
        PROVE  stock'[i] = counted'[i].actual + since'[i]
    <3>1. count \in {"DRAFT", "IN_PROGRESS", "COMPLETED"} /\ these = StockCount!Differing
      BY <2>4 DEF CountInv, MemoryRight, StockCount!Post, StockCount!At, StockCount!TypeOK,
         StockCount!Status
    <3>2. Open(i)
      BY <2>4, <3>1 DEF CountInv
    <3>3. i \in these <=> counted[i].difference # 0
      BY <3>1, <3>2 DEF StockCount!Differing, Open
    <3>4. /\ counted[i].system \in 0..MostStock /\ counted[i].actual \in 0..MostStock
               /\ stock[i] \in 0..MostStock
          /\ since[i] \in Int
      BY ItemFields DEF CountInv
    <3> QED BY <1>1, <2>2, <3>2, <3>3, <3>4, StockCountNumbers DEF Open, StockCount!Difference
  <2> QED BY <1>1, <2>1, <2>3, <2>4, EndStep DEF CountInv, StockCount!ClosesExact, Alone
<1> QED BY <1>2, <1>3

LEMMA CountStep == CountInv /\ [StockCount!Next]_(StockCount!vars) => CountInv'
    /\ [StockCount!ClosesExact]_(StockCount!vars)
<1> SUFFICES ASSUME CountInv, [StockCount!Next]_(StockCount!vars) PROVE CountInv'
                    /\ [StockCount!ClosesExact]_(StockCount!vars)
  OBVIOUS
<1>1. CASE UNCHANGED StockCount!vars
  BY <1>1 DEF StockCount!vars, CountInv, StockCount!TypeOK, Alone, OneRequest, MemoryRight,
     StockCount!At, StockCount!Differing, Open
<1> QED BY <1>1, CreateStep, MoveStep, AskStep, AskItemStep, ExamineStep, FetchStep,
           CommitUpdateStep, CompleteStep, CommitItemStep, PostStep
        DEF StockCount!Next, StockCount!Counting, StockCount!Adjusting

-----------------------------------------------------------------------------
(* Pick orders and put-away. *)

\* What the constants of this part are.
LEMMA PickingNumbers ==
    PickOpening \subseteq Nat /\ MostMoves \in Nat
BY BackOfficeAssumption

-----------------------------------------------------------------------------
(* The invariant. *)

\* A request of the documents, and one at a time where none race.
PickingWorkRight ==
    /\ document \in [Picking!Doc -> Picking!Status] /\ opening \in [Picking!Product -> Nat]
    /\ \A p \in Session :
         /\ desk[p].to \in Picking!StatusOf(desk[p].doc)
         /\ ~Picking!At(p, "idle") => desk[p].entry \in entries
    /\ "race" \notin entries => \A p, q \in Session : ~Picking!At(p, "idle")
         /\ ~Picking!At(q, "idle") => p = q

\* What is locked is what has been looked at, by one request only.
HeldRight ==
    \A p \in Session :
        /\ ~Picking!At(p, "moving") => desk[p].held = {} /\ desk[p].next = 1
        /\ desk[p].next = 1 => desk[p].held = {}
        /\ desk[p].next = 2 => desk[p].held = {Picking!ItemsOf[desk[p].doc][1]}
        /\ desk[p].next = 3 => desk[p].held = Picking!Product /\ desk[p].doc \in Picking!Pick
OneHolder ==
    \A p, r \in Session : p # r => desk[p].held \cap desk[r].held = {}

\* What a pick order has looked at is still there.
StillThere ==
    \A p \in Session : desk[p].doc \in Picking!Pick => \A q \in desk[p].held :
      Picking!Stock(q) >= 1

\* Where the goods go with the row: whoever has read that they moved is right.
WithTheRow == "patch" \notin entries /\ ~({"form", "race"} \subseteq entries)
ReadRight ==
    \A p \in Session :
        /\ Picking!At(p, "writing") /\ desk[p].old \in Picking!Moved(desk[p].doc) =>
                     moved[desk[p].doc] > 0
        /\ Picking!At(p, "moving") => desk[p].entry = "admin"
        /\ desk[p].entry = "form" /\ Picking!At(p, "saving") =>
             desk[p].to = document[desk[p].doc]
        /\ desk[p].entry = "form" /\ Picking!At(p, "writing") =>
             desk[p].to = document[desk[p].doc] /\ desk[p].old = desk[p].to

\* One request at a time, never set back: what has moved stays moved.
NeverBack == entries \cap {"race", "back"} = {}
StaysMoved ==
    /\ \A d \in Picking!Doc : moved[d] <= 1 /\ (moved[d] = 1 => document[d] \in Picking!Moved(d))
    /\ \A p \in Session :
        /\ Picking!At(p, "moving") =>
                     /\ moved[desk[p].doc] = 0 /\ desk[p].to \in Picking!Moved(desk[p].doc)
                     /\ desk[p].entry = "admin"
                          \/ document[desk[p].doc] \in Picking!Moved(desk[p].doc)
        /\ Picking!At(p, "writing") => desk[p].old = document[desk[p].doc]
        /\ desk[p].stage \in {"saving", "writing"}
           /\ document[desk[p].doc] \in Picking!Moved(desk[p].doc) =>
             desk[p].to \in Picking!Moved(desk[p].doc)

PickingInv ==
    /\ Picking!TypeOK /\ PickingWorkRight /\ HeldRight /\ OneHolder /\ StillThere
         /\ Picking!NeverOversold
    /\ WithTheRow => ReadRight /\ Picking!FinishedMoved
    /\ NeverBack => StaysMoved

-----------------------------------------------------------------------------
(* The documents. *)

LEMMA Documents ==
    /\ Picking!Doc = {1, 2, 3} /\ Picking!Pick \subseteq Picking!Doc /\ Picking!PutAway = 3
         /\ Picking!PutAway \notin Picking!Pick
    /\ \A d \in Picking!Doc : "PENDING" \in Picking!StatusOf(d)
         /\ "PENDING" \notin Picking!Moved(d)
    /\ \A d \in Picking!Doc : Picking!StatusOf(d) \subseteq Picking!Status
         /\ Picking!Moved(d) \subseteq Picking!Status
    /\ \A d \in Picking!Pick : "PICKING" \in Picking!StatusOf(d)
         /\ "PICKING" \notin Picking!Moved(d)
<1>1. Picking!Doc = {1, 2, 3} /\ Picking!Pick \subseteq Picking!Doc /\ Picking!PutAway = 3
        /\ Picking!PutAway \notin Picking!Pick
  BY DEF Picking!Doc, Picking!Pick, Picking!PutAway
<1>2. \A d \in Picking!Doc : Picking!StatusOf(d) \subseteq Picking!Status
  BY DEF Picking!Status
<1>3. \A d \in Picking!Doc : "PENDING" \in Picking!StatusOf(d)
        /\ "PENDING" \notin Picking!Moved(d)
  BY DEF Picking!StatusOf, Picking!Moved, Picking!Issued
<1>4. \A d \in Picking!Doc : Picking!Moved(d) \subseteq Picking!StatusOf(d)
  BY DEF Picking!StatusOf, Picking!Moved, Picking!Issued
<1>5. \A d \in Picking!Pick : "PICKING" \in Picking!StatusOf(d)
        /\ "PICKING" \notin Picking!Moved(d)
  BY DEF Picking!StatusOf, Picking!Moved, Picking!Issued
<1> QED BY <1>1, <1>2, <1>3, <1>4, <1>5

LEMMA ItemsOfDocuments ==
    /\ \A d \in Picking!Doc :
         DOMAIN Picking!ItemsOf[d] = IF d \in Picking!Pick THEN {1, 2} ELSE {1}
    /\ \A d \in Picking!Doc : Picking!ItemsOf[d][1] \in Picking!Product
    /\ \A d \in Picking!Pick : Picking!ItemsOf[d][2] \in Picking!Product
         /\ {Picking!ItemsOf[d][1], Picking!ItemsOf[d][2]} = Picking!Product
    /\ Picking!ItemsOf[3][1] = 1
<1>1. /\ Picking!ItemsOf[1] = <<1, 2>> /\ Picking!ItemsOf[2] = <<2, 1>>
           /\ Picking!ItemsOf[3] = <<1>>
  BY DEF Picking!ItemsOf
<1>2. DOMAIN <<1, 2>> = {1, 2} /\ DOMAIN <<2, 1>> = {1, 2} /\ DOMAIN <<1>> = {1}
  OBVIOUS
<1>3. DOMAIN Picking!ItemsOf[1] = {1, 2} /\ DOMAIN Picking!ItemsOf[2] = {1, 2}
        /\ DOMAIN Picking!ItemsOf[3] = {1}
  BY <1>1, <1>2
<1>4. /\ Picking!ItemsOf[1][1] = 1 /\ Picking!ItemsOf[1][2] = 2 /\ Picking!ItemsOf[2][1] = 2
           /\ Picking!ItemsOf[2][2] = 1
      /\ Picking!ItemsOf[3][1] = 1
  BY <1>1
<1> QED BY <1>3, <1>4 DEF Picking!Doc, Picking!Pick, Picking!PutAway, Picking!Product

LEMMA PickingIdle ==
    /\ Picking!Idle \in Picking!Work /\ Picking!Idle.stage = "idle" /\ Picking!Idle.held = {}
         /\ Picking!Idle.next = 1
    /\ Picking!Idle.to \in Picking!StatusOf(Picking!Idle.doc)
<1>1. 1 \in Picking!Doc /\ "PENDING" \in Picking!Status /\ {} \in SUBSET Picking!Product
        /\ "PENDING" \in Picking!StatusOf(1)
  BY Documents
<1> QED BY <1>1 DEF Picking!Idle, Picking!Work, Picking!Entry

-----------------------------------------------------------------------------
(* The steps. *)

\* A request goes on that has locked nothing, and leaves the documents alone.
LEMMA PickingGoesOn ==
    ASSUME PickingInv, NEW p \in Session, NEW w \in Picking!Work,
           desk' = [desk EXCEPT ![p] = w], UNCHANGED <<document, moved, opening, entries>>,
           w.to \in Picking!StatusOf(w.doc),
           w.held = {}, w.next = 1,
           w.stage # "idle" => w.entry \in entries,
           w.stage # "idle" /\ Picking!At(p, "idle") => Picking!MayStart
    PROVE  /\ Picking!TypeOK' /\ PickingWorkRight' /\ HeldRight' /\ OneHolder' /\ StillThere'
                /\ Picking!NeverOversold'
           /\ Picking!FinishedMoved => Picking!FinishedMoved'
           /\ desk'[p] = w /\ \A q \in Session : q # p => desk'[q] = desk[q]
<1>1. desk'[p] = w /\ \A q \in Session : q # p => desk'[q] = desk[q]
  BY DEF PickingInv, Picking!TypeOK
<1>2. Picking!TypeOK' /\ Picking!NeverOversold'
        /\ (Picking!FinishedMoved => Picking!FinishedMoved')
  BY DEF PickingInv, Picking!TypeOK, Picking!NeverOversold, Picking!Stock, Picking!FinishedMoved
<1>3. PickingWorkRight'
  BY <1>1 DEF PickingInv, PickingWorkRight, Picking!MayStart, Picking!AtRest, Picking!At
<1>4. HeldRight'
  BY <1>1 DEF PickingInv, HeldRight, Picking!At
<1>5. OneHolder' /\ StillThere'
  BY <1>1 DEF PickingInv, OneHolder, StillThere, Picking!Stock
<1> QED BY <1>1, <1>2, <1>3, <1>4, <1>5

LEMMA PickingAsk ==
    ASSUME PickingInv, NEW p \in Session, NEW entry \in Picking!Entry, NEW d \in Picking!Doc,
           NEW to \in Picking!StatusOf(d), Picking!Ask(p, entry, d, to)
    PROVE  PickingInv'
<1> DEFINE i == Picking!Idle
           w == [i EXCEPT !.stage = "saving", !.entry = entry, !.doc = d, !.to = to]
<1>1. i \in Picking!Work /\ i.held = {} /\ i.next = 1
  BY PickingIdle
<1>2. desk' = [desk EXCEPT ![p] = w] /\ UNCHANGED <<document, moved, opening, entries>>
      /\ Picking!At(p, "idle") /\ Picking!MayStart /\ entry \in entries
           /\ (entry = "form" => to = document[d])
      /\ (document[d] \in Picking!Moved(d) /\ to \notin Picking!Moved(d) => "back" \in entries)
  BY DEF Picking!Ask, Picking!Goto
<1> HIDE DEF i
<1>3. w \in Picking!Work /\ w.stage = "saving" /\ w.entry = entry /\ w.doc = d /\ w.to = to
      /\ w.held = {} /\ w.next = 1
  <2>1. to \in Picking!Status
    BY Documents
  <2> QED BY <1>1, <2>1 DEF Picking!Work
<1> HIDE DEF w
<1>4. /\ Picking!TypeOK' /\ PickingWorkRight' /\ HeldRight' /\ OneHolder' /\ StillThere'
           /\ Picking!NeverOversold'
      /\ Picking!FinishedMoved => Picking!FinishedMoved'
      /\ desk'[p] = w /\ \A q \in Session : q # p => desk'[q] = desk[q]
  BY <1>2, <1>3, PickingGoesOn
<1>5. WithTheRow => ReadRight'
  BY <1>2, <1>3, <1>4 DEF PickingInv, ReadRight, Picking!At
<1>6. NeverBack => StaysMoved'
  BY <1>2, <1>3, <1>4 DEF PickingInv, StaysMoved, NeverBack, Picking!At
<1> QED BY <1>2, <1>4, <1>5, <1>6 DEF PickingInv, WithTheRow, NeverBack

LEMMA PickingCache ==
    ASSUME PickingInv, NEW p \in Session, Picking!CacheOld(p)
    PROVE  PickingInv'
<1> DEFINE d == desk[p].doc
           w == [desk[p] EXCEPT !.stage = "writing", !.old = document[d]]
<1>1. desk' = [desk EXCEPT ![p] = w] /\ UNCHANGED <<document, moved, opening, entries>>
      /\ desk[p].stage = "saving"
  BY DEF Picking!CacheOld, Picking!Goto, Picking!At
<1>2. desk[p] \in Picking!Work /\ d \in Picking!Doc /\ document[d] \in Picking!Status
      /\ desk[p].held = {} /\ desk[p].next = 1 /\ desk[p].to \in Picking!StatusOf(d)
      /\ desk[p].entry \in entries
  <2>1. desk[p] \in Picking!Work
    BY DEF PickingInv, Picking!TypeOK
  <2> QED BY <1>1, <2>1 DEF PickingInv, PickingWorkRight, HeldRight, Picking!At, Picking!Work
<1>3. /\ w \in Picking!Work /\ w.stage = "writing" /\ w.entry = desk[p].entry /\ w.doc = d
      /\ w.to = desk[p].to /\ w.old = document[d] /\ w.held = {} /\ w.next = 1
  BY <1>2 DEF Picking!Work
<1> HIDE DEF w
<1>4. /\ Picking!TypeOK' /\ PickingWorkRight' /\ HeldRight' /\ OneHolder' /\ StillThere'
           /\ Picking!NeverOversold'
      /\ Picking!FinishedMoved => Picking!FinishedMoved'
      /\ desk'[p] = w /\ \A q \in Session : q # p => desk'[q] = desk[q]
  BY <1>1, <1>2, <1>3, PickingGoesOn DEF Picking!At
<1>5. ASSUME WithTheRow PROVE ReadRight'
  <2>1. document[d] \in Picking!Moved(d) => moved[d] > 0
    BY <1>2, <1>5 DEF PickingInv, Picking!FinishedMoved, WithTheRow
  <2>2. w.entry = "form" => w.to = document[d]
    BY <1>1, <1>3, <1>5 DEF PickingInv, ReadRight, Picking!At
  <2> QED BY <1>1, <1>3, <1>4, <1>5, <2>1, <2>2 DEF PickingInv, ReadRight, Picking!At
<1>6. NeverBack => StaysMoved'
  BY <1>1, <1>3, <1>4 DEF PickingInv, StaysMoved, Picking!At
<1> QED BY <1>1, <1>4, <1>5, <1>6 DEF PickingInv, WithTheRow, NeverBack

\* The row is written, and the goods will move if they had not when it was read.
LEMMA PickingWrite ==
    ASSUME PickingInv, NEW p \in Session, Picking!Write(p)
    PROVE  PickingInv'
<1> DEFINE d == desk[p].doc  to == desk[p].to  old == desk[p].old
           e == desk[p].entry
           moves == to \in Picking!Moved(d) /\ old \notin Picking!Moved(d)
           a == [desk[p] EXCEPT !.stage = "moving"]
           w == IF moves THEN a ELSE Picking!Idle
<1>1. /\ desk[p].stage = "writing" /\ desk' = [desk EXCEPT ![p] = w]
      /\ document' = IF moves /\ e = "admin" THEN document ELSE [document EXCEPT ![d] = to]
      /\ UNCHANGED <<moved, opening, entries>>
  BY DEF Picking!Write, Picking!Moves, Picking!Goto, Picking!Done, Picking!At
<1>2. desk[p] \in Picking!Work /\ d \in Picking!Doc /\ to \in Picking!StatusOf(d) /\ e \in entries
      /\ desk[p].held = {} /\ desk[p].next = 1
  <2>1. desk[p] \in Picking!Work
    BY DEF PickingInv, Picking!TypeOK
  <2> QED BY <1>1, <2>1 DEF PickingInv, PickingWorkRight, HeldRight, Picking!At, Picking!Work
<1>3. /\ a \in Picking!Work /\ a.stage = "moving" /\ a.entry = e /\ a.doc = d /\ a.to = to
      /\ a.held = {} /\ a.next = 1
  BY <1>2 DEF Picking!Work
<1>4. /\ w \in Picking!Work /\ w.held = {} /\ w.next = 1 /\ w.stage \in {"idle", "moving"}
      /\ w.stage = "moving" => moves /\ w = a
      /\ w.to \in Picking!StatusOf(w.doc) /\ (w.stage # "idle" => w.entry \in entries)
  BY <1>2, <1>3, PickingIdle
<1> HIDE DEF w, a
<1>5. desk'[p] = w /\ \A q \in Session : q # p => desk'[q] = desk[q]
  BY <1>1 DEF PickingInv, Picking!TypeOK
<1>6. /\ document' \in [Picking!Doc -> Picking!Status] /\ \A c \in Picking!Doc :
           document'[c] \in Picking!StatusOf(c)
      /\ \A c \in Picking!Doc : c # d => document'[c] = document[c]
      /\ document'[d] = IF moves /\ e = "admin" THEN document[d] ELSE to
  <2> HIDE DEF d, to, moves, e
  <2>1. to \in Picking!Status
    BY <1>2, Documents
  <2> QED BY <1>1, <1>2, <2>1 DEF PickingInv, Picking!TypeOK, PickingWorkRight
<1>7. Picking!TypeOK'
  BY <1>1, <1>4, <1>6 DEF PickingInv, Picking!TypeOK
<1>8. PickingWorkRight'
  BY <1>1, <1>4, <1>5, <1>6 DEF PickingInv, PickingWorkRight, Picking!At
<1>9. HeldRight' /\ OneHolder' /\ StillThere' /\ Picking!NeverOversold'
  BY <1>1, <1>4, <1>5 DEF PickingInv, HeldRight, OneHolder, StillThere, Picking!NeverOversold,
     Picking!Stock, Picking!At
<1>10. ASSUME WithTheRow PROVE ReadRight' /\ Picking!FinishedMoved'
  <2>1. e # "patch" /\ (e = "form" => "race" \notin entries /\ to = document[d] /\ old = to)
    BY <1>1, <1>2, <1>10 DEF PickingInv, WithTheRow, ReadRight, Picking!At
  <2>2. old \in Picking!Moved(d) => moved[d] > 0
    BY <1>1, <1>10 DEF PickingInv, ReadRight, Picking!At
  <2>3. e \in {"admin", "form"}
    <3>1. e \in Picking!Entry
      BY <1>2 DEF Picking!Work
    <3> QED BY <2>1, <3>1 DEF Picking!Entry
  <2>4. moves => e = "admin"
    BY <2>1, <2>3
  <2>5. to \in Picking!Moved(d) /\ ~moves => moved[d] > 0
    BY <2>2
  <2>6. Picking!FinishedMoved'
    <3>1. ASSUME NEW c \in Picking!Doc, document'[c] \in Picking!Moved(c) PROVE moved[c] > 0
      <4>1. document[c] \in Picking!Moved(c) => moved[c] > 0
        BY <1>10 DEF PickingInv, Picking!FinishedMoved, WithTheRow
      <4>2. CASE c = d
        BY <1>6, <2>4, <2>5, <3>1, <4>1, <4>2
      <4>3. CASE c # d
        BY <1>6, <3>1, <4>1, <4>3
      <4> QED BY <4>2, <4>3
    <3> QED BY <1>1, <3>1 DEF Picking!FinishedMoved
  <2>7. ASSUME NEW q \in Session, desk'[q].entry = "form",
               desk'[q].stage \in {"saving", "writing"}
        PROVE  document'[desk[q].doc] = document[desk[q].doc]
    <3>1. q # p /\ desk[q].entry = "form" /\ ~Picking!At(q, "idle")
      BY <1>4, <1>5, <2>7 DEF Picking!At
    <3>2. "race" \notin entries
      BY <1>10, <3>1 DEF PickingInv, PickingWorkRight, WithTheRow
    <3>3. q = p
      BY <1>1, <3>1, <3>2 DEF PickingInv, PickingWorkRight, Picking!At
    <3> QED BY <3>1, <3>3
  <2>8. ReadRight'
    <3> SUFFICES ASSUME NEW q \in Session
                 PROVE  /\ desk'[q].stage = "writing"
                             /\ desk'[q].old \in Picking!Moved(desk'[q].doc) =>
                             moved'[desk'[q].doc] > 0
                        /\ desk'[q].stage = "moving" => desk'[q].entry = "admin"
                        /\ desk'[q].entry = "form" /\ desk'[q].stage = "saving" =>
                             desk'[q].to = document'[desk'[q].doc]
                        /\ desk'[q].entry = "form" /\ desk'[q].stage = "writing" =>
                             /\ desk'[q].to = document'[desk'[q].doc]
                             /\ desk'[q].old = desk'[q].to
      BY DEF ReadRight, Picking!At
    <3>1. CASE q = p
      BY <1>1, <1>3, <1>4, <1>5, <2>4, <3>1
    <3>2. CASE q # p
      BY <1>1, <1>5, <1>10, <2>7, <3>2 DEF PickingInv, ReadRight, Picking!At
    <3> QED BY <3>1, <3>2
  <2> QED BY <2>6, <2>8
<1>11. ASSUME NeverBack PROVE StaysMoved'
  <2>1. /\ old = document[d] /\ (document[d] \in Picking!Moved(d) => to \in Picking!Moved(d))
        /\ moved[d] <= 1 /\ (moved[d] = 1 => document[d] \in Picking!Moved(d)) /\ moved[d] \in Nat
    BY <1>1, <1>2, <1>11 DEF PickingInv, StaysMoved, Picking!TypeOK, Picking!At
  <2>2. moves => moved[d] = 0
    BY <2>1
  <2>3. \A q \in Session : q # p => desk'[q].stage = "idle"
    BY <1>1, <1>5, <1>11 DEF PickingInv, PickingWorkRight, NeverBack, Picking!At
  <2>4. \A c \in Picking!Doc : moved[c] <= 1
          /\ (moved[c] = 1 => document'[c] \in Picking!Moved(c))
    <3> HIDE DEF moves
    <3>1. ASSUME NEW c \in Picking!Doc PROVE moved[c] <= 1
                 /\ (moved[c] = 1 => document'[c] \in Picking!Moved(c))
      <4>1. moved[c] <= 1 /\ (moved[c] = 1 => document[c] \in Picking!Moved(c))
        BY <1>11 DEF PickingInv, StaysMoved
      <4>2. CASE c = d
        BY <1>6, <2>1, <4>1, <4>2
      <4>3. CASE c # d
        BY <1>6, <4>1, <4>3
      <4> QED BY <4>2, <4>3
    <3> QED BY <3>1
  <2>5. desk'[p].stage = "moving" =>
          /\ moved[desk'[p].doc] = 0 /\ desk'[p].to \in Picking!Moved(desk'[p].doc)
          /\ desk'[p].entry = "admin" \/ document'[desk'[p].doc] \in Picking!Moved(desk'[p].doc)
    BY <1>3, <1>4, <1>5, <1>6, <2>2
  <2> QED BY <1>1, <1>4, <1>5, <2>3, <2>4, <2>5 DEF StaysMoved, Picking!At
<1> QED BY <1>1, <1>7, <1>8, <1>9, <1>10, <1>11 DEF PickingInv, WithTheRow, NeverBack

\* A product is looked at and stays locked.
LEMMA PickingMove ==
    ASSUME PickingInv, NEW p \in Session, Picking!MoveNext(p)
    PROVE  PickingInv'
<1> DEFINE d == desk[p].doc  n == desk[p].next  q == Picking!ItemsOf[d][n]
           w == [desk[p] EXCEPT !.held = @ \cup {q}, !.next = n + 1]
<1>1. /\ desk[p].stage = "moving" /\ n \in DOMAIN Picking!ItemsOf[d]
      /\ \A r \in Session \ {p} : q \notin desk[r].held
      /\ d \in Picking!Pick => Picking!Stock(q) >= 1
      /\ desk' = [desk EXCEPT ![p] = w] /\ UNCHANGED <<document, moved, opening, entries>>
  BY DEF Picking!MoveNext, Picking!HasNext, Picking!Waits, Picking!NextProduct, Picking!Keeps,
     Picking!Goto, Picking!At
<1>2. desk[p] \in Picking!Work /\ d \in Picking!Doc
  BY DEF PickingInv, Picking!TypeOK, Picking!Work
<1>3. /\ n \in {1, 2} /\ (n = 2 => d \in Picking!Pick) /\ q \in Picking!Product
      /\ n = 2 => {Picking!ItemsOf[d][1], q} = Picking!Product
  <2>1. n \in IF d \in Picking!Pick THEN {1, 2} ELSE {1}
    BY <1>1, <1>2, ItemsOfDocuments
  <2> QED BY <1>2, <2>1, ItemsOfDocuments
<1>4. /\ n = 1 => desk[p].held = {} /\ q = Picking!ItemsOf[d][1]
      /\ n = 2 => desk[p].held = {Picking!ItemsOf[d][1]}
  BY <1>2 DEF PickingInv, HeldRight
<1> DEFINE h == desk[p].held \cup {q}
<1>5. /\ h \subseteq Picking!Product /\ (n = 1 => h = {Picking!ItemsOf[d][1]})
           /\ (n = 2 => h = Picking!Product)
  <2> HIDE DEF q
  <2> QED BY <1>2, <1>3, <1>4 DEF Picking!Work
<1> HIDE DEF q, h
<1>6. /\ w \in Picking!Work /\ w.stage = "moving" /\ w.doc = d /\ w.to = desk[p].to
      /\ w.entry = desk[p].entry /\ w.held = h /\ w.next = n + 1 /\ w.next \in {2, 3}
  <2>1. n + 1 \in 1..3 /\ n + 1 \in {2, 3}
    BY <1>3
  <2>2. w = [desk[p] EXCEPT !.held = h, !.next = n + 1]
    BY DEF h
  <2> HIDE DEF w
  <2> QED BY <1>1, <1>2, <1>5, <2>1, <2>2 DEF Picking!Work
<1> HIDE DEF w
<1>7. desk'[p] = w /\ \A r \in Session : r # p => desk'[r] = desk[r]
  BY <1>1 DEF PickingInv, Picking!TypeOK
<1>8. Picking!TypeOK' /\ Picking!NeverOversold'
        /\ (Picking!FinishedMoved => Picking!FinishedMoved')
  BY <1>1, <1>6 DEF PickingInv, Picking!TypeOK, Picking!NeverOversold, Picking!Stock,
     Picking!FinishedMoved
<1>9. PickingWorkRight'
  BY <1>1, <1>6, <1>7 DEF PickingInv, PickingWorkRight, Picking!At
<1>10. HeldRight'
  <2>1. w.next = 2 => w.held = {Picking!ItemsOf[d][1]}
    BY <1>3, <1>5, <1>6
  <2>2. w.next = 3 => w.held = Picking!Product /\ d \in Picking!Pick
    BY <1>3, <1>5, <1>6
  <2>3. w.next # 1
    BY <1>6
  <2> QED BY <1>6, <1>7, <2>1, <2>2, <2>3 DEF PickingInv, HeldRight, Picking!At
<1>11. OneHolder'
  <2>1. \A r \in Session : r # p => h \cap desk[r].held = {}
    BY <1>1 DEF PickingInv, OneHolder, h
  <2> QED BY <1>6, <1>7, <2>1 DEF PickingInv, OneHolder
<1>12. StillThere'
  <2>1. d \in Picking!Pick => \A c \in h : Picking!Stock(c) >= 1
    BY <1>1 DEF PickingInv, StillThere, h
  <2>2. \A c : Picking!Stock(c)' = Picking!Stock(c)
    BY <1>1 DEF Picking!Stock
  <2> QED BY <1>6, <1>7, <2>1, <2>2 DEF PickingInv, StillThere
<1>13. WithTheRow => ReadRight'
  BY <1>1, <1>6, <1>7 DEF PickingInv, ReadRight, Picking!At
<1>14. NeverBack => StaysMoved'
  BY <1>1, <1>6, <1>7 DEF PickingInv, StaysMoved, Picking!At
<1> QED BY <1>1, <1>8, <1>9, <1>10, <1>11, <1>12, <1>13, <1>14
        DEF PickingInv, WithTheRow, NeverBack

\* The movements are committed: they take what was looked at and locked.
LEMMA PickingCommit ==
    ASSUME PickingInv, NEW p \in Session, Picking!CommitMoves(p)
    PROVE  PickingInv'
<1> DEFINE d == desk[p].doc  to == desk[p].to  e == desk[p].entry
           n == desk[p].next
<1>1. /\ desk[p].stage = "moving" /\ n \notin DOMAIN Picking!ItemsOf[d]
      /\ moved' = [moved EXCEPT ![d] = @ + 1]
      /\ document' = IF e = "admin" THEN [document EXCEPT ![d] = to] ELSE document
      /\ desk' = [desk EXCEPT ![p] = Picking!Idle] /\ UNCHANGED <<opening, entries>>
  BY DEF Picking!CommitMoves, Picking!HasNext, Picking!Goto, Picking!Done, Picking!At
<1>2. desk[p] \in Picking!Work /\ d \in Picking!Doc /\ to \in Picking!StatusOf(d)
        /\ n \in {1, 2, 3}
  BY DEF PickingInv, Picking!TypeOK, PickingWorkRight, Picking!Work
<1>3. d \in Picking!Pick => desk[p].held = Picking!Product
  <2>1. d \in Picking!Pick => n = 3
    BY <1>1, <1>2, ItemsOfDocuments
  <2> QED BY <2>1 DEF PickingInv, HeldRight
<1>4. desk'[p] = Picking!Idle /\ \A q \in Session : q # p => desk'[q] = desk[q]
  BY <1>1 DEF PickingInv, Picking!TypeOK
<1>5. /\ moved' \in [Picking!Doc -> Nat] /\ moved'[d] = moved[d] + 1 /\ moved[d] \in Nat
      /\ \A c \in Picking!Doc : c # d => moved'[c] = moved[c]
      /\ \A c \in Picking!Doc : moved[c] \in Nat
  <2> HIDE DEF d
  <2> QED BY <1>1, <1>2 DEF PickingInv, Picking!TypeOK
<1>6. /\ document' \in [Picking!Doc -> Picking!Status] /\ \A c \in Picking!Doc :
           document'[c] \in Picking!StatusOf(c)
      /\ \A c \in Picking!Doc : c # d => document'[c] = document[c]
      /\ document'[d] = IF e = "admin" THEN to ELSE document[d]
  <2> HIDE DEF d, to, e
  <2>1. to \in Picking!Status
    BY <1>2, Documents
  <2> QED BY <1>1, <1>2, <2>1 DEF PickingInv, Picking!TypeOK, PickingWorkRight
<1> HIDE DEF n
<1>7. Picking!TypeOK'
  BY <1>1, <1>5, <1>6, PickingIdle DEF PickingInv, Picking!TypeOK
<1>8. PickingWorkRight'
  BY <1>1, <1>4, <1>6, PickingIdle DEF PickingInv, PickingWorkRight, Picking!At
<1>9. HeldRight'
  BY <1>4, PickingIdle DEF PickingInv, HeldRight, Picking!At
<1>10. OneHolder'
  BY <1>4, PickingIdle DEF PickingInv, OneHolder
<1>11. \A q \in Picking!Product :
         /\ Picking!Stock(q) \in Int /\ Picking!Stock(q)' \in Int
         /\ d \in Picking!Pick => Picking!Stock(q)' = Picking!Stock(q) - 1
         /\ d \notin Picking!Pick => Picking!Stock(q)' >= Picking!Stock(q)
  <2> TAKE q \in Picking!Product
  <2>1. opening[q] \in Nat /\ opening' = opening
    BY <1>1 DEF PickingInv, PickingWorkRight
  <2>2. d \in {1, 2, 3} /\ 1 \in Picking!Doc /\ 2 \in Picking!Doc /\ 3 \in Picking!Doc
    BY <1>2, Documents
  <2>3. Picking!Stock(q) = opening[q] - (moved[1] + moved[2]) + (IF q = 1 THEN moved[3] ELSE 0)
    BY DEF Picking!Stock, Picking!PutAway
  <2>4. Picking!Stock(q)' = opening[q] - (moved'[1] + moved'[2]) + (IF q = 1 THEN moved'[3] ELSE 0)
    BY <2>1 DEF Picking!Stock, Picking!PutAway
  <2> HIDE DEF d
  <2>5. CASE d = 3
    BY <1>5, <2>1, <2>2, <2>3, <2>4, <2>5 DEF Picking!Pick
  <2>6. CASE d \in {1, 2}
    BY <1>5, <2>1, <2>2, <2>3, <2>4, <2>6 DEF Picking!Pick
  <2> QED BY <2>2, <2>5, <2>6
<1>12. Picking!NeverOversold'
  <2>1. ASSUME NEW q \in Picking!Product PROVE Picking!Stock(q)' >= 0
    <3>1. Picking!Stock(q) >= 0
      BY DEF PickingInv, Picking!NeverOversold
    <3>2. d \in Picking!Pick => Picking!Stock(q) >= 1
      BY <1>3 DEF PickingInv, StillThere
    <3> QED BY <1>11, <3>1, <3>2
  <2> QED BY <2>1 DEF Picking!NeverOversold
<1>13. StillThere'
  <2>1. ASSUME NEW r \in Session, desk'[r].doc \in Picking!Pick, NEW q \in desk'[r].held
        PROVE  Picking!Stock(q)' >= 1
    <3>1. r # p /\ desk[r].doc \in Picking!Pick /\ q \in desk[r].held
      BY <1>4, <2>1, PickingIdle
    <3>2. q \in Picking!Product /\ Picking!Stock(q) >= 1
      BY <3>1 DEF PickingInv, Picking!TypeOK, Picking!Work, StillThere
    <3>3. d \notin Picking!Pick
      BY <1>3, <3>1, <3>2 DEF PickingInv, OneHolder
    <3> QED BY <1>11, <3>2, <3>3
  <2> QED BY <2>1 DEF StillThere
<1>14. ASSUME WithTheRow PROVE ReadRight' /\ Picking!FinishedMoved'
  <2>1. e = "admin"
    BY <1>1, <1>14 DEF PickingInv, ReadRight, Picking!At
  <2>2. \A c \in Picking!Doc : moved'[c] >= moved[c] /\ moved'[d] > 0 /\ moved'[c] \in Nat
    BY <1>5
  <2>3. Picking!FinishedMoved'
    <3>1. ASSUME NEW c \in Picking!Doc, document'[c] \in Picking!Moved(c) PROVE moved'[c] > 0
      <4>1. document[c] \in Picking!Moved(c) => moved[c] > 0
        BY <1>14 DEF PickingInv, Picking!FinishedMoved, WithTheRow
      <4>2. CASE c = d
        BY <2>2, <4>2
      <4>3. CASE c # d
        BY <1>5, <1>6, <3>1, <4>1, <4>3
      <4> QED BY <4>2, <4>3
    <3> QED BY <1>1, <3>1 DEF Picking!FinishedMoved
  <2>4. \A q \in Session : desk'[q].stage \in {"saving", "writing"} /\ desk'[q].entry = "form" =>
           FALSE
    <3> SUFFICES ASSUME NEW q \in Session, desk'[q].stage \in {"saving", "writing"},
                        desk'[q].entry = "form"
                 PROVE  FALSE
      OBVIOUS
    <3>1. q # p /\ desk[q] = desk'[q]
      BY <1>4, PickingIdle
    <3>2. "race" \notin entries
      BY <1>14, <3>1 DEF PickingInv, PickingWorkRight, WithTheRow, Picking!At
    <3> QED BY <1>1, <3>1, <3>2 DEF PickingInv, PickingWorkRight, Picking!At
  <2>5. \A q \in Session : desk[q].doc \in Picking!Doc
    BY DEF PickingInv, Picking!TypeOK, Picking!Work
  <2>6. \A q \in Session :
          /\ desk'[q].stage = "writing" /\ desk'[q].old \in Picking!Moved(desk'[q].doc) =>
               moved'[desk'[q].doc] > 0
          /\ desk'[q].stage = "moving" => desk'[q].entry = "admin"
    <3> TAKE q \in Session
    <3>1. CASE q = p
      BY <1>4, <3>1, PickingIdle
    <3>2. CASE q # p
      <4>1. moved'[desk[q].doc] >= moved[desk[q].doc] /\ moved[desk[q].doc] \in Nat
            /\ moved'[desk[q].doc] \in Nat
        BY <1>5, <2>2, <2>5
      <4> QED BY <1>4, <1>14, <3>2, <4>1 DEF PickingInv, ReadRight, Picking!At
    <3> QED BY <3>1, <3>2
  <2> QED BY <2>3, <2>4, <2>6 DEF ReadRight, Picking!At
<1>15. ASSUME NeverBack PROVE StaysMoved'
  <2>1. moved[d] = 0 /\ to \in Picking!Moved(d)
    BY <1>1, <1>15 DEF PickingInv, StaysMoved, Picking!At
  <2>2. \A q \in Session : desk'[q].stage = "idle"
    BY <1>1, <1>4, <1>15, PickingIdle DEF PickingInv, PickingWorkRight, NeverBack, Picking!At
  <2>3. document[d] \in Picking!Moved(d) \/ e = "admin"
    BY <1>1, <1>15 DEF PickingInv, StaysMoved, Picking!At
  <2> QED BY <1>5, <1>6, <1>15, <2>1, <2>2, <2>3 DEF PickingInv, StaysMoved, Picking!At
<1> QED BY <1>1, <1>7, <1>8, <1>9, <1>10, <1>12, <1>13, <1>14, <1>15
        DEF PickingInv, WithTheRow, NeverBack

\* A request ends, by a shortage, a deadlock or its death.
LEMMA PickingEnds ==
    ASSUME PickingInv, NEW p \in Session, Picking!FailMoves(p) \/ Picking!Crash(p)
    PROVE  PickingInv'
<1>1. desk' = [desk EXCEPT ![p] = Picking!Idle] /\ UNCHANGED <<document, moved, opening, entries>>
  BY DEF Picking!FailMoves, Picking!Crash, Picking!Done, Picking!Goto
<1>2. /\ Picking!TypeOK' /\ PickingWorkRight' /\ HeldRight' /\ OneHolder' /\ StillThere'
           /\ Picking!NeverOversold'
      /\ Picking!FinishedMoved => Picking!FinishedMoved'
      /\ desk'[p] = Picking!Idle /\ \A q \in Session : q # p => desk'[q] = desk[q]
  BY <1>1, PickingIdle, PickingGoesOn
<1>3. WithTheRow => ReadRight'
  BY <1>1, <1>2, PickingIdle DEF PickingInv, ReadRight, Picking!At
<1>4. NeverBack => StaysMoved'
  BY <1>1, <1>2, PickingIdle DEF PickingInv, StaysMoved, Picking!At
<1> QED BY <1>1, <1>2, <1>3, <1>4 DEF PickingInv, WithTheRow, NeverBack

\* A wave is released: pick orders that were pending are picked.
LEMMA PickingWave ==
    ASSUME PickingInv, Picking!ReleaseWave
    PROVE  PickingInv'
<1>1. /\ UNCHANGED <<moved, opening, desk, entries>> /\ ("race" \in entries \/ Picking!AtRest)
      /\ document' = [d \in Picking!Doc |-> IF d \in Picking!Pick /\ document[d] = "PENDING" THEN "PICKING"
                                            ELSE document[d]]
  BY DEF Picking!ReleaseWave, Picking!MayStart
<1>2. /\ document' \in [Picking!Doc -> Picking!Status]
      /\ \A d \in Picking!Doc : /\ document'[d] \in Picking!StatusOf(d)
                                /\ document'[d] \in Picking!Moved(d)
                                     <=> document[d] \in Picking!Moved(d)
                                /\ document'[d] = document[d] \/ document[d] = "PENDING"
  BY <1>1, Documents DEF PickingInv, Picking!TypeOK
<1>3. Picking!TypeOK' /\ PickingWorkRight' /\ HeldRight' /\ OneHolder'
  BY <1>1, <1>2 DEF PickingInv, Picking!TypeOK, PickingWorkRight, HeldRight, OneHolder, Picking!At
<1>4. StillThere' /\ Picking!NeverOversold' /\ (Picking!FinishedMoved => Picking!FinishedMoved')
  BY <1>1, <1>2 DEF PickingInv, StillThere, Picking!NeverOversold, Picking!Stock,
     Picking!FinishedMoved
<1>5. \A p \in Session : desk[p].doc \in Picking!Doc
        /\ (desk[p].entry = "form" /\ ~Picking!At(p, "idle") => "form" \in entries)
  BY DEF PickingInv, Picking!TypeOK, Picking!Work, PickingWorkRight
<1>6. WithTheRow => ReadRight'
  BY <1>1, <1>2, <1>5 DEF PickingInv, ReadRight, WithTheRow, Picking!AtRest, Picking!At
<1>7. NeverBack => StaysMoved'
  BY <1>1, <1>2, <1>5 DEF PickingInv, StaysMoved, NeverBack, Picking!AtRest, Picking!At
<1> QED BY <1>1, <1>3, <1>4, <1>6, <1>7 DEF PickingInv, WithTheRow, NeverBack

LEMMA PickingStarts == Picking!Init => PickingInv
<1> SUFFICES ASSUME Picking!Init PROVE PickingInv
  OBVIOUS
<1>1. /\ \A d \in Picking!Doc : document[d] = "PENDING" /\ moved[d] = 0
      /\ \A p \in Session : desk[p] = Picking!Idle
      /\ document \in [Picking!Doc -> Picking!Status] /\ moved \in [Picking!Doc -> Nat]
           /\ opening \in [Picking!Product -> Nat]
      /\ desk \in [Session -> Picking!Work]
  BY Documents, PickingIdle, PickingNumbers DEF Picking!Init
<1>2. Picking!TypeOK /\ PickingWorkRight /\ HeldRight /\ OneHolder
  BY <1>1, Documents, PickingIdle DEF Picking!Init, Picking!TypeOK, PickingWorkRight, HeldRight,
     OneHolder, Picking!At
<1>3. StillThere
  BY <1>1, PickingIdle DEF StillThere
<1>4. Picking!NeverOversold
  <2>1. ASSUME NEW q \in Picking!Product PROVE Picking!Stock(q) >= 0
    <3>1. moved[1] = 0 /\ moved[2] = 0 /\ moved[3] = 0 /\ opening[q] \in Nat
      BY <1>1, Documents
    <3> QED BY <3>1 DEF Picking!Stock, Picking!PutAway
  <2> QED BY <2>1 DEF Picking!NeverOversold
<1>5. ReadRight /\ Picking!FinishedMoved /\ StaysMoved
  BY <1>1, Documents, PickingIdle DEF ReadRight, Picking!FinishedMoved, StaysMoved, Picking!At
<1> QED BY <1>2, <1>3, <1>4, <1>5 DEF PickingInv

LEMMA PickingStep ==
    ASSUME PickingInv, [Picking!Next]_(Picking!vars)
    PROVE  PickingInv'
<1>1. CASE UNCHANGED Picking!vars
  <2>1. UNCHANGED <<document, moved, opening, desk, entries>>
    BY <1>1 DEF Picking!vars
  <2>2. \A q : Picking!Stock(q)' = Picking!Stock(q)
    BY <2>1 DEF Picking!Stock
  <2> QED BY <2>1, <2>2
          DEF PickingInv, Picking!TypeOK, PickingWorkRight, HeldRight, OneHolder, StillThere,
             Picking!NeverOversold,
              WithTheRow, ReadRight, Picking!FinishedMoved, NeverBack, StaysMoved, Picking!At
<1>2. CASE Picking!Next
  BY <1>2, PickingAsk, PickingCache, PickingWrite, PickingMove, PickingCommit, PickingEnds,
     PickingWave DEF Picking!Next
<1> QED BY <1>1, <1>2

LEMMA PickingKeeps == PickingInv => Picking!NeverOversold /\ Picking!FinishedMoved
    /\ Picking!MovedOnce
BY DEF PickingInv, WithTheRow, Picking!FinishedMoved, NeverBack, StaysMoved, Picking!MovedOnce

-----------------------------------------------------------------------------
(* Returns and exchanges. *)

\* What the constants of this part are.
LEMMA ReturnsNumbers ==
    /\ ReturnCount \in Nat \ {0} /\ Sold \in Nat \ {0} /\ ReturnForms \subseteq Nat \ {0}
    /\ ReturnCost \in Nat /\ ReturnCost >= Sold /\ ReturnOpening \in Nat
BY BackOfficeAssumption

-----------------------------------------------------------------------------
(* The invariant. *)

Confirmed == {"CONFIRMED", "SHIPPED"}
\* A request is about an order that is there; one at a time where none race.
RequestRight ==
    /\ \A p \in Session : ~Returned!At(p, "idle") =>
         /\ Returned!Doc(p).kind # "none"
         /\ desk[p].status # "DRAFT"
         /\ desk[p].status = "CANCELLED" => "cancel" \in entries
    /\ \A p \in Session : desk[p].stage \in {"taking", "looking", "claiming", "invoicing"} =>
         desk[p].status = "CONFIRMED"
    /\ \A p \in Session : desk[p].stage \in {"shipping", "releasing"} =>
         desk[p].status = "SHIPPED"
    /\ \A p \in Session : Returned!At(p, "cancelling") => desk[p].status = "CANCELLED"
    /\ "race" \notin entries => \A p, q \in Session : ~Returned!At(p, "idle")
         /\ ~Returned!At(q, "idle") => p = q
    /\ \A r \in Returned!ReturnId : back[r].kind # "none" => back[r].quantity > 0

\* Whoever took the goods is the one that claims.
Claimer(p) == desk[p].stage \in {"looking", "claiming"}
ClaimsRight ==
    /\ Returned!BookedOnce
    /\ \A r \in Returned!ReturnId : back[r].claims > 0 => back[r].taken > 0
    /\ \A p \in Session : Claimer(p) => Returned!Doc(p).taken = 1 /\ Returned!Doc(p).claims = 0
    /\ \A p, q \in Session : Claimer(p) /\ Claimer(q) /\ Returned!Of(p) = Returned!Of(q) => p = q

\* Who ships or writes a confirmation knows it booked.
GoodsBooked(r) == back[r].taken = 1 /\ ~invoiced
ConfirmsRight ==
    /\ \A r \in Returned!ReturnId : back[r].status \in Confirmed => GoodsBooked(r)
    /\ \A p \in Session :
         /\ Returned!At(p, "invoicing") => Returned!Doc(p).taken = 1
         /\ Returned!At(p, "writing") /\ desk[p].status = "CONFIRMED"
              => GoodsBooked(Returned!Of(p))
         /\ ~Returned!At(p, "idle") /\ desk[p].status = "SHIPPED" => GoodsBooked(Returned!Of(p))

ClaimsKnown ==
    entries \cap {"closed", "late"} = {}
      /\ ("cancel" \in entries => entries \cap {"race", "crash"} = {})
Cancelling(r) ==
    \E p \in Session : Returned!At(p, "writing") /\ desk[p].status = "CANCELLED"
      /\ Returned!Of(p) = r
ClaimsExact ==
    /\ \A r \in Returned!ReturnId :
         back[r].status \in Confirmed => back[r].claims = Returned!Owed(back[r]) \/ Cancelling(r)
    /\ \A p \in Session :
         /\ Returned!At(p, "claiming") => Returned!Owed(Returned!Doc(p)) = 1
         /\ \/ Returned!At(p, "invoicing")
            \/ Returned!At(p, "writing") /\ desk[p].status = "CONFIRMED"
            \/ ~Returned!At(p, "idle") /\ desk[p].status = "SHIPPED"
            => Returned!Doc(p).claims = Returned!Owed(Returned!Doc(p))

\* The cost of sales.
CostRight ==
    /\ cogs \in 0..ReturnCost
    /\ \A r \in Returned!ReturnId : back[r].taken > 0 => cogs < ReturnCost
    /\ "late" \notin entries /\ ~({"edit", "crash"} \subseteq entries) =>
         \A r \in Returned!ReturnId : back[r].taken > 0
           /\ (back[r].kind = "EXCHANGE" \/ back[r].quantity >= Sold)
           => cogs = 0
\* Goods that were taken are confirmed, or will be.
TakenKnown ==
    \A r \in Returned!ReturnId : back[r].taken > 0 =>
        \/ back[r].status # "DRAFT"
        \/ \E p \in Session :
             desk[p].stage \in {"looking", "claiming", "invoicing", "writing"}
               /\ Returned!Of(p) = r

ReturnsInv ==
    /\ Returned!TypeOK /\ RequestRight /\ ClaimsRight /\ ConfirmsRight /\ CostRight
    /\ ClaimsKnown => ClaimsExact
    /\ "crash" \notin entries => TakenKnown

-----------------------------------------------------------------------------
(* The share of the cost of sales. *)

LEMMA Division ==
    ASSUME NEW a \in Nat, NEW b \in Nat \ {0}
    PROVE  a \div b \in Int /\ a % b \in 0..(b - 1) /\ a = b * (a \div b) + (a % b)
OBVIOUS

\* A multiple of b has no rest.
LEMMA Multiple ==
    ASSUME NEW b \in Nat \ {0}, NEW k \in Nat, NEW q \in Int, NEW r \in 0..(b - 1),
           b * q + r = k * b
    PROVE  r = 0 /\ q = k
<1> DEFINE d == k - q
<1>1. d \in Int /\ b * d = r
  OBVIOUS
<1> HIDE DEF d
<1>2. d = 0
  <2>1. CASE d >= 1
    <3>1. b * d >= b
      BY <2>1, <1>1
    <3> QED BY <3>1, <1>1
  <2>2. CASE d <= -1
    <3>1. b * d <= -b
      BY <2>2, <1>1
    <3> QED BY <3>1, <1>1
  <2> QED BY <2>1, <2>2, <1>1
<1>3. r = 0
  BY <1>1, <1>2
<1> QED BY <1>2, <1>3 DEF d

\* A share is no more than the whole, something of what is enough for the
\* pieces, and all of it for all of them.
LEMMA Share ==
    ASSUME NEW k \in Nat, NEW b \in Nat \ {0}, NEW n \in 1..b
    PROVE  /\ Returned!Quantized(k * n, b) \in 0..k
           /\ k >= b => Returned!Quantized(k * n, b) >= 1
           /\ n = b => Returned!Quantized(k * n, b) = k
<1> DEFINE a == k * n  q == a \div b  r == a % b
<1>1. a \in Nat /\ a <= k * b /\ (k >= b => a >= b)
  <2>1. a \in Nat /\ k * n <= k * b
    <3>1. b - n \in Nat /\ k * (b - n) \in Nat
      OBVIOUS
    <3>2. k * b = k * n + k * (b - n)
      OBVIOUS
    <3>3. k * n \in Nat /\ k * b \in Nat
      OBVIOUS
    <3> QED BY <3>1, <3>2, <3>3
  <2>2. k * n >= k
    <3>1. n - 1 \in Nat /\ k * (n - 1) \in Nat /\ k * n = k + k * (n - 1)
      OBVIOUS
    <3> QED BY <3>1
  <2> QED BY <2>1, <2>2
<1> HIDE DEF a
<1>2. q \in Int /\ r \in 0..(b - 1) /\ a = b * q + r
  BY <1>1, Division
<1>3. Returned!Quantized(a, b) = q + (IF 2 * r > b \/ (2 * r = b /\ q % 2 = 1) THEN 1 ELSE 0)
  BY DEF Returned!Quantized
<1> HIDE DEF q, r
<1>4. q >= 0
  <2> SUFFICES ASSUME q <= -1 PROVE FALSE
    BY <1>2
  <2>1. b * q <= -b
    BY <1>2
  <2> QED BY <1>1, <1>2, <2>1
<1>5. q <= k
  <2> SUFFICES ASSUME q >= k + 1 PROVE FALSE
    BY <1>2
  <2>1. b * q >= b * (k + 1) /\ b * (k + 1) = k * b + b
    BY <1>2
  <2> QED BY <1>1, <1>2, <2>1
<1>6. q = k => r = 0
  <2> SUFFICES ASSUME q = k PROVE r = 0
    OBVIOUS
  <2>1. b * q = k * b
    BY <1>2
  <2> QED BY <1>1, <1>2, <2>1
<1>7. k >= b => q >= 1
  <2> SUFFICES ASSUME k >= b, q = 0 PROVE FALSE
    BY <1>2, <1>4
  <2>1. b * q = 0
    BY <1>2
  <2> QED BY <1>1, <1>2, <2>1
<1>8. n = b => r = 0 /\ q = k
  <2> SUFFICES ASSUME n = b PROVE r = 0 /\ q = k
    OBVIOUS
  <2>1. b * q + r = k * b
    BY <1>2 DEF a
  <2> QED BY <1>2, <2>1, Multiple
<1>9. r = 0 => Returned!Quantized(a, b) = q
  BY <1>2, <1>3
<1>10. Returned!Quantized(a, b) \in {q, q + 1}
  BY <1>2, <1>3
<1>11. Returned!Quantized(a, b) \in 0..k
  <2>1. CASE q = k
    BY <1>2, <1>4, <1>6, <1>9, <2>1
  <2>2. CASE q # k
    BY <1>2, <1>4, <1>5, <1>10, <2>2
  <2> QED BY <2>1, <2>2
<1>12. k >= b => Returned!Quantized(a, b) >= 1
  BY <1>2, <1>7, <1>10
<1>13. n = b => Returned!Quantized(a, b) = k
  BY <1>8, <1>9
<1> QED BY <1>11, <1>12, <1>13 DEF a

\* What is taken off the cost of sales.
LEMMA ShareOfCost ==
    ASSUME cogs \in 0..ReturnCost, NEW n \in Nat \ {0}
    PROVE  /\ cogs - Returned!Reversed(n) \in 0..cogs
           /\ cogs = ReturnCost => cogs - Returned!Reversed(n) < ReturnCost
           /\ n >= Sold => cogs - Returned!Reversed(n) = 0
<1>1. Returned!Lesser(n, Sold) \in 1..Sold /\ (n >= Sold => Returned!Lesser(n, Sold) = Sold)
  BY ReturnsNumbers DEF Returned!Lesser
<1> DEFINE m == Returned!Lesser(n, Sold)  k == cogs
<1>2. k \in Nat /\ k <= ReturnCost
  BY ReturnsNumbers
<1>3. Returned!Reversed(n) = Returned!Quantized(k * m, Sold)
  BY DEF Returned!Reversed
<1>4. m \in 1..Sold /\ (n >= Sold => m = Sold)
  BY <1>1
<1> HIDE DEF m, k
<1>5. /\ Returned!Quantized(k * m, Sold) \in 0..k
      /\ k >= Sold => Returned!Quantized(k * m, Sold) >= 1
      /\ m = Sold => Returned!Quantized(k * m, Sold) = k
  BY <1>2, <1>4, Share, ReturnsNumbers
<1> DEFINE x == Returned!Quantized(k * m, Sold)
<1> HIDE DEF x
<1>6. x \in 0..k /\ (k >= Sold => x >= 1) /\ (m = Sold => x = k) /\ Returned!Reversed(n) = x
  BY <1>3, <1>5 DEF x
<1>7. k - x \in 0..k /\ (k = ReturnCost => k - x < ReturnCost) /\ (n >= Sold => k - x = 0)
  BY <1>2, <1>4, <1>6, ReturnsNumbers
<1> QED BY <1>6, <1>7 DEF k

LEMMA WhatFollows ==
    /\ Returned!After("taking") = "looking" /\ Returned!After("looking") = "invoicing"
    /\ Returned!After("invoicing") = "writing" /\ Returned!Confirmation[1] = "taking"
<1>1. /\ Returned!Confirmation[1] = "taking" /\ Returned!Confirmation[2] = "looking"
      /\ Returned!Confirmation[3] = "invoicing" /\ Returned!Confirmation[4] = "writing"
  BY DEF Returned!Confirmation
<1>2. ASSUME NEW i \in 1..3
      PROVE  (CHOOSE j \in 1..3 : Returned!Confirmation[j] = Returned!Confirmation[i]) = i
  <2>1. \A j \in 1..3 : Returned!Confirmation[j] = Returned!Confirmation[i] <=> j = i
    <3>1. i = 1 \/ i = 2 \/ i = 3
      OBVIOUS
    <3> TAKE j \in 1..3
    <3>2. j = 1 \/ j = 2 \/ j = 3
      OBVIOUS
    <3> QED BY <1>1, <3>1, <3>2
  <2>2. (CHOOSE j \in 1..3 : Returned!Confirmation[j] = Returned!Confirmation[i]) \in 1..3
        /\ Returned!Confirmation[CHOOSE j \in 1..3 : Returned!Confirmation[j] = Returned!Confirmation[i]] = Returned!Confirmation[i]
    OBVIOUS
  <2> QED BY <2>1, <2>2
<1>3. /\ (CHOOSE j \in 1..3 : Returned!Confirmation[j] = "taking") = 1
      /\ (CHOOSE j \in 1..3 : Returned!Confirmation[j] = "looking") = 2
      /\ (CHOOSE j \in 1..3 : Returned!Confirmation[j] = "invoicing") = 3
  <2>1. 1 \in 1..3 /\ 2 \in 1..3 /\ 3 \in 1..3
    OBVIOUS
  <2>2. (CHOOSE j \in 1..3 : Returned!Confirmation[j] = Returned!Confirmation[1]) = 1
    BY <1>2, <2>1
  <2>3. (CHOOSE j \in 1..3 : Returned!Confirmation[j] = Returned!Confirmation[2]) = 2
    BY <1>2, <2>1
  <2>4. (CHOOSE j \in 1..3 : Returned!Confirmation[j] = Returned!Confirmation[3]) = 3
    BY <1>2, <2>1
  <2> QED BY <1>1, <2>2, <2>3, <2>4
<1> QED BY <1>1, <1>3 DEF Returned!After

LEMMA ReturnsIdle == Returned!Idle \in Returned!Work /\ Returned!Idle.stage = "idle"
    /\ 1 \in Returned!ReturnId
<1>1. 1 \in Returned!ReturnId
  BY ReturnsNumbers DEF Returned!ReturnId
<1> QED BY <1>1 DEF Returned!Idle, Returned!Work, Returned!Status

-----------------------------------------------------------------------------
(* The steps. *)

Going == {"looking", "claiming", "invoicing", "writing"}
Cancels(x) == x.stage = "writing" /\ x.status = "CANCELLED"
Knows(x) ==
    \/ x.stage = "invoicing"
    \/ x.stage = "writing" /\ x.status = "CONFIRMED"
    \/ x.stage # "idle" /\ x.status = "SHIPPED"

\* What a request is to know of its order d, of which b was there before.
KnowsOrder(w, r, d, there) ==
    /\ w.stage # "idle" =>
         /\ w.order = r /\ d.kind # "none" /\ w.status # "DRAFT"
         /\ w.status = "CANCELLED" => "cancel" \in entries
    /\ w.stage \in {"taking", "looking", "claiming", "invoicing"} => w.status = "CONFIRMED"
    /\ w.stage \in {"shipping", "releasing"} => w.status = "SHIPPED"
    /\ w.stage = "cancelling" => w.status = "CANCELLED"
    /\ w.stage \in {"looking", "claiming"} => d.taken = 1 /\ d.claims = 0
    /\ w.stage = "invoicing" => d.taken = 1
    /\ Knows(w) /\ w.stage # "invoicing" => d.taken = 1 /\ ~there
    /\ ClaimsKnown =>
         /\ w.stage = "claiming" => Returned!Owed(d) = 1
         /\ Knows(w) => d.claims = Returned!Owed(d)

\* What happens to an order, c being the cost of sales after it.
OrderGoes(x, w, b, d, there, c) ==
    /\ d.kind = b.kind /\ d.quantity = b.quantity
    /\ d.taken >= b.taken /\ d.taken <= 1 /\ d.claims <= 1
    /\ d.claims > 0 => d.taken > 0
    /\ d.claims <= b.claims \/ x.stage = "claiming"
    /\ w.stage \in {"looking", "claiming"} => x.stage \in {"looking", "claiming"} \/ b.taken = 0
    /\ d.status \in Confirmed => d.taken = 1 /\ ~there
    /\ ClaimsKnown =>
         /\ d.status \in Confirmed =>
              \/ d.claims = Returned!Owed(d) \/ Cancels(w)
              \/ d.status = b.status /\ d.claims = b.claims /\ ~Cancels(x)
         /\ d.claims = b.claims \/ "race" \notin entries \/ Returned!Owed(b) # b.claims
    /\ c <= cogs /\ (d.taken > 0 => c < ReturnCost)
    /\ \/ d.taken = b.taken /\ c = cogs
       \/ d.kind = "EXCHANGE" \/ d.quantity >= Sold => c = 0
    /\ "crash" \notin entries /\ d.taken > 0 =>
         \/ d.status # "DRAFT" \/ w.stage \in Going
         \/ d.taken = b.taken /\ d.status = b.status /\ x.stage \notin Going

LEMMA RequestGoes ==
    ASSUME ReturnsInv, NEW p \in Session, NEW w \in Returned!Work, NEW r \in Returned!ReturnId,
           NEW d \in Returned!Back,
           desk' = [desk EXCEPT ![p] = w], back' = [back EXCEPT ![r] = d], entries' = entries,
           cogs' \in 0..ReturnCost, shelf' \in Nat, reserved' \in 0..ReturnOpening,
           invoiced' \in BOOLEAN, invoiced' => invoiced,
           IF Returned!At(p, "idle") THEN "race" \in entries
             \/ Returned!AtRest ELSE Returned!Of(p) = r,
           KnowsOrder(w, r, d, invoiced'), OrderGoes(desk[p], w, back[r], d, invoiced', cogs')
    PROVE  ReturnsInv'
<1> DEFINE x == desk[p]  b == back[r]
<1>1. /\ desk'[p] = w /\ \A q \in Session : q # p => desk'[q] = desk[q]
      /\ back'[r] = d /\ \A s \in Returned!ReturnId : s # r => back'[s] = back[s]
      /\ \A q \in Session : desk[q].order \in Returned!ReturnId
      /\ b \in Returned!Back /\ b.taken \in Nat /\ b.claims \in Nat /\ d.taken \in Nat
           /\ d.claims \in Nat
  BY DEF ReturnsInv, Returned!TypeOK, Returned!Work, Returned!Back
<1>2. Returned!TypeOK'
  <2>1. cogs' \in Int
    OBVIOUS
  <2> QED BY <2>1 DEF ReturnsInv, Returned!TypeOK
<1>3. d.kind = b.kind /\ d.quantity = b.quantity /\ d.taken >= b.taken
      /\ Returned!Owed(d) = Returned!Owed(b)
  BY DEF OrderGoes, Returned!Owed
<1>4. x.stage # "idle" => x.order = r
  BY DEF Returned!Of, Returned!At
<1>5. RequestRight'
  <2>1. \A s \in Returned!ReturnId : back'[s].kind = back[s].kind
          /\ back'[s].quantity = back[s].quantity
    BY <1>1, <1>3
  <2>2. ASSUME NEW q \in Session, desk'[q].stage # "idle"
        PROVE  /\ back'[desk'[q].order].kind # "none" /\ desk'[q].status # "DRAFT"
               /\ desk'[q].status = "CANCELLED" => "cancel" \in entries
    <3>1. CASE q = p
      BY <1>1, <2>2, <3>1 DEF KnowsOrder
    <3>2. CASE q # p
      BY <1>1, <2>1, <2>2, <3>2 DEF ReturnsInv, RequestRight, Returned!Doc, Returned!Of,
        Returned!At
    <3> QED BY <3>1, <3>2
  <2>3. ASSUME NEW q \in Session
        PROVE  /\ desk'[q].stage \in {"taking", "looking", "claiming", "invoicing"} =>
                    desk'[q].status = "CONFIRMED"
               /\ desk'[q].stage \in {"shipping", "releasing"} => desk'[q].status = "SHIPPED"
               /\ desk'[q].stage = "cancelling" => desk'[q].status = "CANCELLED"
    <3>1. CASE q = p
      BY <1>1, <3>1 DEF KnowsOrder
    <3>2. CASE q # p
      BY <1>1, <3>2 DEF ReturnsInv, RequestRight, Returned!At
    <3> QED BY <3>1, <3>2
  <2>4. "race" \notin entries => \A q, s \in Session :
           desk'[q].stage # "idle" /\ desk'[s].stage # "idle" => q = s
    BY <1>1 DEF ReturnsInv, RequestRight, Returned!AtRest, Returned!At
  <2>5. \A s \in Returned!ReturnId : back'[s].kind # "none" => back'[s].quantity > 0
    BY <2>1 DEF ReturnsInv, RequestRight
  <2> QED BY <2>2, <2>3, <2>4, <2>5 DEF RequestRight, Returned!Doc, Returned!Of, Returned!At
<1>6. ClaimsRight'
  <2>1. Returned!BookedOnce' /\ \A s \in Returned!ReturnId : back'[s].claims > 0
          => back'[s].taken > 0
    BY <1>1 DEF ReturnsInv, ClaimsRight, Returned!BookedOnce, OrderGoes
  <2>2. \A q, s \in Session :
          /\ desk[q].stage \in {"looking", "claiming"}
          /\ desk[s].stage \in {"looking", "claiming"} /\ desk[q].order = desk[s].order
          => q = s
    BY DEF ReturnsInv, ClaimsRight, Claimer, Returned!Of
  <2>3. \A q \in Session : desk[q].stage \in {"looking", "claiming"} =>
           back[desk[q].order].taken = 1 /\ back[desk[q].order].claims = 0
    BY DEF ReturnsInv, ClaimsRight, Claimer, Returned!Doc, Returned!Of
  <2>4. ASSUME NEW q \in Session, q # p, desk[q].stage \in {"looking", "claiming"},
               desk[q].order = r
        PROVE  d.taken = 1 /\ d.claims = 0 /\ w.stage \notin {"looking", "claiming"}
    <3>1. b.taken = 1 /\ b.claims = 0
      BY <2>3, <2>4
    <3>2. x.stage \notin {"looking", "claiming"}
      BY <1>4, <2>2, <2>4
    <3> QED BY <1>1, <3>1, <3>2 DEF OrderGoes
  <2>5. ASSUME NEW q \in Session, desk'[q].stage \in {"looking", "claiming"}
        PROVE  back'[desk'[q].order].taken = 1 /\ back'[desk'[q].order].claims = 0
    <3>1. CASE q = p
      BY <1>1, <2>5, <3>1 DEF KnowsOrder
    <3>2. CASE q # p
      BY <1>1, <2>3, <2>4, <2>5, <3>2
    <3> QED BY <3>1, <3>2
  <2>6. ASSUME NEW q \in Session, desk'[q].stage \in {"looking", "claiming"},
               NEW s \in Session, desk'[s].stage \in {"looking", "claiming"},
               desk'[q].order = desk'[s].order
        PROVE  q = s
    <3>1. w.stage # "idle" => w.order = r
      BY DEF KnowsOrder
    <3> QED BY <1>1, <2>2, <2>4, <2>6, <3>1
  <2> QED BY <2>1, <2>5, <2>6 DEF ClaimsRight, Claimer, Returned!Doc, Returned!Of
<1>7. ConfirmsRight'
  <2>1. \A s \in Returned!ReturnId :
          (back[s].taken = 1 /\ ~invoiced => back'[s].taken = 1 /\ ~invoiced')
                                     /\ (back[s].taken = 1 => back'[s].taken = 1)
    <3> TAKE s \in Returned!ReturnId
    <3>1. b.taken = 1 => d.taken = 1
      BY <1>1, <1>3 DEF OrderGoes
    <3> QED BY <1>1, <3>1
  <2>2. \A s \in Returned!ReturnId : back'[s].status \in Confirmed => back'[s].taken = 1
          /\ ~invoiced'
    <3> TAKE s \in Returned!ReturnId
    <3>1. CASE s = r
      BY <1>1, <3>1 DEF OrderGoes
    <3>2. CASE s # r
      BY <1>1, <2>1, <3>2 DEF ReturnsInv, ConfirmsRight, GoodsBooked
    <3> QED BY <3>1, <3>2
  <2>3. ASSUME NEW q \in Session
        PROVE  /\ desk'[q].stage = "invoicing" => back'[desk'[q].order].taken = 1
               /\ desk'[q].stage = "writing" /\ desk'[q].status = "CONFIRMED" =>
                    back'[desk'[q].order].taken = 1 /\ ~invoiced'
               /\ desk'[q].stage # "idle" /\ desk'[q].status = "SHIPPED" =>
                    back'[desk'[q].order].taken = 1 /\ ~invoiced'
    <3>1. CASE q = p
      <4>1. w.stage # "idle" => w.order = r
        BY DEF KnowsOrder
      <4>2. w.stage = "invoicing" => w.status = "CONFIRMED"
        BY DEF KnowsOrder
      <4> QED BY <1>1, <3>1, <4>1, <4>2 DEF KnowsOrder, Knows
    <3>2. CASE q # p
      <4>1. /\ desk[q].stage = "invoicing" => back[desk[q].order].taken = 1
            /\ desk[q].stage = "writing" /\ desk[q].status = "CONFIRMED" =>
                 back[desk[q].order].taken = 1 /\ ~invoiced
            /\ desk[q].stage # "idle" /\ desk[q].status = "SHIPPED" =>
                 back[desk[q].order].taken = 1 /\ ~invoiced
        BY DEF ReturnsInv, ConfirmsRight, GoodsBooked, Returned!Doc, Returned!Of, Returned!At
      <4> QED BY <1>1, <2>1, <3>2, <4>1
    <3> QED BY <3>1, <3>2
  <2> QED BY <2>2, <2>3 DEF ConfirmsRight, GoodsBooked, Returned!Doc, Returned!Of, Returned!At
<1>8. CostRight'
  <2>1. \A s \in Returned!ReturnId : back'[s].taken > 0 => cogs' < ReturnCost
    <3> TAKE s \in Returned!ReturnId
    <3>1. CASE s = r
      BY <1>1, <3>1 DEF OrderGoes
    <3>2. CASE s # r
      <4>1. back[s].taken > 0 => cogs < ReturnCost
        BY DEF ReturnsInv, CostRight
      <4>2. cogs' <= cogs /\ cogs \in Int /\ ReturnCost \in Int
        BY ReturnsNumbers DEF OrderGoes, ReturnsInv, Returned!TypeOK
      <4> QED BY <1>1, <3>2, <4>1, <4>2
    <3> QED BY <3>1, <3>2
  <2>2. ASSUME "late" \notin entries, ~({"edit", "crash"} \subseteq entries),
               NEW s \in Returned!ReturnId,
               back'[s].taken > 0, back'[s].kind = "EXCHANGE" \/ back'[s].quantity >= Sold
        PROVE  cogs' = 0
    <3>1. back[s].taken > 0 /\ (back[s].kind = "EXCHANGE" \/ back[s].quantity >= Sold) => cogs = 0
      BY <2>2 DEF ReturnsInv, CostRight
    <3>2. cogs' <= cogs /\ cogs' >= 0
      BY ReturnsNumbers DEF OrderGoes
    <3>3. CASE s # r
      BY <1>1, <2>2, <3>1, <3>2, <3>3
    <3>4. CASE s = r
      <4>1. CASE d.taken = b.taken /\ cogs' = cogs
        BY <1>1, <1>3, <2>2, <3>1, <3>4, <4>1
      <4>2. CASE d.kind = "EXCHANGE" \/ d.quantity >= Sold => cogs' = 0
        BY <1>1, <2>2, <3>4, <4>2
      <4> QED BY <4>1, <4>2 DEF OrderGoes
    <3> QED BY <3>3, <3>4
  <2> QED BY <2>1, <2>2 DEF CostRight
<1>9. ASSUME ClaimsKnown PROVE ClaimsExact'
  <2> USE <1>9
  <2>1. \A s \in Returned!ReturnId : back[s].status \in Confirmed =>
           back[s].claims = Returned!Owed(back[s])
           \/ \E q \in Session : Cancels(desk[q]) /\ desk[q].order = s
    BY DEF ReturnsInv, ClaimsExact, Cancelling, Cancels, Returned!Of, Returned!At
  <2>2. \A q \in Session : Knows(desk[q]) =>
           back[desk[q].order].claims = Returned!Owed(back[desk[q].order])
    BY DEF ReturnsInv, ClaimsExact, Knows, Returned!Doc, Returned!Of, Returned!At
  <2>3. \A q \in Session : desk[q].stage = "claiming" => Returned!Owed(back[desk[q].order]) = 1
    BY DEF ReturnsInv, ClaimsExact, Returned!Doc, Returned!Of, Returned!At
  <2>4. \A q \in Session : "race" \notin entries /\ q # p /\ x.stage # "idle"
          => desk[q].stage = "idle"
    BY DEF ReturnsInv, RequestRight, Returned!At
  <2>5. \A q \in Session : "race" \notin entries /\ q # p /\ x.stage = "idle"
          => desk[q].stage = "idle"
    BY DEF Returned!AtRest, Returned!At
  <2>6. \A q \in Session : q # p /\ Knows(desk[q]) /\ desk[q].order = r => d.claims = b.claims
    <3> TAKE q \in Session
    <3> HAVE q # p /\ Knows(desk[q]) /\ desk[q].order = r
    <3>1. desk[q].stage # "idle"
      BY DEF Knows
    <3>2. b.claims = Returned!Owed(b) /\ "race" \in entries
      BY <2>2, <2>4, <2>5, <3>1
    <3> QED BY <3>2 DEF OrderGoes
  <2>7. ASSUME NEW q \in Session
        PROVE  /\ desk'[q].stage = "claiming" => Returned!Owed(back'[desk'[q].order]) = 1
               /\ Knows(desk'[q])
                    => back'[desk'[q].order].claims = Returned!Owed(back'[desk'[q].order])
    <3>1. CASE q = p
      <4>1. Knows(w) \/ w.stage = "claiming" => w.order = r
        BY DEF KnowsOrder, Knows
      <4> QED BY <1>1, <3>1, <4>1 DEF KnowsOrder
    <3>2. CASE q # p
      <4>1. CASE desk[q].order = r
        BY <1>1, <1>3, <2>2, <2>3, <2>6, <3>2, <4>1
      <4>2. CASE desk[q].order # r
        BY <1>1, <2>2, <2>3, <3>2, <4>2
      <4> QED BY <4>1, <4>2
    <3> QED BY <3>1, <3>2
  <2>8. ASSUME NEW s \in Returned!ReturnId, back'[s].status \in Confirmed
        PROVE  back'[s].claims = Returned!Owed(back'[s])
               \/ \E q \in Session : Cancels(desk'[q]) /\ desk'[q].order = s
    <3>1. CASE s # r
      <4>1. back'[s] = back[s]
        BY <1>1, <3>1
      <4>2. CASE \E q \in Session : Cancels(desk[q]) /\ desk[q].order = s
        <5> PICK q \in Session : Cancels(desk[q]) /\ desk[q].order = s
          BY <4>2
        <5>1. q # p
          BY <1>4, <3>1 DEF Cancels
        <5> QED BY <1>1, <5>1
      <4> QED BY <2>1, <2>8, <4>1, <4>2
    <3>2. CASE s = r
      <4>1. CASE d.claims = Returned!Owed(d)
        BY <1>1, <3>2, <4>1
      <4>2. CASE Cancels(w)
        <5>1. w.order = r
          BY <4>2 DEF KnowsOrder, Cancels
        <5> QED BY <1>1, <3>2, <4>2, <5>1
      <4>3. CASE d.status = b.status /\ d.claims = b.claims /\ ~Cancels(x)
        <5>1. CASE b.claims = Returned!Owed(b)
          BY <1>1, <1>3, <3>2, <4>3, <5>1
        <5>2. CASE \E q \in Session : Cancels(desk[q]) /\ desk[q].order = r
          <6> PICK q \in Session : Cancels(desk[q]) /\ desk[q].order = r
            BY <5>2
          <6>1. q # p
            BY <4>3
          <6> QED BY <1>1, <3>2, <6>1
        <5> QED BY <1>1, <2>1, <2>8, <3>2, <4>3, <5>1, <5>2
      <4> QED BY <1>1, <2>8, <3>2, <4>1, <4>2, <4>3 DEF OrderGoes
    <3> QED BY <3>1, <3>2
  <2> QED BY <2>7, <2>8 DEF ClaimsExact, Cancelling, Cancels, Knows, Returned!Doc, Returned!Of,
     Returned!At
<1>10. ASSUME "crash" \notin entries PROVE TakenKnown'
  <2>1. ASSUME NEW s \in Returned!ReturnId, back'[s].taken > 0, back'[s].status = "DRAFT"
        PROVE  \E q \in Session : desk'[q].stage \in Going /\ desk'[q].order = s
    <3>1. back[s].taken > 0 /\ back[s].status = "DRAFT" =>
            \E q \in Session : desk[q].stage \in Going /\ desk[q].order = s
      BY <1>10 DEF ReturnsInv, TakenKnown, Going, Returned!Of
    <3>2. CASE s # r
      <4> PICK q \in Session : desk[q].stage \in Going /\ desk[q].order = s
        BY <1>1, <2>1, <3>1, <3>2
      <4>1. q # p
        BY <1>4, <3>2 DEF Going
      <4> QED BY <1>1, <4>1
    <3>3. CASE s = r
      <4>1. CASE w.stage \in Going
        <5>1. w.order = r
          BY <4>1 DEF KnowsOrder, Going
        <5> QED BY <1>1, <3>3, <4>1, <5>1
      <4>2. CASE d.taken = b.taken /\ d.status = b.status /\ x.stage \notin Going
        <5> PICK q \in Session : desk[q].stage \in Going /\ desk[q].order = s
          BY <1>1, <2>1, <3>1, <3>3, <4>2
        <5>1. q # p
          BY <4>2
        <5> QED BY <1>1, <5>1
      <4> QED BY <1>1, <1>10, <2>1, <3>3, <4>1, <4>2 DEF OrderGoes
    <3> QED BY <3>2, <3>3
  <2> QED BY <2>1 DEF TakenKnown, Going, Returned!Of
<1> QED BY <1>2, <1>5, <1>6, <1>7, <1>8, <1>9, <1>10 DEF ReturnsInv, ClaimsKnown
\* A form saves at rest.
LEMMA FormGoes ==
    ASSUME ReturnsInv, Returned!AtRest, NEW r \in Returned!ReturnId, NEW d \in Returned!Back,
           back' = [back EXCEPT ![r] = d],
           UNCHANGED <<cogs, invoiced, shelf, reserved, desk, entries>>,
           d.quantity > 0, d.taken <= 1, d.claims <= 1, d.claims > 0 => d.taken > 0,
           d.status \in Confirmed =>
               d.taken = 1 /\ ~invoiced /\ (ClaimsKnown => d.claims = Returned!Owed(d)),
           d.taken > 0 => cogs < ReturnCost,
           /\ "late" \notin entries /\ ~({"edit", "crash"} \subseteq entries)
           /\ d.taken > 0 /\ (d.kind = "EXCHANGE" \/ d.quantity >= Sold)
           => cogs = 0,
           "crash" \notin entries /\ d.taken > 0 => d.status # "DRAFT"
    PROVE  ReturnsInv'
<1>1. back'[r] = d /\ \A s \in Returned!ReturnId : s # r => back'[s] = back[s]
  BY DEF ReturnsInv, Returned!TypeOK
<1>2. \A p \in Session : desk'[p].stage = "idle" /\ desk[p].stage = "idle"
  BY DEF Returned!AtRest, Returned!At
<1>3. Returned!TypeOK'
  BY DEF ReturnsInv, Returned!TypeOK
<1>4. RequestRight'
  BY <1>1, <1>2 DEF ReturnsInv, RequestRight, Returned!At, Returned!Doc, Returned!Of
<1>5. ClaimsRight'
  BY <1>1, <1>2 DEF ReturnsInv, ClaimsRight, Returned!BookedOnce, Claimer, Returned!Doc,
    Returned!Of
<1>6. ConfirmsRight'
  BY <1>1, <1>2 DEF ReturnsInv, ConfirmsRight, GoodsBooked, Returned!At, Returned!Doc, Returned!Of
<1>7. CostRight'
  <2>1. cogs' \in 0..ReturnCost
    BY DEF ReturnsInv, CostRight
  <2>2. \A s \in Returned!ReturnId : back'[s].taken > 0 => cogs' < ReturnCost
    BY <1>1 DEF ReturnsInv, CostRight
  <2>3. "late" \notin entries /\ ~({"edit", "crash"} \subseteq entries) =>
          \A s \in Returned!ReturnId :
            back'[s].taken > 0 /\ (back'[s].kind = "EXCHANGE" \/ back'[s].quantity >= Sold)
              => cogs' = 0
    BY <1>1 DEF ReturnsInv, CostRight
  <2> QED BY <2>1, <2>2, <2>3 DEF CostRight
<1>8. ASSUME ClaimsKnown PROVE ClaimsExact'
  <2>1. ~\E p \in Session : desk[p].stage = "writing"
    BY <1>2
  <2>2. \A s \in Returned!ReturnId : back[s].status \in Confirmed
          => back[s].claims = Returned!Owed(back[s])
    BY <1>8, <2>1 DEF ReturnsInv, ClaimsExact, Cancelling, Returned!At
  <2>3. \A s \in Returned!ReturnId : back'[s].status \in Confirmed
          => back'[s].claims = Returned!Owed(back'[s])
    BY <1>1, <1>8, <2>2
  <2> QED BY <1>2, <2>3 DEF ClaimsExact, Returned!At
<1>9. ASSUME "crash" \notin entries PROVE TakenKnown'
  <2>1. \A s \in Returned!ReturnId : back[s].taken > 0 => back[s].status # "DRAFT"
    BY <1>2, <1>9 DEF ReturnsInv, TakenKnown
  <2> QED BY <1>1, <1>9, <2>1 DEF TakenKnown
<1> QED BY <1>3, <1>4, <1>5, <1>6, <1>7, <1>8, <1>9 DEF ReturnsInv, ClaimsKnown

LEMMA CreateGoes ==
    ASSUME ReturnsInv, NEW r \in Returned!ReturnId, NEW k \in {"RETURN", "EXCHANGE"},
           Returned!Create(r, k)
    PROVE  ReturnsInv'
<1> DEFINE d == [Returned!NoBack EXCEPT !.kind = k, !.quantity = Sold]
<1>1. /\ d \in Returned!Back /\ d.quantity = Sold /\ d.taken = 0 /\ d.claims = 0
           /\ d.status = "DRAFT"
  BY ReturnsNumbers DEF Returned!NoBack, Returned!Back, Returned!Status
<1>2. Sold > 0
  BY ReturnsNumbers
<1>3. back' = [back EXCEPT ![r] = d] /\ Returned!AtRest
      /\ UNCHANGED <<cogs, invoiced, shelf, reserved, desk, entries>>
  BY DEF Returned!Create
<1> HIDE DEF d
<1>4. /\ ~(d.taken > 0) /\ ~(d.claims > 0) /\ d.taken <= 1 /\ d.claims <= 1 /\ d.quantity > 0
      /\ d.status \notin Confirmed
  BY <1>1, <1>2 DEF Confirmed
<1> QED BY <1>1, <1>3, <1>4, FormGoes

\* A draft at rest has no goods yet, unless a confirmation died.
LEMMA EditGoes ==
    ASSUME ReturnsInv, NEW r \in Returned!ReturnId, NEW n \in ReturnForms, Returned!Edit(r, n)
    PROVE  ReturnsInv'
<1> DEFINE b == back[r]  d == [b EXCEPT !.quantity = n]
<1>1. n \in Nat /\ n > 0
  BY ReturnsNumbers
<1>2. b \in Returned!Back
  BY DEF ReturnsInv, Returned!TypeOK
<1>3. /\ d \in Returned!Back /\ d.quantity = n /\ d.taken = b.taken /\ d.claims = b.claims
      /\ d.status = b.status /\ d.kind = b.kind
  BY <1>1, <1>2 DEF Returned!Back
<1>4. /\ back' = [back EXCEPT ![r] = d] /\ Returned!AtRest
      /\ UNCHANGED <<cogs, invoiced, shelf, reserved, desk, entries>>
      /\ "edit" \in entries /\ (b.status = "DRAFT" \/ "late" \in entries)
  BY DEF Returned!Edit
<1>5. /\ b.taken <= 1 /\ b.claims <= 1 /\ (b.claims > 0 => b.taken > 0)
      /\ b.taken > 0 => cogs < ReturnCost
      /\ b.status \in Confirmed => b.taken = 1 /\ ~invoiced
  BY DEF ReturnsInv, ClaimsRight, Returned!BookedOnce, CostRight, ConfirmsRight, GoodsBooked
<1>6. ClaimsKnown => b.status = "DRAFT"
  BY <1>4 DEF ClaimsKnown
<1>7. "crash" \notin entries /\ b.taken > 0 => b.status # "DRAFT"
  BY <1>4 DEF Returned!AtRest, Returned!At, ReturnsInv, TakenKnown
<1> HIDE DEF d, b
<1>8. "late" \notin entries /\ ~({"edit", "crash"} \subseteq entries) => ~(d.taken > 0)
  BY <1>3, <1>4, <1>7
<1> QED BY <1>1, <1>3, <1>4, <1>5, <1>6, <1>7, <1>8, FormGoes DEF Confirmed

\* What a request under way knows.
LEMMA RequestKnows ==
    ASSUME ReturnsInv, NEW p \in Session
    PROVE  /\ desk[p] \in Returned!Work /\ Returned!Of(p) \in Returned!ReturnId
                /\ Returned!Doc(p) \in Returned!Back
           /\ desk[p].order = Returned!Of(p) /\ Returned!Doc(p) = back[Returned!Of(p)]
           /\ ~Returned!At(p, "idle") =>
                KnowsOrder(desk[p], Returned!Of(p), Returned!Doc(p), invoiced)
                  /\ Returned!Doc(p).quantity > 0
<1>1. /\ desk[p] \in Returned!Work /\ Returned!Of(p) \in Returned!ReturnId
           /\ Returned!Doc(p) \in Returned!Back
      /\ desk[p].order = Returned!Of(p) /\ Returned!Doc(p) = back[Returned!Of(p)]
  BY DEF ReturnsInv, Returned!TypeOK, Returned!Work, Returned!Of, Returned!Doc
<1>2. ASSUME ~Returned!At(p, "idle")
      PROVE  KnowsOrder(desk[p], Returned!Of(p), Returned!Doc(p), invoiced)
               /\ Returned!Doc(p).quantity > 0
  <2> DEFINE x == desk[p]  b == Returned!Doc(p)
  <2>1. /\ b.kind # "none" /\ x.status # "DRAFT"
             /\ (x.status = "CANCELLED" => "cancel" \in entries)
        /\ x.stage \in {"taking", "looking", "claiming", "invoicing"} => x.status = "CONFIRMED"
        /\ x.stage \in {"shipping", "releasing"} => x.status = "SHIPPED"
        /\ x.stage = "cancelling" => x.status = "CANCELLED"
        /\ b.quantity > 0
    BY <1>1, <1>2 DEF ReturnsInv, RequestRight, Returned!At
  <2>2. x.stage \in {"looking", "claiming"} => b.taken = 1 /\ b.claims = 0
    BY DEF ReturnsInv, ClaimsRight, Claimer
  <2>3. x.stage = "invoicing" => b.taken = 1
    BY DEF ReturnsInv, ConfirmsRight, Returned!At
  <2>4. Knows(x) /\ x.stage # "invoicing" => b.taken = 1 /\ ~invoiced
    BY <1>1 DEF ReturnsInv, ConfirmsRight, GoodsBooked, Returned!At, Knows
  <2>5. ClaimsKnown =>
           /\ x.stage = "claiming" => Returned!Owed(b) = 1
           /\ Knows(x) => b.claims = Returned!Owed(b)
    BY DEF ReturnsInv, ClaimsExact, Returned!At, Knows
  <2> QED BY <1>1, <2>1, <2>2, <2>3, <2>4, <2>5 DEF KnowsOrder
<1> QED BY <1>1, <1>2

\* What an order that is taken back is.
LEMMA OrderKnown ==
    ASSUME ReturnsInv, NEW r \in Returned!ReturnId
    PROVE  /\ back[r] \in Returned!Back /\ back[r].taken \in {0, 1} /\ back[r].claims \in {0, 1}
           /\ back[r].claims > 0 => back[r].taken > 0
           /\ back[r].taken > 0 => cogs < ReturnCost
           /\ back[r].status \in Confirmed => back[r].taken = 1 /\ ~invoiced
           /\ cogs \in 0..ReturnCost
<1>1. back[r] \in Returned!Back
  BY DEF ReturnsInv, Returned!TypeOK
<1>2. back[r].taken \in Nat /\ back[r].claims \in Nat
  BY <1>1 DEF Returned!Back
<1> QED BY <1>1, <1>2 DEF ReturnsInv, ClaimsRight, Returned!BookedOnce, CostRight, ConfirmsRight,
   GoodsBooked

\* A step that leaves the claims, the receipts and the status of its order.
LEMMA OrderStays ==
    ASSUME ReturnsInv, NEW x \in Returned!Work, NEW w \in Returned!Work,
           NEW r \in Returned!ReturnId, NEW d \in Returned!Back,
           d.kind = back[r].kind, d.quantity = back[r].quantity, d.taken = back[r].taken,
           d.claims = back[r].claims, d.status = back[r].status,
           NEW there \in BOOLEAN, there => invoiced,
           w.stage \in {"looking", "claiming"} => x.stage \in {"looking", "claiming"},
           ClaimsKnown => ~Cancels(x),
           "crash" \notin entries /\ x.stage \in Going => w.stage \in Going
    PROVE  OrderGoes(x, w, back[r], d, there, cogs)
<1>1. /\ back[r].taken \in {0, 1} /\ back[r].claims \in {0, 1}
      /\ back[r].claims > 0 => back[r].taken > 0
      /\ back[r].taken > 0 => cogs < ReturnCost
      /\ back[r].status \in Confirmed => back[r].taken = 1 /\ ~invoiced
      /\ cogs \in 0..ReturnCost
  BY OrderKnown
<1>2. cogs <= cogs
  BY <1>1, ReturnsNumbers
<1>3. "crash" \notin entries /\ d.taken > 0 =>
         \/ d.status # "DRAFT" \/ w.stage \in Going
         \/ d.taken = back[r].taken /\ d.status = back[r].status /\ x.stage \notin Going
  OBVIOUS
<1> QED BY <1>1, <1>2, <1>3 DEF OrderGoes

\* A step to a stage.
LEMMA StageGoes ==
    ASSUME NEW x \in Returned!Work,
           NEW s \in {"idle", "saving", "taking", "looking", "claiming", "invoicing", "shipping",
                      "releasing", "cancelling", "writing"}
    PROVE  /\ [x EXCEPT !.stage = s] \in Returned!Work /\ [x EXCEPT !.stage = s].stage = s
           /\ [x EXCEPT !.stage = s].order = x.order /\ [x EXCEPT !.stage = s].status = x.status
BY DEF Returned!Work

LEMMA IdleKnows ==
    ASSUME NEW r, NEW d, NEW there
    PROVE  KnowsOrder(Returned!Idle, r, d, there)
BY DEF KnowsOrder, Knows, Returned!Idle

\* A step that leaves the order itself.
LEMMA SameBack == ASSUME Returned!TypeOK, NEW r \in Returned!ReturnId
                  PROVE  back = [back EXCEPT ![r] = back[r]]
BY DEF Returned!TypeOK

LEMMA AskStatusGoes ==
    ASSUME ReturnsInv, NEW p \in Session, NEW r \in Returned!ReturnId, NEW s \in Returned!Status,
           Returned!AskStatus(p, r, s)
    PROVE  ReturnsInv'
<1> DEFINE b == back[r]
           w == [stage |-> "saving", order |-> r, status |-> s, old |-> back[r].status]
<1>1. /\ b \in Returned!Back /\ Returned!At(p, "idle") /\ ("race" \in entries \/ Returned!AtRest)
           /\ desk' = [desk EXCEPT ![p] = w]
      /\ UNCHANGED <<back, cogs, invoiced, shelf, reserved, entries>>
      /\ b.kind # "none" /\ s \in Returned!Allowed[b.status]
           /\ (s = "CANCELLED" => "cancel" \in entries)
  BY DEF Returned!AskStatus, Returned!Goto, ReturnsInv, Returned!TypeOK
<1>2. w \in Returned!Work /\ w.stage = "saving" /\ w.order = r /\ w.status = s
  BY <1>1 DEF Returned!Work, Returned!Back
<1>3. s # "DRAFT" /\ (s = "SHIPPED" => b.status = "CONFIRMED")
  BY <1>1 DEF Returned!Back, Returned!Allowed, Returned!Status
<1>4. /\ b.status \in Confirmed => b.taken = 1 /\ ~invoiced
      /\ cogs \in 0..ReturnCost
  BY OrderKnown
<1>5. ASSUME ClaimsKnown, b.status = "CONFIRMED", s = "SHIPPED" PROVE b.claims = Returned!Owed(b)
  <2>1. b.claims = Returned!Owed(b) \/ Cancelling(r)
    BY <1>5 DEF ReturnsInv, ClaimsExact, Confirmed
  <2>2. ASSUME Cancelling(r) PROVE FALSE
    <3> PICK q \in Session : Returned!At(q, "writing") /\ desk[q].status = "CANCELLED"
      BY <2>2 DEF Cancelling
    <3>1. "cancel" \in entries /\ ~Returned!AtRest
      BY DEF ReturnsInv, RequestRight, Returned!AtRest, Returned!At
    <3> QED BY <1>1, <1>5, <3>1 DEF ClaimsKnown
  <2> QED BY <2>1, <2>2
<1> HIDE DEF w, b
<1>6. KnowsOrder(w, r, b, invoiced')
  BY <1>1, <1>2, <1>3, <1>4, <1>5 DEF KnowsOrder, Knows, Confirmed
<1>7. OrderGoes(desk[p], w, b, b, invoiced', cogs')
  <2>1. desk[p] \in Returned!Work /\ desk[p].stage = "idle" /\ invoiced \in BOOLEAN
    BY <1>1 DEF ReturnsInv, Returned!TypeOK, Returned!At
  <2>2. OrderGoes(desk[p], w, back[r], b, invoiced, cogs)
    BY <1>1, <1>2, <2>1, OrderStays DEF b, Cancels, Going
  <2> QED BY <1>1, <2>2 DEF b
<1>8. Returned!TypeOK
  BY DEF ReturnsInv
<1>9. back' = [back EXCEPT ![r] = b]
  BY <1>1, <1>8, SameBack DEF b
<1>10. /\ cogs' \in 0..ReturnCost /\ shelf' \in Nat /\ reserved' \in 0..ReturnOpening
            /\ invoiced' \in BOOLEAN
       /\ invoiced' => invoiced
  BY <1>1, <1>4, <1>8 DEF Returned!TypeOK
<1> QED BY <1>1, <1>2, <1>6, <1>7, <1>9, <1>10, RequestGoes DEF b

\* A step of a request that leaves the claims, the receipts and the status of its
\* order, and the cost of sales.
LEMMA RequestStays ==
    ASSUME ReturnsInv, NEW p \in Session, ~Returned!At(p, "idle"), NEW w \in Returned!Work,
           NEW d \in Returned!Back,
           desk' = [desk EXCEPT ![p] = w], back' = [back EXCEPT ![Returned!Of(p)] = d],
           UNCHANGED <<cogs, entries>>,
           shelf' \in Nat, reserved' \in 0..ReturnOpening, invoiced' \in BOOLEAN, invoiced'
             => invoiced,
           d.kind = Returned!Doc(p).kind, d.quantity = Returned!Doc(p).quantity,
             d.taken = Returned!Doc(p).taken,
           d.claims = Returned!Doc(p).claims, d.status = Returned!Doc(p).status,
           w.stage \in {"looking", "claiming"} => desk[p].stage \in {"looking", "claiming"},
           ClaimsKnown => ~Cancels(desk[p]),
           "crash" \notin entries /\ desk[p].stage \in Going => w.stage \in Going,
           KnowsOrder(w, Returned!Of(p), d, invoiced')
    PROVE  ReturnsInv'
<1>1. desk[p] \in Returned!Work /\ Returned!Of(p) \in Returned!ReturnId
        /\ Returned!Doc(p) = back[Returned!Of(p)]
  BY RequestKnows
<1>2. OrderGoes(desk[p], w, back[Returned!Of(p)], d, invoiced', cogs)
  BY <1>1, OrderStays
<1>3. cogs' \in 0..ReturnCost
  BY DEF ReturnsInv, CostRight
<1> QED BY <1>1, <1>2, <1>3, RequestGoes

LEMMA HandleGoes ==
    ASSUME ReturnsInv, NEW p \in Session, Returned!Handle(p)
    PROVE  ReturnsInv'
<1> DEFINE x == desk[p]  b == Returned!Doc(p)
           s == CASE x.status = b.status -> "writing"
                  [] x.status = "CONFIRMED" -> "taking"
                  [] x.status = "SHIPPED" -> "shipping"
                  [] x.status = "CANCELLED" -> "cancelling"
           w == [x EXCEPT !.old = b.status, !.stage = s]
<1>1. Returned!At(p, "saving") /\ desk' = [desk EXCEPT ![p] = w]
      /\ UNCHANGED <<back, cogs, invoiced, shelf, reserved, entries>>
  BY WhatFollows DEF Returned!Handle, Returned!Goto
<1>2. /\ x \in Returned!Work /\ Returned!Of(p) \in Returned!ReturnId /\ b \in Returned!Back
           /\ x.order = Returned!Of(p) /\ b = back[Returned!Of(p)]
      /\ KnowsOrder(x, Returned!Of(p), b, invoiced) /\ ~Returned!At(p, "idle")
           /\ x.stage = "saving"
  BY <1>1, RequestKnows DEF Returned!At
<1>3. x.status # "DRAFT" /\ (x.status = "CANCELLED" => "cancel" \in entries) /\ b.kind # "none"
  BY <1>2 DEF KnowsOrder
<1>4. x.status \in {"CONFIRMED", "SHIPPED", "CANCELLED"}
  BY <1>2, <1>3 DEF Returned!Work, Returned!Status
<1>5. /\ s \in {"writing", "taking", "shipping", "cancelling"}
      /\ s = "writing" => x.status = b.status
      /\ s = "taking" => x.status = "CONFIRMED"
      /\ s = "shipping" => x.status = "SHIPPED"
      /\ s = "cancelling" => x.status = "CANCELLED"
  <2>1. CASE x.status = b.status
    BY <2>1
  <2>2. CASE x.status # b.status
    BY <1>4, <2>2
  <2> QED BY <2>1, <2>2
<1> HIDE DEF s
<1>6. w \in Returned!Work /\ w.stage = s /\ w.order = x.order /\ w.status = x.status
  BY <1>2, <1>5 DEF Returned!Work, Returned!Back
<1>7. b.status \in Confirmed => b.taken = 1 /\ ~invoiced
  BY <1>2, OrderKnown
<1>8. ASSUME ClaimsKnown, b.status = "CONFIRMED" PROVE b.claims = Returned!Owed(b)
  <2>1. b.claims = Returned!Owed(b) \/ Cancelling(Returned!Of(p))
    BY <1>2, <1>8 DEF ReturnsInv, ClaimsExact, Confirmed
  <2>2. ASSUME Cancelling(Returned!Of(p)) PROVE FALSE
    <3> PICK q \in Session : Returned!At(q, "writing") /\ desk[q].status = "CANCELLED"
      BY <2>2 DEF Cancelling
    <3>1. "cancel" \in entries /\ q # p /\ ~Returned!At(q, "idle")
      BY <1>2 DEF ReturnsInv, RequestRight, Returned!At
    <3>2. "race" \in entries
      BY <1>2, <3>1 DEF ReturnsInv, RequestRight
    <3> QED BY <1>8, <3>1, <3>2 DEF ClaimsKnown
  <2> QED BY <2>1, <2>2
<1> HIDE DEF w, b, x
<1>9. KnowsOrder(w, Returned!Of(p), b, invoiced')
  <2>1. ASSUME w.status = "SHIPPED"
        PROVE  b.taken = 1 /\ ~invoiced /\ (ClaimsKnown => b.claims = Returned!Owed(b))
    <3>1. Knows(x) /\ x.stage # "invoicing"
      BY <1>2, <1>6, <2>1 DEF Knows
    <3> QED BY <1>2, <3>1 DEF KnowsOrder
  <2>2. ASSUME w.stage = "writing", w.status = "CONFIRMED"
        PROVE  b.taken = 1 /\ ~invoiced /\ (ClaimsKnown => b.claims = Returned!Owed(b))
    BY <1>5, <1>6, <1>7, <1>8, <2>2 DEF Confirmed
  <2>3. w.stage \notin {"looking", "claiming", "invoicing", "idle", "releasing"}
    BY <1>5, <1>6
  <2>4. Knows(w) => b.taken = 1 /\ ~invoiced /\ (ClaimsKnown => b.claims = Returned!Owed(b))
    BY <2>1, <2>2, <2>3 DEF Knows
  <2> QED BY <1>1, <1>2, <1>3, <1>5, <1>6, <2>3, <2>4 DEF KnowsOrder
<1>10. back' = [back EXCEPT ![Returned!Of(p)] = b] /\ shelf' \in Nat
         /\ reserved' \in 0..ReturnOpening
       /\ invoiced' \in BOOLEAN /\ (invoiced' => invoiced)
  BY <1>1, <1>2, SameBack DEF ReturnsInv, Returned!TypeOK
<1>11. w.stage \notin {"looking", "claiming"} /\ ~Cancels(x) /\ x.stage \notin Going
  BY <1>2, <1>5, <1>6 DEF Cancels, Going
<1> QED BY <1>1, <1>2, <1>6, <1>9, <1>10, <1>11, RequestStays DEF b, x

\* A request that ends.
LEMMA DoneGoes ==
    ASSUME ReturnsInv, NEW p \in Session, ~Returned!At(p, "idle"), Returned!Done(p),
           desk[p].stage \notin Going \/ "crash" \in entries,
           UNCHANGED <<back, cogs, invoiced, shelf, reserved, entries>>
    PROVE  ReturnsInv'
<1>1. desk' = [desk EXCEPT ![p] = Returned!Idle]
  BY DEF Returned!Done, Returned!Goto
<1>2. /\ Returned!Of(p) \in Returned!ReturnId /\ Returned!Doc(p) \in Returned!Back
           /\ Returned!Doc(p) = back[Returned!Of(p)]
      /\ KnowsOrder(desk[p], Returned!Of(p), Returned!Doc(p), invoiced)
  BY RequestKnows
<1>3. back' = [back EXCEPT ![Returned!Of(p)] = Returned!Doc(p)] /\ shelf' \in Nat
        /\ reserved' \in 0..ReturnOpening
      /\ invoiced' \in BOOLEAN /\ (invoiced' => invoiced)
  BY <1>2, SameBack DEF ReturnsInv, Returned!TypeOK
<1>4. ClaimsKnown => ~Cancels(desk[p])
  <2> SUFFICES ASSUME ClaimsKnown, Cancels(desk[p]) PROVE FALSE
    OBVIOUS
  <2>1. desk[p].stage = "writing" /\ desk[p].status = "CANCELLED"
    BY DEF Cancels
  <2>2. "cancel" \in entries
    BY <1>2, <2>1 DEF KnowsOrder
  <2>3. "crash" \in entries
    BY <2>1 DEF Going
  <2> QED BY <2>2, <2>3 DEF ClaimsKnown
<1>5. KnowsOrder(Returned!Idle, Returned!Of(p), Returned!Doc(p), invoiced')
  BY IdleKnows
<1> DEFINE b == Returned!Doc(p)  i == Returned!Idle
<1>6. i \in Returned!Work /\ i.stage = "idle"
  BY ReturnsIdle
<1> HIDE DEF b, i
<1>7. "crash" \notin entries /\ desk[p].stage \in Going => i.stage \in Going
  OBVIOUS
<1> QED BY <1>1, <1>2, <1>3, <1>4, <1>5, <1>6, <1>7, RequestStays DEF b, i

\* The goods of a confirmation: nothing was claimed for the order before.
LEMMA TakeGoes ==
    ASSUME ReturnsInv, NEW p \in Session, Returned!Take(p)
    PROVE  ReturnsInv'
<1> DEFINE x == desk[p]  b == Returned!Doc(p)
           n == IF b.kind = "RETURN" THEN b.quantity ELSE Sold
           out == IF b.kind = "RETURN" THEN 0 ELSE b.quantity
           d == [b EXCEPT !.taken = @ + 1, !.given = @ + out]
           w == [x EXCEPT !.stage = "looking"]
<1>1. /\ Returned!At(p, "taking") /\ UNCHANGED <<invoiced, reserved, entries>>
      /\ \/ Returned!Done(p) /\ UNCHANGED <<back, cogs, shelf>>
         \/ /\ b.taken = 0 /\ ~(shelf + n < out)
            /\ back' = [back EXCEPT ![Returned!Of(p)] = d]
            /\ cogs' = cogs - Returned!Reversed(n) /\ shelf' = shelf + n - out
            /\ desk' = [desk EXCEPT ![p] = w]
  BY WhatFollows DEF Returned!Take, Returned!Unbooked, Returned!Update, Returned!Step,
    Returned!Goto
<1>2. /\ x \in Returned!Work /\ Returned!Of(p) \in Returned!ReturnId /\ b \in Returned!Back
           /\ x.order = Returned!Of(p) /\ b = back[Returned!Of(p)]
      /\ KnowsOrder(x, Returned!Of(p), b, invoiced) /\ b.quantity > 0
      /\ ~Returned!At(p, "idle") /\ x.stage = "taking"
  BY <1>1, RequestKnows DEF Returned!At
<1>3. CASE Returned!Done(p) /\ UNCHANGED <<back, cogs, shelf>>
  BY <1>1, <1>2, <1>3, DoneGoes DEF Going
<1>4. ASSUME b.taken = 0, ~(shelf + n < out), back' = [back EXCEPT ![Returned!Of(p)] = d],
             cogs' = cogs - Returned!Reversed(n), shelf' = shelf + n - out,
             desk' = [desk EXCEPT ![p] = w]
      PROVE  ReturnsInv'
  <2>1. /\ n \in Nat \ {0} /\ out \in Nat /\ b.taken \in Nat /\ b.claims \in Nat
        /\ b.kind = "EXCHANGE" \/ b.quantity >= Sold => n >= Sold
    BY <1>2, ReturnsNumbers DEF Returned!Back
  <2>2. /\ d \in Returned!Back /\ d.taken = 1 /\ d.claims = b.claims /\ d.status = b.status
        /\ d.kind = b.kind /\ d.quantity = b.quantity
    <3> HIDE DEF b, out
    <3> DEFINE all == b.given + out  one == b.taken + 1
    <3>1. all \in Nat /\ one = 1
      BY <1>2, <1>4, <2>1 DEF Returned!Back
    <3> HIDE DEF all, one
    <3>2. d = [b EXCEPT !.taken = one, !.given = all]
      BY DEF all, one
    <3> HIDE DEF d
    <3> QED BY <1>2, <3>1, <3>2 DEF Returned!Back
  <2>3. w \in Returned!Work /\ w.stage = "looking" /\ w.order = x.order /\ w.status = x.status
    BY <1>2, StageGoes
  <2>4. b.claims = 0 /\ b.status \notin Confirmed /\ cogs \in 0..ReturnCost
    BY <1>2, <1>4, OrderKnown
  <2>5. /\ cogs' \in 0..cogs /\ (cogs = ReturnCost => cogs' < ReturnCost)
             /\ (n >= Sold => cogs' = 0)
    BY <1>4, <2>1, <2>4, ShareOfCost
  <2>6. /\ shelf' \in Nat /\ reserved' \in 0..ReturnOpening /\ invoiced' \in BOOLEAN
             /\ (invoiced' => invoiced)
    BY <1>1, <1>4, <2>1 DEF ReturnsInv, Returned!TypeOK
  <2> HIDE DEF d, w, n, out
  <2>7. cogs' \in 0..ReturnCost /\ cogs' <= cogs /\ cogs' < ReturnCost
    BY <2>4, <2>5, ReturnsNumbers
  <2>8. KnowsOrder(w, Returned!Of(p), d, invoiced')
    <3>1. x.status = "CONFIRMED" /\ b.kind # "none"
      BY <1>2 DEF KnowsOrder
    <3>2. ~Knows(w)
      BY <2>3, <3>1 DEF Knows
    <3> QED BY <1>2, <2>2, <2>3, <2>4, <3>1, <3>2 DEF KnowsOrder
  <2>9. d.kind = "EXCHANGE" \/ d.quantity >= Sold => cogs' = 0
    BY <2>1, <2>2, <2>5
  <2>10. OrderGoes(x, w, b, d, invoiced', cogs')
    <3> HIDE DEF x, b
    <3>1. w.stage \in Going
      BY <2>3 DEF Going
    <3> QED BY <1>4, <2>1, <2>2, <2>3, <2>4, <2>7, <2>9, <3>1 DEF OrderGoes
  <2>11. entries' = entries
    BY <1>1
  <2> QED BY <1>2, <1>4, <2>2, <2>3, <2>6, <2>7, <2>8, <2>10, <2>11, RequestGoes
<1> QED BY <1>1, <1>3, <1>4

\* Nothing is owed, or the claim follows.
LEMMA LookGoes ==
    ASSUME ReturnsInv, NEW p \in Session, Returned!Look(p)
    PROVE  ReturnsInv'
<1> DEFINE x == desk[p]  b == Returned!Doc(p)
           none == b.claims > 0 \/ "closed" \in entries
             \/ (b.kind = "EXCHANGE" /\ b.quantity = Sold)
           s == IF none THEN "invoicing" ELSE "claiming"
           w == [x EXCEPT !.stage = s]
<1>1. /\ Returned!At(p, "looking") /\ UNCHANGED <<back, cogs, invoiced, shelf, reserved, entries>>
      /\ desk' = [desk EXCEPT ![p] = w]
  BY WhatFollows DEF Returned!Look, Returned!Step, Returned!Goto
<1>2. /\ x \in Returned!Work /\ Returned!Of(p) \in Returned!ReturnId /\ b \in Returned!Back
           /\ x.order = Returned!Of(p) /\ b = back[Returned!Of(p)]
      /\ KnowsOrder(x, Returned!Of(p), b, invoiced) /\ ~Returned!At(p, "idle")
           /\ x.stage = "looking"
  BY <1>1, RequestKnows DEF Returned!At
<1>3. b.taken = 1 /\ b.claims = 0 /\ x.status = "CONFIRMED" /\ b.kind # "none"
  BY <1>2 DEF KnowsOrder
<1>4. ClaimsKnown => (s = "invoicing" => Returned!Owed(b) = 0)
        /\ (s = "claiming" => Returned!Owed(b) = 1)
  BY <1>3 DEF ClaimsKnown, Returned!Owed
<1>5. s \in {"invoicing", "claiming"}
  OBVIOUS
<1> HIDE DEF s
<1>6. w \in Returned!Work /\ w.stage = s /\ w.order = x.order /\ w.status = x.status
  <2> HIDE DEF x, b
  <2> QED BY <1>2, <1>5 DEF Returned!Work
<1> HIDE DEF w
<1>7. KnowsOrder(w, Returned!Of(p), b, invoiced')
  <2> HIDE DEF x, b
  <2>1. Knows(w) => s = "invoicing"
    BY <1>3, <1>5, <1>6 DEF Knows
  <2> QED BY <1>2, <1>3, <1>4, <1>5, <1>6, <2>1 DEF KnowsOrder
<1>8. back' = [back EXCEPT ![Returned!Of(p)] = b] /\ shelf' \in Nat
        /\ reserved' \in 0..ReturnOpening
      /\ invoiced' \in BOOLEAN /\ (invoiced' => invoiced)
  BY <1>1, <1>2, SameBack DEF ReturnsInv, Returned!TypeOK
<1>9. ~Cancels(x) /\ w.stage \in Going
  BY <1>2, <1>5, <1>6 DEF Cancels, Going
<1> QED BY <1>1, <1>2, <1>6, <1>7, <1>8, <1>9, RequestStays

LEMMA ClaimGoes ==
    ASSUME ReturnsInv, NEW p \in Session, Returned!Claim(p)
    PROVE  ReturnsInv'
<1> DEFINE x == desk[p]  b == Returned!Doc(p)
           d == [b EXCEPT !.claims = @ + 1]
           w == [x EXCEPT !.stage = "invoicing"]
<1>1. /\ Returned!At(p, "claiming") /\ UNCHANGED <<cogs, invoiced, shelf, reserved, entries>>
      /\ desk' = [desk EXCEPT ![p] = w] /\ back' = [back EXCEPT ![Returned!Of(p)] = d]
  BY WhatFollows DEF Returned!Claim, Returned!Step, Returned!Goto, Returned!Update
<1>2. /\ x \in Returned!Work /\ Returned!Of(p) \in Returned!ReturnId /\ b \in Returned!Back
           /\ x.order = Returned!Of(p) /\ b = back[Returned!Of(p)]
      /\ KnowsOrder(x, Returned!Of(p), b, invoiced) /\ ~Returned!At(p, "idle")
           /\ x.stage = "claiming"
  BY <1>1, RequestKnows DEF Returned!At
<1>3. b.taken = 1 /\ b.claims = 0 /\ x.status = "CONFIRMED" /\ b.kind # "none"
      /\ (ClaimsKnown => Returned!Owed(b) = 1)
  BY <1>2 DEF KnowsOrder
<1>4. /\ d \in Returned!Back /\ d.taken = 1 /\ d.claims = 1 /\ d.status = b.status
      /\ d.kind = b.kind /\ d.quantity = b.quantity
  BY <1>2, <1>3 DEF Returned!Back
<1>5. w \in Returned!Work /\ w.stage = "invoicing" /\ w.order = x.order /\ w.status = x.status
  BY <1>2, StageGoes
<1>6. cogs \in 0..ReturnCost /\ cogs < ReturnCost /\ (b.status \in Confirmed => ~invoiced)
  BY <1>2, <1>3, OrderKnown
<1>7. cogs <= cogs
  BY <1>6, ReturnsNumbers
<1>8. shelf' \in Nat /\ reserved' \in 0..ReturnOpening /\ invoiced' \in BOOLEAN
        /\ (invoiced' => invoiced)
  BY <1>1 DEF ReturnsInv, Returned!TypeOK
<1> HIDE DEF d, w
<1>9. Returned!Owed(d) = Returned!Owed(b)
  BY <1>4 DEF Returned!Owed
<1>10. KnowsOrder(w, Returned!Of(p), d, invoiced')
  <2> HIDE DEF x, b
  <2> QED BY <1>1, <1>2, <1>3, <1>4, <1>5, <1>9 DEF KnowsOrder, Knows
<1>11. OrderGoes(x, w, b, d, invoiced', cogs')
  <2> HIDE DEF x, b
  <2>1. w.stage \in Going /\ cogs' = cogs /\ invoiced' = invoiced
    BY <1>1, <1>5 DEF Going
  <2> QED BY <1>2, <1>3, <1>4, <1>5, <1>6, <1>7, <1>9, <2>1 DEF OrderGoes
<1>12. cogs' \in 0..ReturnCost /\ entries' = entries
  BY <1>1, <1>6
<1> QED BY <1>1, <1>2, <1>4, <1>5, <1>8, <1>10, <1>11, <1>12, RequestGoes

LEMMA RetireInvoiceGoes ==
    ASSUME ReturnsInv, NEW p \in Session, Returned!RetireInvoice(p)
    PROVE  ReturnsInv'
<1> DEFINE x == desk[p]  b == Returned!Doc(p)  w == [x EXCEPT !.stage = "writing"]
<1>1. /\ Returned!At(p, "invoicing") /\ UNCHANGED <<back, cogs, shelf, reserved, entries>>
      /\ desk' = [desk EXCEPT ![p] = w] /\ invoiced' = FALSE
  BY WhatFollows DEF Returned!RetireInvoice, Returned!Step, Returned!Goto
<1>2. /\ x \in Returned!Work /\ Returned!Of(p) \in Returned!ReturnId /\ b \in Returned!Back
           /\ x.order = Returned!Of(p) /\ b = back[Returned!Of(p)]
      /\ KnowsOrder(x, Returned!Of(p), b, invoiced) /\ ~Returned!At(p, "idle")
           /\ x.stage = "invoicing"
  BY <1>1, RequestKnows DEF Returned!At
<1>3. b.taken = 1 /\ x.status = "CONFIRMED" /\ b.kind # "none"
      /\ (ClaimsKnown => b.claims = Returned!Owed(b))
  BY <1>2 DEF KnowsOrder, Knows
<1>4. w \in Returned!Work /\ w.stage = "writing" /\ w.order = x.order /\ w.status = x.status
  BY <1>2, StageGoes
<1>5. back' = [back EXCEPT ![Returned!Of(p)] = b] /\ shelf' \in Nat
        /\ reserved' \in 0..ReturnOpening
      /\ invoiced' \in BOOLEAN /\ (invoiced' => invoiced)
  BY <1>1, <1>2, SameBack DEF ReturnsInv, Returned!TypeOK
<1> HIDE DEF w
<1>6. KnowsOrder(w, Returned!Of(p), b, invoiced')
  <2> HIDE DEF x, b
  <2> QED BY <1>1, <1>2, <1>3, <1>4 DEF KnowsOrder, Knows
<1>7. ~Cancels(x) /\ w.stage \in Going
  BY <1>2, <1>4 DEF Cancels, Going
<1> QED BY <1>1, <1>2, <1>4, <1>5, <1>6, <1>7, RequestStays

LEMMA ShipGoes ==
    ASSUME ReturnsInv, NEW p \in Session, Returned!Ship(p)
    PROVE  ReturnsInv'
<1> DEFINE x == desk[p]  b == Returned!Doc(p)
           d == [b EXCEPT !.shipped = b.quantity]
           w == [x EXCEPT !.stage = "releasing"]
<1>1. /\ Returned!At(p, "shipping") /\ UNCHANGED <<cogs, invoiced, reserved, entries>>
      /\ \/ desk' = [desk EXCEPT ![p] = w] /\ UNCHANGED <<back, shelf>>
         \/ Returned!Done(p) /\ UNCHANGED <<back, shelf>>
         \/ /\ ~(b.shipped > 0) /\ ~(shelf < b.quantity - b.shipped)
            /\ back' = [back EXCEPT ![Returned!Of(p)] = d]
                 /\ shelf' = shelf - (b.quantity - b.shipped)
            /\ desk' = [desk EXCEPT ![p] = w]
  BY DEF Returned!Ship, Returned!Step, Returned!Goto, Returned!Update
<1>2. /\ x \in Returned!Work /\ Returned!Of(p) \in Returned!ReturnId /\ b \in Returned!Back
           /\ x.order = Returned!Of(p) /\ b = back[Returned!Of(p)]
      /\ KnowsOrder(x, Returned!Of(p), b, invoiced) /\ ~Returned!At(p, "idle")
           /\ x.stage = "shipping"
  BY <1>1, RequestKnows DEF Returned!At
<1>3. CASE Returned!Done(p) /\ UNCHANGED <<back, shelf>>
  BY <1>1, <1>2, <1>3, DoneGoes DEF Going
<1>4. x.status = "SHIPPED" /\ b.kind # "none" /\ b.taken = 1 /\ ~invoiced
      /\ (ClaimsKnown => b.claims = Returned!Owed(b))
  BY <1>2 DEF KnowsOrder, Knows
<1>5. w \in Returned!Work /\ w.stage = "releasing" /\ w.order = x.order /\ w.status = x.status
  BY <1>2, StageGoes
<1>6. b.quantity \in Nat /\ b.shipped \in Nat /\ shelf \in Nat
  BY <1>2 DEF Returned!Back, ReturnsInv, Returned!TypeOK
<1>7. /\ d \in Returned!Back /\ d.taken = b.taken /\ d.claims = b.claims /\ d.status = b.status
      /\ d.kind = b.kind /\ d.quantity = b.quantity
  BY <1>2, <1>6 DEF Returned!Back
<1> HIDE DEF d, w
<1>8. ASSUME NEW e \in Returned!Back, e.taken = b.taken, e.claims = b.claims, e.status = b.status,
             e.kind = b.kind, e.quantity = b.quantity,
               back' = [back EXCEPT ![Returned!Of(p)] = e],
             shelf' \in Nat, desk' = [desk EXCEPT ![p] = w]
      PROVE  ReturnsInv'
  <2>1. reserved' \in 0..ReturnOpening /\ invoiced' \in BOOLEAN /\ (invoiced' => invoiced)
    BY <1>1 DEF ReturnsInv, Returned!TypeOK
  <2>2. KnowsOrder(w, Returned!Of(p), e, invoiced')
    <3>1. Returned!Owed(e) = Returned!Owed(b)
      BY <1>8 DEF Returned!Owed
    <3> HIDE DEF x, b
    <3> QED BY <1>1, <1>2, <1>4, <1>5, <1>8, <3>1 DEF KnowsOrder, Knows
  <2>3. ~Cancels(x) /\ x.stage \notin Going /\ w.stage \notin {"looking", "claiming"}
    BY <1>2, <1>5 DEF Cancels, Going
  <2> QED BY <1>1, <1>2, <1>5, <1>8, <2>1, <2>2, <2>3, RequestStays
<1>9. CASE desk' = [desk EXCEPT ![p] = w] /\ UNCHANGED <<back, shelf>>
  <2>1. back' = [back EXCEPT ![Returned!Of(p)] = b]
    BY <1>2, <1>9, SameBack DEF ReturnsInv
  <2> QED BY <1>2, <1>6, <1>8, <1>9, <2>1
<1>10. ASSUME ~(b.shipped > 0), ~(shelf < b.quantity - b.shipped),
             back' = [back EXCEPT ![Returned!Of(p)] = d],
               shelf' = shelf - (b.quantity - b.shipped),
             desk' = [desk EXCEPT ![p] = w]
      PROVE ReturnsInv'
  <2>1. shelf' \in Nat
    BY <1>6, <1>10
  <2> QED BY <1>7, <1>8, <1>10, <2>1
<1> QED BY <1>1, <1>3, <1>9, <1>10

\* No more is released than is reserved.
LEMMA Released ==
    ASSUME NEW m \in 0..ReturnOpening, NEW k \in Nat
    PROVE  m - Returned!Lesser(k, m) \in 0..ReturnOpening
BY ReturnsNumbers DEF Returned!Lesser

LEMMA ReleaseGoes ==
    ASSUME ReturnsInv, NEW p \in Session, Returned!Release(p)
    PROVE  ReturnsInv'
<1> DEFINE x == desk[p]  b == Returned!Doc(p)  w == [x EXCEPT !.stage = "writing"]
<1>1. /\ Returned!At(p, "releasing") /\ UNCHANGED <<back, cogs, invoiced, shelf, entries>>
      /\ desk' = [desk EXCEPT ![p] = w]
      /\ reserved' = IF x.old = "CONFIRMED" THEN reserved - Returned!Lesser(b.quantity, reserved) ELSE reserved
  BY DEF Returned!Release, Returned!Step, Returned!Goto
<1>2. /\ x \in Returned!Work /\ Returned!Of(p) \in Returned!ReturnId /\ b \in Returned!Back
           /\ x.order = Returned!Of(p) /\ b = back[Returned!Of(p)]
      /\ KnowsOrder(x, Returned!Of(p), b, invoiced) /\ ~Returned!At(p, "idle")
           /\ x.stage = "releasing"
  BY <1>1, RequestKnows DEF Returned!At
<1>3. x.status = "SHIPPED" /\ b.kind # "none" /\ b.taken = 1 /\ ~invoiced
      /\ (ClaimsKnown => b.claims = Returned!Owed(b))
  BY <1>2 DEF KnowsOrder, Knows
<1>4. w \in Returned!Work /\ w.stage = "writing" /\ w.order = x.order /\ w.status = x.status
  BY <1>2, StageGoes
<1>5. reserved' \in 0..ReturnOpening
  <2>1. b.quantity \in Nat /\ reserved \in 0..ReturnOpening
    BY <1>2 DEF Returned!Back, ReturnsInv, Returned!TypeOK
  <2> QED BY <1>1, <2>1, Released
<1>6. back' = [back EXCEPT ![Returned!Of(p)] = b] /\ shelf' \in Nat /\ invoiced' \in BOOLEAN
      /\ (invoiced' => invoiced)
  BY <1>1, <1>2, SameBack DEF ReturnsInv, Returned!TypeOK
<1> HIDE DEF w
<1>7. KnowsOrder(w, Returned!Of(p), b, invoiced')
  <2> HIDE DEF x, b
  <2> QED BY <1>1, <1>2, <1>3, <1>4 DEF KnowsOrder, Knows
<1>8. ~Cancels(x) /\ w.stage \in Going
  BY <1>2, <1>4 DEF Cancels, Going
<1> QED BY <1>1, <1>2, <1>4, <1>5, <1>6, <1>7, <1>8, RequestStays

\* A cancellation retires the claim, and then writes the status.
LEMMA CancelGoes ==
    ASSUME ReturnsInv, NEW p \in Session, Returned!Cancel(p)
    PROVE  ReturnsInv'
<1> DEFINE x == desk[p]  b == Returned!Doc(p)
           d == [b EXCEPT !.claims = 0]
           w == [x EXCEPT !.stage = "writing"]
           left == IF b.quantity > b.shipped THEN b.quantity - b.shipped ELSE 0
<1>1. /\ Returned!At(p, "cancelling") /\ UNCHANGED <<cogs, invoiced, shelf, entries>>
      /\ desk' = [desk EXCEPT ![p] = w] /\ back' = [back EXCEPT ![Returned!Of(p)] = d]
      /\ reserved' = IF x.old = "CONFIRMED" THEN reserved - Returned!Lesser(left, reserved) ELSE reserved
  BY DEF Returned!Cancel, Returned!Step, Returned!Goto, Returned!Update
<1>2. /\ x \in Returned!Work /\ Returned!Of(p) \in Returned!ReturnId /\ b \in Returned!Back
           /\ x.order = Returned!Of(p) /\ b = back[Returned!Of(p)]
      /\ KnowsOrder(x, Returned!Of(p), b, invoiced) /\ ~Returned!At(p, "idle")
           /\ x.stage = "cancelling"
  BY <1>1, RequestKnows DEF Returned!At
<1>3. x.status = "CANCELLED" /\ b.kind # "none" /\ "cancel" \in entries
  BY <1>2 DEF KnowsOrder
<1>4. /\ d \in Returned!Back /\ d.taken = b.taken /\ d.claims = 0 /\ d.status = b.status
      /\ d.kind = b.kind /\ d.quantity = b.quantity
  BY <1>2 DEF Returned!Back
<1>5. w \in Returned!Work /\ w.stage = "writing" /\ w.order = x.order /\ w.status = x.status
  BY <1>2, StageGoes
<1>6. reserved' \in 0..ReturnOpening
  <2>1. left \in Nat /\ reserved \in 0..ReturnOpening
    BY <1>2 DEF Returned!Back, ReturnsInv, Returned!TypeOK
  <2> HIDE DEF left
  <2> QED BY <1>1, <2>1, Released
<1>7. shelf' \in Nat /\ invoiced' \in BOOLEAN /\ (invoiced' => invoiced)
  BY <1>1 DEF ReturnsInv, Returned!TypeOK
<1>8. /\ b.taken \in {0, 1} /\ b.claims \in {0, 1} /\ (b.taken > 0 => cogs < ReturnCost)
      /\ b.status \in Confirmed => b.taken = 1 /\ ~invoiced
      /\ cogs \in 0..ReturnCost
  BY <1>2, OrderKnown
<1>9. cogs <= cogs
  BY <1>8, ReturnsNumbers
<1> HIDE DEF d, w, left
<1>10. KnowsOrder(w, Returned!Of(p), d, invoiced')
  <2> HIDE DEF x, b
  <2> QED BY <1>1, <1>2, <1>3, <1>4, <1>5 DEF KnowsOrder, Knows
<1>11. OrderGoes(x, w, b, d, invoiced', cogs')
  <2> HIDE DEF x, b
  <2>1. w.stage \in Going /\ Cancels(w) /\ cogs' = cogs /\ invoiced' = invoiced
    BY <1>1, <1>3, <1>5 DEF Going, Cancels
  <2>2. ClaimsKnown => "race" \notin entries
    BY <1>3 DEF ClaimsKnown
  <2> QED BY <1>4, <1>5, <1>8, <1>9, <2>1, <2>2 DEF OrderGoes
<1>12. cogs' \in 0..ReturnCost /\ entries' = entries
  BY <1>1, <1>8
<1> QED BY <1>1, <1>2, <1>4, <1>5, <1>6, <1>7, <1>10, <1>11, <1>12, RequestGoes

LEMMA WriteGoes ==
    ASSUME ReturnsInv, NEW p \in Session, Returned!Write(p)
    PROVE  ReturnsInv'
<1> DEFINE x == desk[p]  b == Returned!Doc(p)  d == [b EXCEPT !.status = x.status]  i == Returned!Idle
<1>1. /\ Returned!At(p, "writing") /\ UNCHANGED <<cogs, invoiced, shelf, reserved, entries>>
      /\ desk' = [desk EXCEPT ![p] = i] /\ back' = [back EXCEPT ![Returned!Of(p)] = d]
  BY DEF Returned!Write, Returned!Done, Returned!Goto, Returned!Update
<1>2. /\ x \in Returned!Work /\ Returned!Of(p) \in Returned!ReturnId /\ b \in Returned!Back
           /\ x.order = Returned!Of(p) /\ b = back[Returned!Of(p)]
      /\ KnowsOrder(x, Returned!Of(p), b, invoiced) /\ ~Returned!At(p, "idle")
           /\ x.stage = "writing"
  BY <1>1, RequestKnows DEF Returned!At
<1>3. x.status # "DRAFT" /\ x.status \in Returned!Status
  BY <1>2 DEF KnowsOrder, Returned!Work
<1>4. /\ d \in Returned!Back /\ d.taken = b.taken /\ d.claims = b.claims /\ d.status = x.status
      /\ d.kind = b.kind /\ d.quantity = b.quantity
  BY <1>2, <1>3 DEF Returned!Back
<1>5. i \in Returned!Work /\ i.stage = "idle" /\ KnowsOrder(i, Returned!Of(p), d, invoiced')
  BY ReturnsIdle, IdleKnows
<1>6. shelf' \in Nat /\ reserved' \in 0..ReturnOpening /\ invoiced' \in BOOLEAN
        /\ (invoiced' => invoiced)
  BY <1>1 DEF ReturnsInv, Returned!TypeOK
<1>7. /\ b.taken \in {0, 1} /\ b.claims \in {0, 1} /\ (b.taken > 0 => cogs < ReturnCost)
      /\ b.claims > 0 => b.taken > 0
      /\ cogs \in 0..ReturnCost
  BY <1>2, OrderKnown
<1>8. cogs <= cogs
  BY <1>7, ReturnsNumbers
<1>9. x.status \in Confirmed => b.taken = 1 /\ ~invoiced
        /\ (ClaimsKnown => b.claims = Returned!Owed(b))
  BY <1>2 DEF KnowsOrder, Knows, Confirmed
<1> HIDE DEF d, i
<1>10. Returned!Owed(d) = Returned!Owed(b)
  BY <1>4 DEF Returned!Owed
<1>11. OrderGoes(x, i, b, d, invoiced', cogs')
  <2> HIDE DEF x, b
  <2>1. cogs' = cogs /\ invoiced' = invoiced
    BY <1>1
  <2> QED BY <1>3, <1>4, <1>5, <1>7, <1>8, <1>9, <1>10, <2>1 DEF OrderGoes
<1>12. cogs' \in 0..ReturnCost /\ entries' = entries
  BY <1>1, <1>7
<1> QED BY <1>1, <1>2, <1>4, <1>5, <1>6, <1>11, <1>12, RequestGoes

LEMMA CrashGoes ==
    ASSUME ReturnsInv, NEW p \in Session, Returned!Crash(p)
    PROVE  ReturnsInv'
BY DoneGoes DEF Returned!Crash

LEMMA ReturnsStarts == Returned!Init => ReturnsInv
<1> SUFFICES ASSUME Returned!Init PROVE ReturnsInv
  OBVIOUS
<1>1. Returned!NoBack \in Returned!Back /\ Returned!NoBack.taken = 0 /\ Returned!NoBack.claims = 0
        /\ Returned!NoBack.status = "DRAFT"
      /\ Returned!NoBack.kind = "none"
  BY DEF Returned!NoBack, Returned!Back, Returned!Status
<1>2. Returned!Idle \in Returned!Work /\ Returned!Idle.stage = "idle"
  BY ReturnsIdle
<1>3. /\ \A r \in Returned!ReturnId : back[r] = Returned!NoBack
      /\ \A p \in Session : desk[p].stage = "idle"
      /\ cogs = ReturnCost /\ ReturnCost \in Nat /\ ReturnOpening \in Nat
  BY <1>2, ReturnsNumbers DEF Returned!Init
<1>4. Returned!TypeOK
  BY <1>1, <1>2, <1>3 DEF Returned!Init, Returned!TypeOK
<1>5. RequestRight /\ ClaimsRight /\ ConfirmsRight
  BY <1>1, <1>3 DEF RequestRight, ClaimsRight, ConfirmsRight, Returned!BookedOnce, Claimer,
     Confirmed, Returned!At
<1>6. CostRight /\ TakenKnown
  BY <1>1, <1>3 DEF CostRight, TakenKnown
<1>7. ClaimsExact
  BY <1>1, <1>3 DEF ClaimsExact, Confirmed, Returned!At
<1> QED BY <1>4, <1>5, <1>6, <1>7 DEF ReturnsInv

LEMMA ReturnsStep == ReturnsInv /\ [Returned!Next]_(Returned!vars) => ReturnsInv'
<1> SUFFICES ASSUME ReturnsInv, [Returned!Next]_(Returned!vars) PROVE ReturnsInv'
  OBVIOUS
<1>1. CASE UNCHANGED Returned!vars
  BY <1>1 DEF Returned!vars, ReturnsInv, Returned!TypeOK, RequestRight, ClaimsRight,
     Returned!BookedOnce, ConfirmsRight, GoodsBooked,
     CostRight, ClaimsKnown, ClaimsExact, Cancelling, TakenKnown, Claimer, Returned!At,
        Returned!Doc, Returned!Of
<1>2. ASSUME NEW r \in Returned!ReturnId, NEW k \in {"RETURN", "EXCHANGE"}, Returned!Create(r, k)
      PROVE  ReturnsInv'
  BY <1>2, CreateGoes
<1>3. ASSUME NEW r \in Returned!ReturnId, NEW n \in ReturnForms, Returned!Edit(r, n)
      PROVE  ReturnsInv'
  BY <1>3, EditGoes
<1>4. ASSUME NEW p \in Session, NEW r \in Returned!ReturnId, NEW s \in Returned!Status,
             Returned!AskStatus(p, r, s)
      PROVE  ReturnsInv'
  BY <1>4, AskStatusGoes
<1>5. ASSUME NEW p \in Session,
             \/ Returned!Handle(p) \/ Returned!Take(p) \/ Returned!Look(p) \/ Returned!Claim(p)
                  \/ Returned!RetireInvoice(p)
             \/ Returned!Ship(p) \/ Returned!Release(p) \/ Returned!Cancel(p) \/ Returned!Write(p)
                  \/ Returned!Crash(p)
      PROVE  ReturnsInv'
  BY <1>5, HandleGoes, TakeGoes, LookGoes, ClaimGoes, RetireInvoiceGoes, ShipGoes, ReleaseGoes,
     CancelGoes, WriteGoes, CrashGoes
<1> QED BY <1>1, <1>2, <1>3, <1>4, <1>5 DEF Returned!Next

LEMMA ReturnsKeep == ReturnsInv => Returned!BookedOnce /\ Returned!ConfirmedBooked
    /\ Returned!CostFollowsGoods
<1> SUFFICES ASSUME ReturnsInv PROVE Returned!BookedOnce /\ Returned!ConfirmedBooked
                    /\ Returned!CostFollowsGoods
  OBVIOUS
<1>1. Returned!BookedOnce
  BY DEF ReturnsInv, ClaimsRight
<1>2. Returned!ConfirmedBooked
  <2> SUFFICES ASSUME NEW r \in Returned!ReturnId, back[r].status \in Confirmed
               PROVE  /\ back[r].taken = 1 /\ ~invoiced
                      /\ entries \cap {"closed", "late"} = {}
                         /\ ("cancel" \in entries => Returned!AtRest /\ entries \cap {"race", "crash"} = {}) =>
                          back[r].claims = Returned!Owed(back[r])
    BY DEF Returned!ConfirmedBooked, Confirmed
  <2>1. back[r].taken = 1 /\ ~invoiced
    BY OrderKnown
  <2>2. ASSUME entries \cap {"closed", "late"} = {},
               "cancel" \in entries => Returned!AtRest /\ entries \cap {"race", "crash"} = {}
        PROVE  back[r].claims = Returned!Owed(back[r])
    <3>1. back[r].claims = Returned!Owed(back[r]) \/ Cancelling(r)
      BY <2>2 DEF ReturnsInv, ClaimsKnown, ClaimsExact
    <3>2. ASSUME Cancelling(r) PROVE FALSE
      <4> PICK q \in Session : Returned!At(q, "writing") /\ desk[q].status = "CANCELLED"
        BY <3>2 DEF Cancelling
      <4>1. "cancel" \in entries /\ ~Returned!AtRest
        BY DEF ReturnsInv, RequestRight, Returned!AtRest, Returned!At
      <4> QED BY <2>2, <4>1
    <3> QED BY <3>1, <3>2
  <2> QED BY <2>1, <2>2
<1>3. Returned!CostFollowsGoods
  <2>1. cogs >= 0
    BY ReturnsNumbers DEF ReturnsInv, CostRight
  <2> QED BY <2>1 DEF ReturnsInv, CostRight, Returned!CostFollowsGoods
<1> QED BY <1>1, <1>2, <1>3

-----------------------------------------------------------------------------
(* Fixed assets. *)

\* What the constants of this part are.
LEMMA FixedAssetsNumbers ==
    /\ Assets \in Nat \ {0} /\ Months \in Nat \ {0}
    /\ AssetCost \in Nat /\ Residual \in 0..AssetCost /\ Monthly \in Nat
    /\ AssetVouchers \in Nat
BY BackOfficeAssumption

-----------------------------------------------------------------------------
(* The invariant. *)

\* Only forms, one at a time.
OnlyForms == entries \cap {"run", "race"} = {}
OneForm ==
    /\ \A p, q \in Session : ~FixedAssets!At(p, "idle") /\ ~FixedAssets!At(q, "idle") => p = q
    /\ \A p \in Session : ~FixedAssets!At(p, "running")
\* A form knows what the asset has lost.
KnowsLoss ==
    \A p \in Session : ~FixedAssets!At(p, "idle") =>
        desk[p].accumulated = asset[desk[p].asset].accumulated
RecordsAgree ==
    \A a \in FixedAssets!AssetId : asset[a].accumulated = FixedAssets!Taken(a)
      /\ asset[a].book >= Residual

\* The voucher of a disposal is there before it is written.
VoucherBefore ==
    \A p \in Session :
        FixedAssets!At(p, "writing") /\ FixedAssets!Retired(desk[p].status)
          => asset[desk[p].asset].vouchers > 0

AssetsInv ==
    /\ FixedAssets!TypeOK /\ FixedAssets!BooksAgree /\ FixedAssets!DisposedPosted /\ VoucherBefore
    /\ OnlyForms => OneForm /\ KnowsLoss /\ RecordsAgree

-----------------------------------------------------------------------------
(* What a month takes. *)

LEMMA MaxOfTwo ==
    ASSUME NEW i \in Int, NEW j \in Int
    PROVE  FixedAssets!Max({i, j}) = IF i >= j THEN i ELSE j
<1>1. \E x \in {i, j} : \A y \in {i, j} : x >= y
  OBVIOUS
<1>2. FixedAssets!Max({i, j}) \in {i, j} /\ \A y \in {i, j} : FixedAssets!Max({i, j}) >= y
  BY <1>1 DEF FixedAssets!Max
<1> QED BY <1>2

LEMMA MinOfTwo ==
    ASSUME NEW i \in Int, NEW j \in Int
    PROVE  FixedAssets!Min({i, j}) = IF i <= j THEN i ELSE j
<1>1. \E x \in {i, j} : \A y \in {i, j} : x <= y
  OBVIOUS
<1>2. FixedAssets!Min({i, j}) \in {i, j} /\ \A y \in {i, j} : FixedAssets!Min({i, j}) <= y
  BY <1>1 DEF FixedAssets!Min
<1> QED BY <1>2

LEMMA AmountTaken ==
    ASSUME NEW b \in Int
    PROVE  FixedAssets!Amount(b) \in Nat
<1>1. FixedAssets!Min({Monthly, b - Residual}) \in Int
  BY FixedAssetsNumbers, MinOfTwo
<1> QED BY <1>1, MaxOfTwo DEF FixedAssets!Amount

\* The months leave less and less, never less than the residual value.
LEMMA BookFalls ==
    ASSUME NEW b \in Int, NEW from \in Nat \ {0}
    PROVE  /\ FixedAssets!BookAfter(b, from, from - 1) = b
           /\ \A m \in Int : m >= from - 1 =>
                /\ FixedAssets!BookAfter(b, from, m) \in Int
                /\ FixedAssets!BookAfter(b, from, m + 1) <= FixedAssets!BookAfter(b, from, m)
                /\ b >= Residual => FixedAssets!BookAfter(b, from, m) >= Residual
<1> DEFINE low == FixedAssets!Min({b, Residual})
<1>1. low \in Int /\ low <= b /\ (b >= Residual => low = Residual)
  BY FixedAssetsNumbers, MinOfTwo
<1> HIDE DEF low
<1>2. \A m \in Int : m >= from - 1 =>
         /\ m - from + 1 \in Nat /\ Monthly * (m - from + 1) \in Nat
         /\ Monthly * ((m + 1) - from + 1) = Monthly * (m - from + 1) + Monthly
  <2> TAKE m \in Int
  <2> HAVE m >= from - 1
  <2>1. \A k \in Nat : Monthly * k \in Nat /\ Monthly * (k + 1) = Monthly * k + Monthly
    BY FixedAssetsNumbers
  <2> DEFINE k == m - from + 1
  <2>2. k \in Nat /\ (m + 1) - from + 1 = k + 1
    OBVIOUS
  <2> HIDE DEF k
  <2>3. Monthly * k \in Nat /\ Monthly * ((m + 1) - from + 1) = Monthly * k + Monthly
    BY <2>1, <2>2
  <2> QED BY <2>2, <2>3 DEF k
<1>3. \A m \in Int : m >= from - 1 =>
         FixedAssets!BookAfter(b, from, m) = IF low >= b - Monthly * (m - from + 1) THEN low
                                             ELSE b - Monthly * (m - from + 1)
  <2> TAKE m \in Int
  <2> HAVE m >= from - 1
  <2> DEFINE rest1 == b - Monthly * (m - from + 1)
  <2>1. rest1 \in Int
    BY <1>2
  <2>2. FixedAssets!BookAfter(b, from, m) = FixedAssets!Max({low, rest1})
    BY DEF FixedAssets!BookAfter, low
  <2> HIDE DEF rest1
  <2>3. FixedAssets!BookAfter(b, from, m) = IF low >= rest1 THEN low ELSE rest1
    BY <1>1, <2>1, <2>2, MaxOfTwo
  <2> QED BY <2>3 DEF rest1
<1>4. FixedAssets!BookAfter(b, from, from - 1) = b
  <2>1. from - 1 \in Int /\ (from - 1) - from + 1 = 0 /\ Monthly * 0 = 0
    BY FixedAssetsNumbers
  <2>2. FixedAssets!BookAfter(b, from, from - 1) = IF low >= b - Monthly * ((from - 1) - from + 1) THEN low
                                                   ELSE b - Monthly * ((from - 1) - from + 1)
    BY <1>3, <2>1
  <2> QED BY <1>1, <2>1, <2>2
<1>5. ASSUME NEW m \in Int, m >= from - 1
      PROVE  /\ FixedAssets!BookAfter(b, from, m) \in Int
             /\ FixedAssets!BookAfter(b, from, m + 1) <= FixedAssets!BookAfter(b, from, m)
             /\ b >= Residual => FixedAssets!BookAfter(b, from, m) >= Residual
  <2> DEFINE t == Monthly * (m - from + 1)  u == Monthly * ((m + 1) - from + 1)
  <2>1. t \in Nat /\ u = t + Monthly
    BY <1>2, <1>5
  <2>2. FixedAssets!BookAfter(b, from, m) = IF low >= b - t THEN low ELSE b - t
    BY <1>3, <1>5
  <2>3. FixedAssets!BookAfter(b, from, m + 1) = IF low >= b - u THEN low ELSE b - u
    BY <1>3, <1>5
  <2> HIDE DEF t, u
  <2> QED BY <1>1, <2>1, <2>2, <2>3, FixedAssetsNumbers
<1> QED BY <1>4, <1>5

\* The books of an asset are moved.
MovedTo(y, r, k, b) == [y EXCEPT !.record = r, !.accumulated = k, !.book = b]
LEMMA AssetMoved ==
    ASSUME NEW y \in FixedAssets!Asset, NEW r \in [FixedAssets!Month -> Nat], NEW k \in Int,
           NEW b \in Int,
           NEW x, x = MovedTo(y, r, k, b)
    PROVE  /\ x \in FixedAssets!Asset /\ x.status = y.status /\ x.vouchers = y.vouchers
           /\ x.record = r /\ x.accumulated = k /\ x.book = b
<1>1. /\ y = [status |-> y.status, accumulated |-> y.accumulated, book |-> y.book,
              record |-> y.record, vouchers |-> y.vouchers]
      /\ y.status \in FixedAssets!Status /\ y.vouchers \in Nat
  BY DEF FixedAssets!Asset
<1>2. x = [status |-> y.status, accumulated |-> k, book |-> b, record |-> r,
           vouchers |-> y.vouchers]
  BY <1>1 DEF MovedTo
<1> QED BY <1>1, <1>2 DEF FixedAssets!Asset

CaughtUpRecords(r, b, from, upto, new) ==
    /\ new = [m \in FixedAssets!Month |-> new[m]]
    /\ \A m \in FixedAssets!Month :
         new[m] = IF m \in from..upto
                  THEN FixedAssets!BookAfter(b, from, m - 1) - FixedAssets!BookAfter(b, from, m) ELSE r[m]
Gone(b, from, upto) == IF from <= upto THEN b - FixedAssets!BookAfter(b, from, upto) ELSE 0

\* The records a catching up makes: they are worth what the book value lost.
LEMMA RecordsOfCatchUp ==
    ASSUME NEW r \in [FixedAssets!Month -> Nat], NEW b \in Int, NEW from \in 1..(Months + 1),
           NEW upto \in FixedAssets!Month, \A m \in from..Months : r[m] = 0,
           NEW new, CaughtUpRecords(r, b, from, upto, new)
    PROVE  /\ new \in [FixedAssets!Month -> Nat]
           /\ SumTo(new, Months) = SumTo(r, Months) + Gone(b, from, upto)
<1> USE FixedAssetsNumbers DEF CaughtUpRecords, Gone
<1>1. from \in Nat \ {0} /\ upto \in 1..Months
  BY DEF FixedAssets!Month
<1>2. \A m \in Int : m >= from - 1 =>
         FixedAssets!BookAfter(b, from, m) \in Int
           /\ FixedAssets!BookAfter(b, from, m + 1) <= FixedAssets!BookAfter(b, from, m)
  BY <1>1, BookFalls
<1>3. ASSUME NEW m \in FixedAssets!Month PROVE new[m] \in Nat
  <2>1. CASE m \in from..upto
    <3>1. /\ m - 1 \in Int /\ m - 1 >= from - 1 /\ (m - 1) + 1 = m
      BY <1>1, <2>1
    <3>2. FixedAssets!BookAfter(b, from, m - 1) \in Int
            /\ FixedAssets!BookAfter(b, from, m) <= FixedAssets!BookAfter(b, from, m - 1)
      BY <1>2, <3>1
    <3>3. FixedAssets!BookAfter(b, from, m) \in Int
      BY <1>1, <1>2, <2>1
    <3>4. new[m] = FixedAssets!BookAfter(b, from, m - 1) - FixedAssets!BookAfter(b, from, m)
      BY <2>1
    <3> QED BY <3>2, <3>3, <3>4
  <2>2. CASE m \notin from..upto
    BY <2>2
  <2> QED BY <2>1, <2>2
<1>4. new \in [FixedAssets!Month -> Nat]
  BY <1>3
<1>5. r \in [1..Months -> Int] /\ new \in [1..Months -> Int]
  BY <1>4 DEF FixedAssets!Month
<1> DEFINE Lost(n) == IF n < from \/ upto < from THEN 0
                      ELSE b - FixedAssets!BookAfter(b, from, IF n <= upto THEN n ELSE upto)
           S == {n \in Nat : n \in 0..Months => SumTo(new, n) = SumTo(r, n) + Lost(n)}
<1>6. /\ SumTo(r, 0) = 0 /\ SumTo(new, 0) = 0
      /\ \A n \in 0..(Months-1) : SumTo(r, n+1) = SumTo(r, n) + r[n+1]
      /\ \A n \in 0..(Months-1) : SumTo(new, n+1) = SumTo(new, n) + new[n+1]
      /\ \A n \in 0..Months : SumTo(r, n) \in Int /\ SumTo(new, n) \in Int
  BY <1>5, SumToStep
<1>7. 0 \in S
  BY <1>1, <1>6
<1>8. ASSUME NEW n \in Nat, n \in S PROVE n + 1 \in S
  <2> SUFFICES ASSUME n + 1 \in 0..Months PROVE SumTo(new, n+1) = SumTo(r, n+1) + Lost(n+1)
    OBVIOUS
  <2>1. /\ n \in 0..(Months-1) /\ n \in 0..Months /\ n + 1 \in FixedAssets!Month
             /\ n + 1 \in 1..Months
        /\ SumTo(new, n) = SumTo(r, n) + Lost(n)
    BY <1>8 DEF FixedAssets!Month
  <2>2. /\ SumTo(r, n+1) = SumTo(r, n) + r[n+1] /\ SumTo(new, n+1) = SumTo(new, n) + new[n+1]
        /\ SumTo(r, n) \in Int /\ SumTo(new, n) \in Int /\ r[n+1] \in Nat /\ new[n+1] \in Nat
    BY <1>3, <1>6, <2>1
  <2>3. CASE n + 1 \in from..upto
    <3>1. new[n+1] = FixedAssets!BookAfter(b, from, n) - FixedAssets!BookAfter(b, from, n+1)
      <4>1. (n + 1) - 1 = n
        OBVIOUS
      <4>2. new[n+1] = FixedAssets!BookAfter(b, from, (n+1) - 1) - FixedAssets!BookAfter(b, from, n+1)
        BY <2>1, <2>3
      <4> QED BY <4>1, <4>2
    <3>2. r[n+1] = 0
      BY <1>1, <2>3, <2>1
    <3>3. FixedAssets!BookAfter(b, from, n) \in Int /\ FixedAssets!BookAfter(b, from, n+1) \in Int
      BY <1>1, <1>2, <2>3
    <3>4. Lost(n+1) = b - FixedAssets!BookAfter(b, from, n+1)
      BY <1>1, <2>3
    <3>5. Lost(n) = b - FixedAssets!BookAfter(b, from, n)
      <4>1. CASE n < from
        <5>1. n = from - 1
          BY <1>1, <2>3, <4>1
        <5>2. FixedAssets!BookAfter(b, from, n) = b
          BY <1>1, <5>1, BookFalls
        <5> QED BY <4>1, <5>2
      <4>2. CASE ~(n < from)
        BY <1>1, <2>3, <4>2
      <4> QED BY <4>1, <4>2
    <3> HIDE DEF Lost
    <3> QED BY <2>1, <2>2, <3>1, <3>2, <3>3, <3>4, <3>5
  <2>4. CASE n + 1 \notin from..upto
    <3>1. new[n+1] = r[n+1]
      BY <2>1, <2>4
    <3>2. Lost(n+1) = Lost(n)
      BY <1>1, <2>4
    <3>3. Lost(n) \in Int
      <4>1. CASE n < from \/ upto < from
        BY <4>1
      <4>2. CASE ~(n < from \/ upto < from)
        <5> DEFINE k == IF n <= upto THEN n ELSE upto
        <5>1. k \in Int /\ k >= from - 1
          BY <1>1, <4>2
        <5>2. FixedAssets!BookAfter(b, from, k) \in Int
          BY <1>2, <5>1
        <5> QED BY <4>2, <5>2
      <4> QED BY <4>1, <4>2
    <3> HIDE DEF Lost
    <3> QED BY <2>1, <2>2, <3>1, <3>2, <3>3
  <2> QED BY <2>3, <2>4
<1>9. Months \in S
  <2> HIDE DEF S
  <2> QED BY <1>7, <1>8, SetInduction
<1>10. Lost(Months) = IF from <= upto THEN b - FixedAssets!BookAfter(b, from, upto) ELSE 0
  <2>1. CASE from <= upto
    <3>1. ~(Months < from) /\ ~(upto < from)
          /\ (IF Months <= upto THEN Months ELSE upto) = upto
      BY <1>1, <2>1
    <3> QED BY <2>1, <3>1
  <2>2. CASE ~(from <= upto)
    BY <1>1, <2>2
  <2> QED BY <2>1, <2>2
<1> QED BY <1>4, <1>9, <1>10

LEMMA AssetsIdle == FixedAssets!Idle \in FixedAssets!Work /\ FixedAssets!Idle.stage = "idle"
<1>1. 1 \in FixedAssets!AssetId /\ 1 \in FixedAssets!Month /\ {} \in SUBSET FixedAssets!AssetId
  BY FixedAssetsNumbers DEF FixedAssets!AssetId, FixedAssets!Month
<1> QED BY <1>1 DEF FixedAssets!Idle, FixedAssets!Work, FixedAssets!Status

-----------------------------------------------------------------------------
(* The steps. *)

\* A form begins: it loads its asset.
LEMMA FormAsks ==
    ASSUME AssetsInv, NEW p \in Session, NEW w \in FixedAssets!Work,
           FixedAssets!At(p, "idle"), "race" \in entries \/ FixedAssets!AtRest,
           w.stage = "saving", w.accumulated = asset[w.asset].accumulated,
           desk' = [desk EXCEPT ![p] = w], UNCHANGED <<asset, entries>>
    PROVE  AssetsInv'
<1>1. desk'[p] = w /\ \A q \in Session : q # p => desk'[q] = desk[q]
  BY DEF AssetsInv, FixedAssets!TypeOK
<1>2. FixedAssets!TypeOK' /\ FixedAssets!BooksAgree' /\ FixedAssets!DisposedPosted'
  BY DEF AssetsInv, FixedAssets!TypeOK, FixedAssets!BooksAgree, FixedAssets!DisposedPosted
<1>3. VoucherBefore'
  BY <1>1 DEF AssetsInv, VoucherBefore, FixedAssets!At
<1>4. OnlyForms => OneForm' /\ KnowsLoss'
  BY <1>1 DEF AssetsInv, OnlyForms, OneForm, KnowsLoss, FixedAssets!AtRest, FixedAssets!At
<1> QED BY <1>2, <1>3, <1>4 DEF AssetsInv, OnlyForms, RecordsAgree, FixedAssets!Taken,
          FixedAssets!SumTo, SumTo

LEMMA FormAskSteps ==
    ASSUME AssetsInv, NEW p \in Session, NEW a \in FixedAssets!AssetId,
           FixedAssets!AskEdit(p, a) \/ \E s \in FixedAssets!Status :
             FixedAssets!AskDispose(p, a, s)
    PROVE  AssetsInv'
<1>1. asset[a].status \in FixedAssets!Status /\ asset[a].accumulated \in Int
  BY DEF AssetsInv, FixedAssets!TypeOK, FixedAssets!Asset
<1>2. PICK s \in FixedAssets!Status :
        /\ desk' = [desk EXCEPT ![p] = [FixedAssets!Loaded(a) EXCEPT !.stage = "saving", !.status = s]]
        /\ UNCHANGED <<asset, entries>> /\ FixedAssets!At(p, "idle")
             /\ ("race" \in entries \/ FixedAssets!AtRest)
  <2>1. CASE FixedAssets!AskEdit(p, a)
    <3>1. [FixedAssets!Loaded(a) EXCEPT !.stage = "saving"]
            = [FixedAssets!Loaded(a) EXCEPT !.stage = "saving", !.status = asset[a].status]
      BY DEF FixedAssets!Loaded, FixedAssets!Idle
    <3> QED BY <1>1, <2>1, <3>1 DEF FixedAssets!AskEdit, FixedAssets!Starts, FixedAssets!Goto
  <2>2. CASE \E s \in FixedAssets!Status : FixedAssets!AskDispose(p, a, s)
    BY <2>2 DEF FixedAssets!AskDispose, FixedAssets!Starts, FixedAssets!Goto
  <2> QED BY <2>1, <2>2
<1> DEFINE w == [FixedAssets!Loaded(a) EXCEPT !.stage = "saving", !.status = s]
<1>3. w \in FixedAssets!Work /\ w.stage = "saving" /\ w.asset = a
        /\ w.accumulated = asset[a].accumulated
  <2> DEFINE i == FixedAssets!Idle
  <2>1. i \in FixedAssets!Work
    BY AssetsIdle
  <2>2. w = [[i EXCEPT !.asset = a, !.status = asset[a].status,
                       !.accumulated = asset[a].accumulated]
               EXCEPT !.stage = "saving", !.status = s]
    BY DEF FixedAssets!Loaded
  <2> HIDE DEF i, w
  <2> QED BY <1>1, <2>1, <2>2 DEF FixedAssets!Work
<1> HIDE DEF w
<1>4. w.accumulated = asset[w.asset].accumulated
  BY <1>3
<1>5. desk' = [desk EXCEPT ![p] = w]
  BY <1>2 DEF w
<1> QED BY <1>2, <1>3, <1>4, <1>5, FormAsks

\* The months after the last recorded one have no record.
LEMMA NoneAfterLast ==
    ASSUME AssetsInv, NEW a \in FixedAssets!AssetId, NEW from,
           from = FixedAssets!Max({0} \cup {m \in FixedAssets!Month : FixedAssets!Recorded(a, m)}) + 1
    PROVE  /\ from \in 1..(Months + 1)
           /\ \A m \in from..Months : asset[a].record[m] = 0
<1> DEFINE T == {0} \cup {m \in FixedAssets!Month : FixedAssets!Recorded(a, m)}
<1>1. T \subseteq 0..Months /\ T # {} /\ Months \in Nat
  BY FixedAssetsNumbers DEF FixedAssets!Month
<1>2. \E x \in T : \A y \in T : x >= y
  <2> HIDE DEF T
  <2>1. \E x \in T : \A y \in T : y <= x
    BY <1>1, GreatestOne
  <2> QED BY <1>1, <2>1
<1>3. FixedAssets!Max(T) \in T /\ \A y \in T : FixedAssets!Max(T) >= y
  BY <1>2 DEF FixedAssets!Max
<1> DEFINE last == FixedAssets!Max(T)
<1>4. from = last + 1 /\ last \in 0..Months /\ \A y \in T : last >= y
  BY <1>1, <1>3
<1> HIDE DEF last
<1>5. from \in 1..(Months + 1)
  <2> HIDE DEF T
  <2> QED BY <1>1, <1>4
<1>6. ASSUME NEW m \in from..Months PROVE asset[a].record[m] = 0
  <2>1. m \in FixedAssets!Month /\ m \notin T
    <3> HIDE DEF T
    <3>1. m \in Int /\ m > last
      BY <1>1, <1>4, <1>5, <1>6
    <3> QED BY <1>1, <1>4, <1>5, <1>6, <3>1 DEF FixedAssets!Month
  <2>2. ~(asset[a].record[m] > 0) /\ asset[a].record[m] \in Nat
    BY <2>1 DEF FixedAssets!Recorded, AssetsInv, FixedAssets!TypeOK, FixedAssets!Asset
  <2> QED BY <2>2
<1> QED BY <1>5, <1>6

\* An asset is depreciated up to a day: the records are worth what it lost.
LEMMA CatchUpStep ==
    ASSUME AssetsInv, NEW p \in Session, NEW a \in FixedAssets!AssetId,
           NEW upto \in FixedAssets!Month,
           FixedAssets!AskCatchUp(p, a, upto)
    PROVE  AssetsInv'
<1> DEFINE from == FixedAssets!Max({0} \cup {m \in FixedAssets!Month : FixedAssets!Recorded(a, m)}) + 1
           b == asset[a].book
           taken == Gone(b, from, upto)
           new == [m \in FixedAssets!Month |-> IF m \in from..upto
                                               THEN FixedAssets!BookAfter(b, from, m - 1) - FixedAssets!BookAfter(b, from, m)
                                               ELSE asset[a].record[m]]
           x == FixedAssets!CaughtUp(asset[a], from, upto)
           w == [FixedAssets!Idle EXCEPT !.stage = "saving", !.asset = a, !.status = x.status,
                                         !.accumulated = x.accumulated]
<1>1. /\ FixedAssets!At(p, "idle") /\ ("race" \in entries \/ FixedAssets!AtRest)
      /\ asset' = [asset EXCEPT ![a] = x] /\ desk' = [desk EXCEPT ![p] = w]
      /\ entries' = entries
  BY DEF FixedAssets!AskCatchUp, FixedAssets!Starts, FixedAssets!Goto
<1>2. from \in 1..(Months + 1) /\ \A m \in from..Months : asset[a].record[m] = 0
  BY NoneAfterLast
<1> HIDE DEF from
<1>3. asset[a] \in FixedAssets!Asset /\ asset[a].record \in [FixedAssets!Month -> Nat]
        /\ b \in Int
      /\ asset[a].accumulated \in Int /\ asset[a].status \in FixedAssets!Status
           /\ asset[a].vouchers \in Nat
  BY DEF AssetsInv, FixedAssets!TypeOK, FixedAssets!Asset
<1>4. /\ new \in [FixedAssets!Month -> Nat]
      /\ SumTo(new, Months) = SumTo(asset[a].record, Months) + taken
  <2> DEFINE r == asset[a].record
  <2>1. CaughtUpRecords(r, b, from, upto, new)
    BY DEF CaughtUpRecords
  <2>2. r \in [FixedAssets!Month -> Nat] /\ \A m \in from..Months : r[m] = 0
    BY <1>2, <1>3
  <2> HIDE DEF new, r, b
  <2>3. /\ new \in [FixedAssets!Month -> Nat]
        /\ SumTo(new, Months) = SumTo(r, Months) + taken
    BY <1>2, <1>3, <2>1, <2>2, RecordsOfCatchUp
  <2> QED BY <2>3 DEF r
<1>5. taken \in Int /\ (b >= Residual => b - taken >= Residual)
  <2>1. CASE from <= upto
    <3>1. upto \in Int /\ upto >= from - 1 /\ from \in Nat \ {0}
      BY <1>2, <2>1 DEF FixedAssets!Month
    <3>2. FixedAssets!BookAfter(b, from, upto) \in Int
            /\ (b >= Residual => FixedAssets!BookAfter(b, from, upto) >= Residual)
      BY <1>3, <3>1, BookFalls
    <3> QED BY <1>3, <2>1, <3>2 DEF Gone
  <2>2. CASE ~(from <= upto)
    BY <1>3, <2>2 DEF Gone
  <2> QED BY <2>1, <2>2
<1>6. x = [asset[a] EXCEPT !.record = new, !.accumulated = @ + taken, !.book = @ - taken]
  BY DEF FixedAssets!CaughtUp, Gone
<1> HIDE DEF taken, new, x
<1>7. /\ x \in FixedAssets!Asset /\ x.status = asset[a].status /\ x.vouchers = asset[a].vouchers
      /\ x.record = new /\ x.accumulated = asset[a].accumulated + taken /\ x.book = b - taken
  <2> DEFINE y == asset[a]
  <2>1. y \in FixedAssets!Asset /\ y.book \in Int /\ y.accumulated \in Int
    BY <1>3
  <2>2. x = MovedTo(y, new, y.accumulated + taken, y.book - taken)
    BY <1>6 DEF MovedTo
  <2> HIDE DEF y
  <2>3. /\ x \in FixedAssets!Asset /\ x.status = y.status /\ x.vouchers = y.vouchers
        /\ x.record = new /\ x.accumulated = y.accumulated + taken /\ x.book = y.book - taken
    <3>1. y.accumulated + taken \in Int /\ y.book - taken \in Int
      BY <1>5, <2>1
    <3> QED BY <1>4, <2>1, <2>2, <3>1, AssetMoved
  <2> QED BY <2>3 DEF y
<1>8. w \in FixedAssets!Work /\ w.stage = "saving" /\ w.asset = a /\ w.accumulated = x.accumulated
  <2> DEFINE i == FixedAssets!Idle
  <2>1. i \in FixedAssets!Work /\ x.accumulated \in Int /\ x.status \in FixedAssets!Status
    BY <1>7, AssetsIdle DEF FixedAssets!Asset
  <2>2. w = [i EXCEPT !.stage = "saving", !.asset = a, !.status = x.status,
                      !.accumulated = x.accumulated]
    OBVIOUS
  <2> HIDE DEF i, w
  <2> QED BY <2>1, <2>2 DEF FixedAssets!Work
<1> HIDE DEF w
<1>9. /\ asset'[a] = x /\ \A c \in FixedAssets!AssetId : c # a => asset'[c] = asset[c]
      /\ desk'[p] = w /\ \A q \in Session : q # p => desk'[q] = desk[q]
  BY <1>1 DEF AssetsInv, FixedAssets!TypeOK
<1>10. FixedAssets!TypeOK'
  BY <1>1, <1>7, <1>8 DEF AssetsInv, FixedAssets!TypeOK
<1>11. FixedAssets!BooksAgree'
  <2>1. asset[a].book = AssetCost - asset[a].accumulated /\ AssetCost \in Int
    BY FixedAssetsNumbers DEF AssetsInv, FixedAssets!BooksAgree
  <2>2. x.book = AssetCost - x.accumulated
    BY <1>3, <1>5, <1>7, <2>1
  <2> QED BY <1>9, <2>2 DEF AssetsInv, FixedAssets!BooksAgree
<1>12. FixedAssets!DisposedPosted' /\ VoucherBefore'
  <2>1. \A c \in FixedAssets!AssetId : asset'[c].status = asset[c].status
                                       /\ asset'[c].vouchers = asset[c].vouchers
    BY <1>7, <1>9
  <2>2. \A q \in Session : desk[q].asset \in FixedAssets!AssetId
    BY DEF AssetsInv, FixedAssets!TypeOK, FixedAssets!Work
  <2> QED BY <1>8, <1>9, <2>1, <2>2 DEF AssetsInv, FixedAssets!DisposedPosted, VoucherBefore,
     FixedAssets!At
<1>13. ASSUME OnlyForms PROVE OneForm' /\ KnowsLoss' /\ RecordsAgree'
  <2>1. \A q \in Session : q # p => desk'[q].stage = "idle"
    BY <1>1, <1>9, <1>13 DEF OnlyForms, FixedAssets!AtRest, FixedAssets!At
  <2>2. OneForm' /\ KnowsLoss'
    BY <1>8, <1>9, <2>1 DEF OneForm, KnowsLoss, FixedAssets!At
  <2>3. ASSUME NEW c \in FixedAssets!AssetId
        PROVE  asset'[c].accumulated = SumTo(asset'[c].record, Months)
                 /\ asset'[c].book >= Residual
    <3>1. /\ asset[c].accumulated = SumTo(asset[c].record, Months) /\ asset[c].book >= Residual
          /\ asset[a].accumulated = SumTo(asset[a].record, Months) /\ b >= Residual
      BY <1>13 DEF AssetsInv, RecordsAgree, FixedAssets!Taken, FixedAssets!SumTo, SumTo
    <3>2. CASE c = a
      BY <1>3, <1>4, <1>5, <1>7, <1>9, <3>1, <3>2
    <3>3. CASE c # a
      BY <1>9, <3>1, <3>3
    <3> QED BY <3>2, <3>3
  <2> QED BY <2>2, <2>3 DEF RecordsAgree, FixedAssets!Taken, FixedAssets!SumTo, SumTo
<1> QED BY <1>1, <1>10, <1>11, <1>12, <1>13 DEF AssetsInv, OnlyForms

\* The monthly run.
LEMMA AskRunStep ==
    ASSUME AssetsInv, NEW p \in Session, NEW m \in FixedAssets!Month, FixedAssets!AskRun(p, m)
    PROVE  AssetsInv'
<1> DEFINE values == [a \in FixedAssets!AssetId |-> asset[a].book]
           listed == {a \in FixedAssets!AssetId : asset[a].status = "ACTIVE" /\ ~FixedAssets!Recorded(a, m)
                                                  /\ FixedAssets!Amount(asset[a].book) > 0}
           w == [FixedAssets!Idle EXCEPT !.stage = "running", !.month = m, !.books = values, !.listed = listed]
<1>1. desk' = [desk EXCEPT ![p] = w] /\ UNCHANGED <<asset, entries>> /\ "run" \in entries
  BY DEF FixedAssets!AskRun, FixedAssets!Starts, FixedAssets!Goto
<1>2. values \in [FixedAssets!AssetId -> Int] /\ listed \in SUBSET FixedAssets!AssetId
  BY DEF AssetsInv, FixedAssets!TypeOK, FixedAssets!Asset
<1> HIDE DEF values, listed
<1>3. w \in FixedAssets!Work /\ w.stage = "running"
  <2> DEFINE i == FixedAssets!Idle
  <2>1. i \in FixedAssets!Work
    BY AssetsIdle
  <2>2. w = [i EXCEPT !.stage = "running", !.month = m, !.books = values, !.listed = listed]
    OBVIOUS
  <2> HIDE DEF i, w
  <2> QED BY <1>2, <2>1, <2>2 DEF FixedAssets!Work
<1> HIDE DEF w
<1>4. desk'[p] = w /\ \A q \in Session : q # p => desk'[q] = desk[q]
  BY <1>1 DEF AssetsInv, FixedAssets!TypeOK
<1>5. FixedAssets!TypeOK' /\ FixedAssets!BooksAgree' /\ FixedAssets!DisposedPosted'
  BY <1>1, <1>3 DEF AssetsInv, FixedAssets!TypeOK, FixedAssets!BooksAgree,
     FixedAssets!DisposedPosted
<1>6. VoucherBefore'
  BY <1>1, <1>3, <1>4 DEF AssetsInv, VoucherBefore, FixedAssets!At
<1> QED BY <1>1, <1>5, <1>6 DEF AssetsInv, OnlyForms

LEMMA CommitRunStep ==
    ASSUME AssetsInv, NEW p \in Session, FixedAssets!CommitRun(p)
    PROVE  AssetsInv'
<1> DEFINE t == desk[p].month
           Lot(a) == FixedAssets!Amount(desk[p].books[a])
           Booked(a) == FixedAssets!Again(FixedAssets!Depreciated(asset[a], t, Lot(a)), Lot(a))
<1>1. /\ asset' \in [FixedAssets!AssetId -> FixedAssets!Asset]
      /\ \A a \in FixedAssets!AssetId :
           /\ asset'[a].status = asset[a].status /\ asset'[a].vouchers = asset[a].vouchers
           /\ asset'[a].book = AssetCost - asset'[a].accumulated
  <2>1. PICK lot \in SUBSET FixedAssets!AssetId :
           asset' = [a \in FixedAssets!AssetId |-> IF a \in lot THEN Booked(a) ELSE asset[a]]
    <3> DEFINE lot == {a \in desk[p].listed : ~FixedAssets!Recorded(a, desk[p].month)}
    <3>1. lot \in SUBSET FixedAssets!AssetId
      BY DEF AssetsInv, FixedAssets!TypeOK, FixedAssets!Work
    <3>2. asset' = [a \in FixedAssets!AssetId |-> IF a \in lot THEN Booked(a) ELSE asset[a]]
      BY DEF FixedAssets!CommitRun
    <3> QED BY <3>1, <3>2
  <2>2. ASSUME NEW a \in FixedAssets!AssetId
        PROVE  /\ Booked(a) \in FixedAssets!Asset
               /\ Booked(a).status = asset[a].status /\ Booked(a).vouchers = asset[a].vouchers
               /\ Booked(a).book = AssetCost - Booked(a).accumulated
    <3>1. t \in FixedAssets!Month /\ desk[p].books[a] \in Int
      BY DEF AssetsInv, FixedAssets!TypeOK, FixedAssets!Work
    <3> DEFINE k == Lot(a)
    <3>2. k \in Nat
      BY <3>1, AmountTaken
    <3>3. Booked(a) = FixedAssets!Again(FixedAssets!Depreciated(asset[a], t, k), k)
      OBVIOUS
    <3> HIDE DEF k, t, Booked
    <3>4. asset[a] \in FixedAssets!Asset /\ asset[a].book = AssetCost - asset[a].accumulated
            /\ AssetCost \in Int
      BY FixedAssetsNumbers DEF AssetsInv, FixedAssets!TypeOK, FixedAssets!BooksAgree
    <3> DEFINE d == FixedAssets!Depreciated(asset[a], t, k)
    <3>5. /\ d \in FixedAssets!Asset /\ d.status = asset[a].status
               /\ d.vouchers = asset[a].vouchers
          /\ d.accumulated = asset[a].accumulated + k /\ d.book = asset[a].book - k
      <4> DEFINE y == asset[a]  new == [y.record EXCEPT ![t] = k]
                 more == y.accumulated + k  less == y.book - k
      <4>1. y \in FixedAssets!Asset /\ y.record \in [FixedAssets!Month -> Nat] /\ y.book \in Int
              /\ y.accumulated \in Int
        BY <3>4 DEF FixedAssets!Asset
      <4>2. new \in [FixedAssets!Month -> Nat]
        BY <3>1, <3>2, <4>1
      <4>3. d = MovedTo(y, new, more, less)
        BY DEF FixedAssets!Depreciated, MovedTo
      <4>4. more \in Int /\ less \in Int
        BY <3>2, <4>1
      <4> HIDE DEF y, new, d, more, less
      <4>5. /\ d \in FixedAssets!Asset /\ d.status = y.status /\ d.vouchers = y.vouchers
            /\ d.accumulated = more /\ d.book = less
        BY <4>1, <4>2, <4>3, <4>4, AssetMoved
      <4> QED BY <4>5 DEF y, more, less
    <3> HIDE DEF d
    <3>6. Booked(a) = [d EXCEPT !.accumulated = d.accumulated + k, !.book = d.book - k]
      BY <3>3 DEF FixedAssets!Again, d
    <3>7. /\ Booked(a) \in FixedAssets!Asset
          /\ Booked(a).status = d.status /\ Booked(a).vouchers = d.vouchers
          /\ Booked(a).accumulated = d.accumulated + k /\ Booked(a).book = d.book - k
      <4>1. d.accumulated \in Int /\ d.book \in Int
        BY <3>5 DEF FixedAssets!Asset
      <4> DEFINE e == Booked(a)
      <4>2. e = [d EXCEPT !.accumulated = d.accumulated + k, !.book = d.book - k]
        BY <3>6
      <4> HIDE DEF e
      <4>3. /\ e \in FixedAssets!Asset /\ e.status = d.status /\ e.vouchers = d.vouchers
            /\ e.accumulated = d.accumulated + k /\ e.book = d.book - k
        <5>1. d.accumulated + k \in Int /\ d.book - k \in Int
                /\ d.record \in [FixedAssets!Month -> Nat]
          BY <3>2, <3>5, <4>1 DEF FixedAssets!Asset
        <5>2. e = MovedTo(d, d.record, d.accumulated + k, d.book - k)
          BY <3>5, <4>2 DEF FixedAssets!Asset, MovedTo
        <5> QED BY <3>5, <5>1, <5>2, AssetMoved
      <4> QED BY <4>3 DEF e
    <3>8. asset[a].book \in Int /\ asset[a].accumulated \in Int
      BY <3>4 DEF FixedAssets!Asset
    <3> QED BY <3>2, <3>4, <3>5, <3>7, <3>8
  <2> HIDE DEF Booked
  <2>3. ASSUME NEW a \in FixedAssets!AssetId
        PROVE  asset[a] \in FixedAssets!Asset /\ asset[a].book = AssetCost - asset[a].accumulated
    BY DEF AssetsInv, FixedAssets!TypeOK, FixedAssets!BooksAgree
  <2> QED BY <2>1, <2>2, <2>3
<1>2. desk' = [desk EXCEPT ![p] = FixedAssets!Idle] /\ entries' = entries
        /\ FixedAssets!At(p, "running")
  BY DEF FixedAssets!CommitRun, FixedAssets!Done, FixedAssets!Goto
<1>3. /\ \A q \in Session : desk'[q] = desk[q] \/ desk'[q].stage = "idle"
      /\ desk' \in [Session -> FixedAssets!Work]
      /\ \A q \in Session : desk[q].asset \in FixedAssets!AssetId
  BY <1>2, AssetsIdle DEF AssetsInv, FixedAssets!TypeOK, FixedAssets!Work
<1>4. FixedAssets!TypeOK' /\ FixedAssets!BooksAgree' /\ FixedAssets!DisposedPosted'
        /\ VoucherBefore'
  BY <1>1, <1>2, <1>3 DEF AssetsInv, FixedAssets!TypeOK, FixedAssets!BooksAgree,
     FixedAssets!DisposedPosted, VoucherBefore, FixedAssets!At
<1>5. ~OnlyForms
  BY <1>2 DEF AssetsInv, OneForm
<1> QED BY <1>2, <1>4, <1>5 DEF AssetsInv, OnlyForms

\* The voucher of a disposal is committed before the row.
LEMMA HandleSaveStep ==
    ASSUME AssetsInv, NEW p \in Session, FixedAssets!HandleSave(p)
    PROVE  AssetsInv'
<1> DEFINE a == desk[p].asset  s == desk[p].status
           w == [desk[p] EXCEPT !.stage = "writing"]
<1>1. /\ FixedAssets!At(p, "saving") /\ desk' = [desk EXCEPT ![p] = w] /\ entries' = entries
      /\ asset' = IF FixedAssets!BecomesRetired(asset[a].status, s)
                  THEN [asset EXCEPT ![a].vouchers = @ + 1] ELSE asset
  BY DEF FixedAssets!HandleSave, FixedAssets!Goto
<1>2. a \in FixedAssets!AssetId /\ s \in FixedAssets!Status /\ desk[p] \in FixedAssets!Work
  BY DEF AssetsInv, FixedAssets!TypeOK, FixedAssets!Work
<1>3. w \in FixedAssets!Work /\ w.stage = "writing" /\ w.asset = a /\ w.status = s
      /\ w.accumulated = desk[p].accumulated
  BY <1>2 DEF FixedAssets!Work
<1>4. /\ asset' \in [FixedAssets!AssetId -> FixedAssets!Asset]
      /\ \A c \in FixedAssets!AssetId :
           /\ asset'[c].status = asset[c].status /\ asset'[c].record = asset[c].record
           /\ asset'[c].accumulated = asset[c].accumulated /\ asset'[c].book = asset[c].book
           /\ asset'[c].vouchers >= asset[c].vouchers /\ asset[c].vouchers \in Nat
           /\ asset'[c].vouchers \in Nat
      /\ FixedAssets!BecomesRetired(asset[a].status, s) => asset'[a].vouchers > 0
  <2> HIDE DEF s, w, a
  <2>1. CASE FixedAssets!BecomesRetired(asset[a].status, s)
    BY <1>1, <1>2, <2>1 DEF AssetsInv, FixedAssets!TypeOK, FixedAssets!Asset
  <2>2. CASE ~FixedAssets!BecomesRetired(asset[a].status, s)
    BY <1>1, <1>2, <2>2 DEF AssetsInv, FixedAssets!TypeOK, FixedAssets!Asset
  <2> QED BY <2>1, <2>2
<1>5. FixedAssets!Retired(s) => asset'[a].vouchers > 0
  <2>1. CASE FixedAssets!BecomesRetired(asset[a].status, s)
    BY <1>4, <2>1
  <2>2. CASE ~FixedAssets!BecomesRetired(asset[a].status, s)
    <3> SUFFICES ASSUME FixedAssets!Retired(s) PROVE asset'[a].vouchers > 0
      OBVIOUS
    <3>1. FixedAssets!Retired(asset[a].status)
      BY <1>2, <2>2 DEF FixedAssets!BecomesRetired, AssetsInv, FixedAssets!TypeOK,
         FixedAssets!Asset, FixedAssets!Status, FixedAssets!Retired
    <3>2. asset[a].vouchers > 0
      BY <1>2, <3>1 DEF AssetsInv, FixedAssets!DisposedPosted
    <3> QED BY <1>2, <1>4, <3>2
  <2> QED BY <2>1, <2>2
<1> HIDE DEF w, s
<1>6. desk'[p] = w /\ \A q \in Session : q # p => desk'[q] = desk[q]
  BY <1>1 DEF AssetsInv, FixedAssets!TypeOK
<1>7. FixedAssets!TypeOK' /\ FixedAssets!BooksAgree' /\ FixedAssets!DisposedPosted'
  BY <1>1, <1>3, <1>4 DEF AssetsInv, FixedAssets!TypeOK, FixedAssets!BooksAgree,
     FixedAssets!DisposedPosted
<1>8. VoucherBefore'
  <2>1. \A q \in Session : desk[q].asset \in FixedAssets!AssetId
    BY DEF AssetsInv, FixedAssets!TypeOK, FixedAssets!Work
  <2> QED BY <1>3, <1>4, <1>5, <1>6, <2>1 DEF AssetsInv, VoucherBefore, FixedAssets!At
<1>9. OnlyForms => OneForm' /\ KnowsLoss' /\ RecordsAgree'
  <2>1. \A q \in Session : desk[q].asset \in FixedAssets!AssetId
    BY DEF AssetsInv, FixedAssets!TypeOK, FixedAssets!Work
  <2>2. OnlyForms => OneForm'
    BY <1>1, <1>3, <1>6 DEF AssetsInv, OneForm, FixedAssets!At
  <2>3. OnlyForms => KnowsLoss'
    BY <1>1, <1>2, <1>3, <1>4, <1>6, <2>1 DEF AssetsInv, KnowsLoss, FixedAssets!At, a
  <2>4. OnlyForms => RecordsAgree'
    BY <1>4 DEF AssetsInv, RecordsAgree, FixedAssets!Taken, FixedAssets!SumTo, SumTo
  <2> QED BY <2>2, <2>3, <2>4
<1> QED BY <1>1, <1>7, <1>8, <1>9 DEF AssetsInv, OnlyForms

\* The row is written; its form lost nothing that the asset has not.
LEMMA WriteAssetStep ==
    ASSUME AssetsInv, NEW p \in Session, FixedAssets!WriteAsset(p)
    PROVE  AssetsInv'
<1> DEFINE a == desk[p].asset  s == desk[p].status  k == desk[p].accumulated
<1>1. /\ FixedAssets!At(p, "writing") /\ desk' = [desk EXCEPT ![p] = FixedAssets!Idle]
           /\ entries' = entries
      /\ asset' = [asset EXCEPT ![a] = FixedAssets!Written(@, desk[p])]
  BY DEF FixedAssets!WriteAsset, FixedAssets!Done, FixedAssets!Goto
<1>2. a \in FixedAssets!AssetId /\ s \in FixedAssets!Status /\ k \in Int /\ AssetCost \in Int
  BY FixedAssetsNumbers DEF AssetsInv, FixedAssets!TypeOK, FixedAssets!Work
<1>3. /\ asset' \in [FixedAssets!AssetId -> FixedAssets!Asset]
      /\ \A c \in FixedAssets!AssetId : asset'[c].record = asset[c].record
                                        /\ asset'[c].vouchers = asset[c].vouchers
      /\ asset'[a].status = s /\ asset'[a].accumulated = k /\ asset'[a].book = AssetCost - k
      /\ \A c \in FixedAssets!AssetId : c # a => asset'[c] = asset[c]
  <2>1. asset' = [asset EXCEPT ![a] = [asset[a] EXCEPT !.status = s, !.accumulated = k,
                                                       !.book = AssetCost - k]]
    BY <1>1, <1>2 DEF FixedAssets!Written, AssetsInv, FixedAssets!TypeOK
  <2> HIDE DEF a, s, k
  <2>2. asset[a] \in FixedAssets!Asset /\ AssetCost - k \in Int
    BY <1>2 DEF AssetsInv, FixedAssets!TypeOK
  <2> DEFINE x == [asset[a] EXCEPT !.status = s, !.accumulated = k, !.book = AssetCost - k]
  <2>3. /\ x \in FixedAssets!Asset /\ x.record = asset[a].record /\ x.vouchers = asset[a].vouchers
        /\ x.status = s /\ x.accumulated = k /\ x.book = AssetCost - k
    BY <1>2, <2>2 DEF FixedAssets!Asset
  <2>4. asset' = [asset EXCEPT ![a] = x]
    BY <2>1
  <2> HIDE DEF x
  <2> QED BY <1>2, <2>3, <2>4 DEF AssetsInv, FixedAssets!TypeOK
<1>4. /\ desk'[p].stage = "idle" /\ desk' \in [Session -> FixedAssets!Work]
      /\ \A q \in Session : q # p => desk'[q] = desk[q]
      /\ \A q \in Session : desk[q].asset \in FixedAssets!AssetId
  BY <1>1, AssetsIdle DEF AssetsInv, FixedAssets!TypeOK, FixedAssets!Work
<1>5. FixedAssets!Retired(s) => asset[a].vouchers > 0
  BY <1>1 DEF AssetsInv, VoucherBefore
<1> HIDE DEF s
<1>6. FixedAssets!TypeOK'
  BY <1>1, <1>3, <1>4 DEF AssetsInv, FixedAssets!TypeOK
<1>7. FixedAssets!BooksAgree'
  <2> HIDE DEF a, k
  <2> QED BY <1>3 DEF AssetsInv, FixedAssets!BooksAgree
<1>8. FixedAssets!DisposedPosted'
  <2> HIDE DEF a, k
  <2> QED BY <1>3, <1>5 DEF AssetsInv, FixedAssets!DisposedPosted
<1>9. VoucherBefore'
  BY <1>3, <1>4 DEF AssetsInv, VoucherBefore, FixedAssets!At
<1>10. ASSUME OnlyForms PROVE OneForm' /\ KnowsLoss' /\ RecordsAgree'
  <2>1. \A q \in Session : desk'[q].stage = "idle"
    BY <1>1, <1>4, <1>10 DEF AssetsInv, OneForm, FixedAssets!At
  <2>2. k = asset[a].accumulated
    BY <1>1, <1>10 DEF AssetsInv, KnowsLoss, FixedAssets!At
  <2>3. asset[a].book = AssetCost - k
    BY <1>2, <2>2 DEF AssetsInv, FixedAssets!BooksAgree
  <2> HIDE DEF a, k
  <2>4. \A c \in FixedAssets!AssetId : /\ asset'[c].accumulated = asset[c].accumulated
                                       /\ asset'[c].book = asset[c].book
                                       /\ asset'[c].record = asset[c].record
    BY <1>3, <2>2, <2>3
  <2>5. RecordsAgree'
    BY <1>10, <2>4 DEF AssetsInv, RecordsAgree, FixedAssets!Taken, FixedAssets!SumTo, SumTo
  <2> QED BY <2>1, <2>5 DEF OneForm, KnowsLoss, FixedAssets!At
<1> QED BY <1>1, <1>6, <1>7, <1>8, <1>9, <1>10 DEF AssetsInv, OnlyForms

\* A run that collides, or a request that dies, leaves the assets as they are.
LEMMA AssetsEnd ==
    ASSUME AssetsInv, NEW p \in Session, FixedAssets!FailRun(p) \/ FixedAssets!Crash(p)
    PROVE  AssetsInv'
<1>1. desk' = [desk EXCEPT ![p] = FixedAssets!Idle] /\ UNCHANGED <<asset, entries>>
  BY DEF FixedAssets!FailRun, FixedAssets!Crash, FixedAssets!Done, FixedAssets!Goto
<1>2. /\ desk' \in [Session -> FixedAssets!Work]
      /\ \A q \in Session : desk'[q] = desk[q] \/ desk'[q].stage = "idle"
  BY <1>1, AssetsIdle DEF AssetsInv, FixedAssets!TypeOK
<1>3. FixedAssets!TypeOK' /\ FixedAssets!BooksAgree' /\ FixedAssets!DisposedPosted'
        /\ VoucherBefore'
  BY <1>1, <1>2 DEF AssetsInv, FixedAssets!TypeOK, FixedAssets!BooksAgree,
     FixedAssets!DisposedPosted, VoucherBefore, FixedAssets!At
<1>4. OnlyForms => OneForm' /\ KnowsLoss' /\ RecordsAgree'
  BY <1>1, <1>2 DEF AssetsInv, OneForm, KnowsLoss, RecordsAgree, FixedAssets!Taken,
    FixedAssets!SumTo, SumTo, FixedAssets!At
<1> QED BY <1>1, <1>3, <1>4 DEF AssetsInv, OnlyForms

LEMMA AssetsStarts == FixedAssets!Init => AssetsInv
<1> SUFFICES ASSUME FixedAssets!Init PROVE AssetsInv
  OBVIOUS
<1>1. FixedAssets!New \in FixedAssets!Asset /\ FixedAssets!New.status = "ACTIVE"
        /\ FixedAssets!New.book = AssetCost /\ FixedAssets!New.accumulated = 0
      /\ FixedAssets!New.record = [m \in FixedAssets!Month |-> 0]
  BY FixedAssetsNumbers DEF FixedAssets!New, FixedAssets!Asset, FixedAssets!Status
<1>2. \A a \in FixedAssets!AssetId : asset[a] = FixedAssets!New
  BY DEF FixedAssets!Init
<1>3. \A p \in Session : desk[p].stage = "idle"
  BY AssetsIdle DEF FixedAssets!Init
<1>4. FixedAssets!TypeOK
  BY <1>1, AssetsIdle DEF FixedAssets!Init, FixedAssets!TypeOK
<1>5. FixedAssets!BooksAgree /\ FixedAssets!DisposedPosted /\ VoucherBefore /\ OneForm
        /\ KnowsLoss
  BY <1>1, <1>2, <1>3, FixedAssetsNumbers
     DEF FixedAssets!BooksAgree, FixedAssets!DisposedPosted, VoucherBefore, OneForm, KnowsLoss,
        FixedAssets!At, FixedAssets!Retired
<1>6. SumTo([m \in FixedAssets!Month |-> 0], Months) = 0
  <2> DEFINE none == [m \in FixedAssets!Month |-> 0]
  <2>1. none \in [1..Months -> Int] /\ \A m \in 1..Months : none[m] = 0
    BY DEF FixedAssets!Month
  <2> HIDE DEF none
  <2>2. \A n \in 0..Months : SumTo(none, n) = 0
    BY <2>1, SumToZero, FixedAssetsNumbers
  <2>3. SumTo(none, Months) = 0
    BY <2>2, FixedAssetsNumbers
  <2> QED BY <2>3 DEF none
<1>7. \A a \in FixedAssets!AssetId : FixedAssets!Taken(a) = SumTo(asset[a].record, Months)
  BY DEF FixedAssets!Taken, FixedAssets!SumTo, SumTo
<1>8. RecordsAgree
  BY <1>1, <1>2, <1>6, <1>7, FixedAssetsNumbers DEF RecordsAgree
<1> QED BY <1>4, <1>5, <1>8 DEF AssetsInv

LEMMA AssetsStep ==
    ASSUME AssetsInv, [FixedAssets!Next]_(FixedAssets!vars)
    PROVE  AssetsInv'
<1>1. CASE UNCHANGED FixedAssets!vars
  BY <1>1 DEF FixedAssets!vars, AssetsInv, FixedAssets!TypeOK, FixedAssets!BooksAgree,
     FixedAssets!DisposedPosted, VoucherBefore,
              OnlyForms, OneForm, KnowsLoss, RecordsAgree, FixedAssets!Taken, FixedAssets!At
<1>2. CASE FixedAssets!Next
  BY <1>2, FormAskSteps, CatchUpStep, AskRunStep, CommitRunStep, HandleSaveStep,
     WriteAssetStep, AssetsEnd DEF FixedAssets!Next
<1> QED BY <1>1, <1>2

LEMMA AssetsKeep == AssetsInv => FixedAssets!BooksAgree /\ FixedAssets!DisposedPosted
    /\ FixedAssets!RecordsExact
BY DEF AssetsInv, FixedAssets!RecordsExact, RecordsAgree, OnlyForms

-----------------------------------------------------------------------------
(* Equipment maintenance. *)

\* What the constants of this part are.
LEMMA UpkeepNumbers ==
    Schedules \in Nat /\ UpkeepOrders \in Nat
BY BackOfficeAssumption

-----------------------------------------------------------------------------
(* The invariant. *)

UpkeepAlone == "race" \notin entries
\* One request, or the job.
UpkeepOneRequest ==
    /\ \A p, q \in Session : ~Upkeep!At(p, "idle") /\ ~Upkeep!At(q, "idle") => p = q
    /\ \A p \in Session : ~Upkeep!At(p, "idle") => job.stage = "idle"

\* A request is about an order that is there, and knows the statuses it read.
AboutOrder ==
    \A p \in Session :
        /\ desk[p].stage \in {"order", "finished"} =>
             desk[p].order \in Upkeep!OrderId /\ Upkeep!Exists(desk[p].order)
        /\ Upkeep!At(p, "order") =>
                    /\ desk[p].old \in Upkeep!Status /\ desk[p].to \in Upkeep!Status
                    /\ desk[p].to = "COMPLETED" \/ "patch" \in entries
        /\ Upkeep!At(p, "machine") => desk[p].old \in Upkeep!MachineStatus
             /\ desk[p].to \in Upkeep!MachineStatus
KnowsStatus ==
    \A p \in Session :
        /\ Upkeep!At(p, "order") => desk[p].old = wo[desk[p].order].status
        /\ Upkeep!At(p, "machine") => desk[p].old = machine

Live == {"OPEN", "IN_PROGRESS"}
\* Nothing opens an order of a schedule but the job.
ByTheJob == entries \cap {"order", "reopen"} = {} /\ ~({"patch", "race"} \subseteq entries)
\* What is written is finished, or was not finished before.
NothingReopened ==
    \A p \in Session : Upkeep!At(p, "order") => desk[p].to = "COMPLETED" \/ desk[p].old \in Live
OneLive ==
    /\ \A a, b \in Upkeep!OrderId :
         /\ wo[a].schedule # 0 /\ wo[a].schedule = wo[b].schedule
         /\ wo[a].status \in Live /\ wo[b].status \in Live
         => a = b
    /\ job.stage = "creating" => \A o \in Upkeep!OrderId : ~Upkeep!IsOpen(o, job.at)

Working ==
    machine = "MAINTENANCE" =>
        \/ \E o \in Upkeep!OrderId : wo[o].emergency /\ wo[o].status = "OPEN"
        \/ \E p \in Session : desk[p].stage \in {"broken", "finished"}

JobRight == job.stage = "creating" => job.at \in Upkeep!ScheduleId

UpkeepInv ==
    /\ Upkeep!TypeOK /\ AboutOrder /\ JobRight
    /\ UpkeepAlone => UpkeepOneRequest /\ KnowsStatus
    /\ ByTheJob => NothingReopened /\ OneLive
    /\ entries \cap {"patch", "race", "crash"} = {} => Working

LEMMA UpkeepIdle == Upkeep!Idle \in Upkeep!Work /\ Upkeep!Idle.stage = "idle"
BY UpkeepNumbers DEF Upkeep!Idle, Upkeep!Work

LEMMA RowsOfUpkeep ==
    /\ \A o \in Upkeep!OrderId : o \in 0..UpkeepOrders
    /\ \A s \in Upkeep!ScheduleId : s \in 0..Schedules /\ s # 0
    /\ 0 \in 0..Schedules /\ 0 \in 0..UpkeepOrders
BY UpkeepNumbers DEF Upkeep!OrderId, Upkeep!ScheduleId

-----------------------------------------------------------------------------
(* The steps. *)

\* A request begins: it knows the status it read.
LEMMA UpkeepAsks ==
    ASSUME UpkeepInv, NEW p \in Session, NEW w \in Upkeep!Work, Upkeep!At(p, "idle"),
           Upkeep!MayStart,
           desk' = [desk EXCEPT ![p] = w], UNCHANGED <<machine, due, wo, job, entries>>,
           \/ /\ w.stage = "order" /\ w.order \in Upkeep!OrderId /\ Upkeep!Exists(w.order)
              /\ w.old \in Upkeep!Status /\ w.to \in Upkeep!Status /\ w.old = wo[w.order].status
              /\ \/ w.to = "COMPLETED"
                 \/ "patch" \in entries /\ ("reopen" \in entries \/ w.old \in Live)
           \/ /\ w.stage = "machine" /\ w.old = machine
              /\ w.old \in Upkeep!MachineStatus /\ w.to \in Upkeep!MachineStatus
    PROVE  UpkeepInv'
<1>1. desk'[p] = w /\ \A q \in Session : q # p => desk'[q] = desk[q]
  BY DEF UpkeepInv, Upkeep!TypeOK
<1>2. desk[p].stage = "idle" /\ (UpkeepAlone => Upkeep!AtRest)
  BY DEF Upkeep!MayStart, UpkeepAlone, Upkeep!At
<1>3. Upkeep!TypeOK'
  BY DEF UpkeepInv, Upkeep!TypeOK
<1>4. AboutOrder'
  BY <1>1 DEF UpkeepInv, AboutOrder, Upkeep!Exists, Upkeep!At
<1>5. UpkeepAlone => UpkeepOneRequest' /\ KnowsStatus'
  BY <1>1, <1>2 DEF UpkeepOneRequest, KnowsStatus, Upkeep!AtRest, Upkeep!At
<1>6. ByTheJob => NothingReopened' /\ OneLive'
  BY <1>1 DEF UpkeepInv, NothingReopened, ByTheJob, OneLive, Upkeep!IsOpen, Upkeep!At
<1>7. entries \cap {"patch", "race", "crash"} = {} => Working'
  BY <1>1, <1>2 DEF UpkeepInv, Working
<1> QED BY <1>3, <1>4, <1>5, <1>6, <1>7 DEF UpkeepInv, UpkeepAlone, ByTheJob, JobRight

LEMMA UpkeepAskSteps ==
    ASSUME UpkeepInv, NEW p \in Session,
           \/ \E to \in Upkeep!MachineStatus : Upkeep!AskMachine(p, to)
           \/ \E o \in Upkeep!OrderId : Upkeep!AskComplete(p, o) \/ \E to \in Upkeep!Status :
                Upkeep!AskPatch(p, o, to)
    PROVE  UpkeepInv'
<1>1. ASSUME NEW to \in Upkeep!MachineStatus, Upkeep!AskMachine(p, to) PROVE UpkeepInv'
  <2> DEFINE w == [Upkeep!Idle EXCEPT !.stage = "machine", !.old = machine, !.to = to]
  <2>1. machine \in Upkeep!MachineStatus
    BY DEF UpkeepInv, Upkeep!TypeOK
  <2>2. w \in Upkeep!Work /\ w.stage = "machine" /\ w.old = machine /\ w.to = to
    BY <2>1, RowsOfUpkeep DEF Upkeep!Idle, Upkeep!Work
  <2>3. /\ desk' = [desk EXCEPT ![p] = w] /\ UNCHANGED <<machine, due, wo, job, entries>>
        /\ Upkeep!At(p, "idle") /\ Upkeep!MayStart
    BY <1>1 DEF Upkeep!AskMachine, Upkeep!Starts, Upkeep!Goto
  <2> HIDE DEF w
  <2> QED BY <2>1, <2>2, <2>3, UpkeepAsks
<1>2. ASSUME NEW o \in Upkeep!OrderId, NEW to \in Upkeep!Status,
             Upkeep!Goto(p, [stage |-> "order", order |-> o, old |-> wo[o].status, to |-> to]),
             UNCHANGED <<machine, due, wo, job, entries>>, Upkeep!At(p, "idle"), Upkeep!MayStart,
               Upkeep!Exists(o),
             \/ to = "COMPLETED"
             \/ "patch" \in entries /\ ("reopen" \in entries \/ wo[o].status \in Live)
      PROVE  UpkeepInv'
  <2> DEFINE w == [stage |-> "order", order |-> o, old |-> wo[o].status, to |-> to]
  <2>1. wo[o].status \in Upkeep!Status
    BY <1>2 DEF UpkeepInv, Upkeep!TypeOK, Upkeep!Order, Upkeep!Exists
  <2>2. /\ w \in Upkeep!Work /\ w.stage = "order" /\ w.order = o /\ w.old = wo[o].status
             /\ w.to = to
    BY <2>1, RowsOfUpkeep DEF Upkeep!Work
  <2>3. desk' = [desk EXCEPT ![p] = w]
    BY <1>2 DEF Upkeep!Goto
  <2> HIDE DEF w
  <2> QED BY <1>2, <2>1, <2>2, <2>3, UpkeepAsks
<1>3. ASSUME NEW o \in Upkeep!OrderId, Upkeep!AskComplete(p, o) PROVE UpkeepInv'
  <2>1. "COMPLETED" \in Upkeep!Status
    BY DEF Upkeep!Status
  <2> QED BY <1>2, <1>3, <2>1 DEF Upkeep!AskComplete
<1>4. ASSUME NEW o \in Upkeep!OrderId, NEW to \in Upkeep!Status, Upkeep!AskPatch(p, o, to)
      PROVE  UpkeepInv'
  <2>1. wo[o].status \in Upkeep!Status
    BY <1>4 DEF Upkeep!AskPatch, UpkeepInv, Upkeep!TypeOK, Upkeep!Order, Upkeep!Exists
  <2>2. "reopen" \in entries \/ wo[o].status \in Live
    BY <1>4, <2>1 DEF Upkeep!AskPatch, Upkeep!Status, Live
  <2> QED BY <1>2, <1>4, <2>2 DEF Upkeep!AskPatch, Upkeep!Starts
<1> QED BY <1>1, <1>3, <1>4

\* An order is opened: by a request, or by the job, which found none.
LEMMA NewOrderStep ==
    ASSUME UpkeepInv, NEW o \in Upkeep!OrderId, Upkeep!Next1(o), NEW s \in 0..Schedules,
           NEW b \in BOOLEAN,
           wo' = [wo EXCEPT ![o] = Upkeep!Opened(s, b)],
           UNCHANGED <<machine, due, entries>>,
           \/ /\ "order" \in entries /\ UNCHANGED <<desk, job>>
           \/ /\ UNCHANGED job /\ s = 0 /\ b = TRUE
              /\ \E p \in Session : Upkeep!At(p, "broken")
                   /\ desk' = [desk EXCEPT ![p] = Upkeep!Idle]
           \/ /\ UNCHANGED desk /\ job.stage = "creating" /\ s = job.at
              /\ job' = [job EXCEPT !.stage = "listed", !.at = 0]
    PROVE  UpkeepInv'
<1>1. /\ wo[o].status = "absent" /\ wo' \in [Upkeep!OrderId -> Upkeep!Order]
      /\ wo'[o].status = "OPEN" /\ wo'[o].schedule = s /\ wo'[o].emergency = b
      /\ \A n \in Upkeep!OrderId : n # o => wo'[n] = wo[n]
  <2> DEFINE x == Upkeep!Opened(s, b)
  <2>1. x \in Upkeep!Order /\ x.status = "OPEN" /\ x.schedule = s /\ x.emergency = b
    BY DEF Upkeep!Opened, Upkeep!Order, Upkeep!Status
  <2>2. wo' = [wo EXCEPT ![o] = x]
    OBVIOUS
  <2> HIDE DEF x
  <2> QED BY <2>1, <2>2 DEF UpkeepInv, Upkeep!TypeOK, Upkeep!Next1, Upkeep!Exists
<1>2. /\ \A p \in Session : desk'[p] = desk[p] \/
           (desk'[p].stage = "idle" /\ desk[p].stage = "broken" /\ s = 0 /\ b = TRUE)
      /\ desk' \in [Session -> Upkeep!Work]
  BY UpkeepIdle DEF UpkeepInv, Upkeep!TypeOK, Upkeep!At
<1>3. /\ job' \in [stage: {"idle", "listed", "creating"}, left: SUBSET Upkeep!ScheduleId, at: 0..Schedules]
      /\ job' = job \/ (job.stage = "creating" /\ job'.stage = "listed" /\ s = job.at)
      /\ UNCHANGED job \/ UNCHANGED desk
  BY RowsOfUpkeep DEF UpkeepInv, Upkeep!TypeOK
<1>4. Upkeep!TypeOK'
  BY <1>1, <1>2, <1>3 DEF UpkeepInv, Upkeep!TypeOK
<1>5. \A n \in Upkeep!OrderId : Upkeep!Exists(n) => Upkeep!Exists(n)' /\ wo'[n] = wo[n]
  BY <1>1 DEF Upkeep!Exists
<1>6. AboutOrder'
  BY <1>2, <1>5 DEF UpkeepInv, AboutOrder, Upkeep!At
<1>7. UpkeepAlone => UpkeepOneRequest' /\ KnowsStatus'
  BY <1>2, <1>3, <1>5 DEF UpkeepInv, UpkeepOneRequest, KnowsStatus, AboutOrder, UpkeepAlone,
     Upkeep!At
<1>8. ByTheJob => NothingReopened' /\ OneLive'
  <2> SUFFICES ASSUME ByTheJob PROVE NothingReopened' /\ OneLive'
    OBVIOUS
  <2>1. NothingReopened'
    BY <1>2 DEF UpkeepInv, NothingReopened, Upkeep!At
  <2>2. /\ s # 0 => job.stage = "creating" /\ s = job.at /\ job'.stage = "listed"
        /\ s = 0 \/ job'.stage # "creating"
    BY <1>3 DEF ByTheJob
  <2>3. \A n \in Upkeep!OrderId : s # 0 /\ wo[n].schedule = s => wo[n].status \notin Live
    BY <2>2 DEF UpkeepInv, OneLive, Upkeep!IsOpen, Live
  <2>4. \A a, c \in Upkeep!OrderId :
          /\ wo'[a].schedule # 0 /\ wo'[a].schedule = wo'[c].schedule
          /\ wo'[a].status \in Live /\ wo'[c].status \in Live
          => a = c
    BY <1>1, <2>3 DEF UpkeepInv, OneLive
  <2>5. ASSUME job'.stage = "creating", NEW n \in Upkeep!OrderId
        PROVE  ~(wo'[n].schedule = job'.at /\ wo'[n].status \in {"OPEN", "IN_PROGRESS"})
    <3>1. job' = job /\ s = 0
      BY <1>3, <2>2, <2>5
    <3>2. job.at # 0
      BY <2>5, <3>1, RowsOfUpkeep DEF UpkeepInv, JobRight
    <3>3. ~(wo[n].schedule = job.at /\ wo[n].status \in {"OPEN", "IN_PROGRESS"})
      BY <2>5, <3>1 DEF UpkeepInv, OneLive, Upkeep!IsOpen
    <3> QED BY <1>1, <3>1, <3>2, <3>3
  <2> QED BY <2>1, <2>4, <2>5 DEF OneLive, Upkeep!IsOpen
<1>9. entries \cap {"patch", "race", "crash"} = {} => Working'
  <2> SUFFICES ASSUME entries \cap {"patch", "race", "crash"} = {}, machine = "MAINTENANCE"
               PROVE  \/ \E n \in Upkeep!OrderId : wo'[n].emergency /\ wo'[n].status = "OPEN"
                      \/ \E p \in Session : desk'[p].stage \in {"broken", "finished"}
    BY DEF Working
  <2>1. CASE \E n \in Upkeep!OrderId : wo[n].emergency /\ wo[n].status = "OPEN"
    BY <1>1, <2>1
  <2>2. ASSUME NEW p \in Session, desk[p].stage \in {"broken", "finished"}
        PROVE  desk'[p].stage \in {"broken", "finished"}
                 \/ (wo'[o].emergency /\ wo'[o].status = "OPEN")
    <3>1. CASE desk'[p] = desk[p]
      BY <2>2, <3>1
    <3>2. CASE b = TRUE
      <4>1. wo'[o].emergency = TRUE /\ wo'[o].status = "OPEN"
        BY <1>1, <3>2
      <4> QED BY <4>1
    <3> QED BY <1>2, <3>1, <3>2
  <2> QED BY <2>1, <2>2 DEF UpkeepInv, Working
<1>10. JobRight'
  BY <1>3 DEF UpkeepInv, JobRight
<1>11. entries' = entries
  OBVIOUS
<1> QED BY <1>4, <1>6, <1>7, <1>8, <1>9, <1>10, <1>11 DEF UpkeepInv, UpkeepAlone, ByTheJob

LEMMA NewOrderSteps ==
    ASSUME UpkeepInv,
           \/ \E p \in Session, o \in Upkeep!OrderId :
                Upkeep!OpenEmergency(p, o) \/ \E s \in 0..Schedules : Upkeep!CreateOrder(p, o, s)
           \/ \E o \in Upkeep!OrderId : Upkeep!Create(o)
    PROVE  UpkeepInv'
<1>1. ASSUME NEW p \in Session, NEW o \in Upkeep!OrderId, Upkeep!OpenEmergency(p, o)
      PROVE  UpkeepInv'
  BY <1>1, RowsOfUpkeep, NewOrderStep DEF Upkeep!OpenEmergency, Upkeep!Done, Upkeep!Goto
<1>2. ASSUME NEW p \in Session, NEW o \in Upkeep!OrderId, NEW s \in 0..Schedules,
             Upkeep!CreateOrder(p, o, s)
      PROVE  UpkeepInv'
  BY <1>2, NewOrderStep DEF Upkeep!CreateOrder, Upkeep!Starts
<1>3. ASSUME NEW o \in Upkeep!OrderId, Upkeep!Create(o) PROVE UpkeepInv'
  <2>1. job.at \in 0..Schedules
    BY DEF UpkeepInv, Upkeep!TypeOK
  <2> QED BY <1>3, <2>1, NewOrderStep DEF Upkeep!Create
<1> QED BY <1>1, <1>2, <1>3

\* An order is written: nothing that was finished is live again.
LEMMA WriteOrderStep ==
    ASSUME UpkeepInv, NEW p \in Session, Upkeep!WriteOrder(p)
    PROVE  UpkeepInv'
<1> DEFINE o == desk[p].order  to == desk[p].to  old == desk[p].old
           a == [Upkeep!Idle EXCEPT !.stage = "finished", !.order = o]
           w == IF to = "COMPLETED" /\ old # "COMPLETED" THEN a ELSE Upkeep!Idle
<1>1. /\ desk[p].stage = "order" /\ o \in Upkeep!OrderId /\ Upkeep!Exists(o)
      /\ old \in Upkeep!Status /\ to \in Upkeep!Status
           /\ (to = "COMPLETED" \/ "patch" \in entries)
  BY DEF Upkeep!WriteOrder, UpkeepInv, AboutOrder, Upkeep!At
<1>2. a \in Upkeep!Work /\ a.stage = "finished" /\ a.order = o
  BY <1>1, RowsOfUpkeep DEF Upkeep!Idle, Upkeep!Work
<1>3. /\ wo' = [wo EXCEPT ![o].status = to] /\ desk' = [desk EXCEPT ![p] = w]
      /\ UNCHANGED <<machine, due, job, entries>>
  BY DEF Upkeep!WriteOrder, Upkeep!Goto, Upkeep!Done
<1> HIDE DEF o, to, old, a
<1>4. /\ w \in Upkeep!Work /\ w.stage \in {"idle", "finished"}
           /\ (w.stage = "finished" => w.order = o)
      /\ w.stage = "idle" => to # "COMPLETED" \/ old = "COMPLETED"
  BY <1>2, UpkeepIdle
<1> HIDE DEF w
<1>5. desk'[p] = w /\ \A q \in Session : q # p => desk'[q] = desk[q]
  BY <1>3 DEF UpkeepInv, Upkeep!TypeOK
<1>6. /\ wo' \in [Upkeep!OrderId -> Upkeep!Order] /\ wo'[o].status = to /\ to # "absent"
      /\ \A n \in Upkeep!OrderId : wo'[n].schedule = wo[n].schedule
                                   /\ wo'[n].emergency = wo[n].emergency
      /\ \A n \in Upkeep!OrderId : n # o => wo'[n].status = wo[n].status
  BY <1>1, <1>3 DEF UpkeepInv, Upkeep!TypeOK, Upkeep!Order, Upkeep!Status
<1>7. Upkeep!TypeOK'
  BY <1>3, <1>4, <1>6 DEF UpkeepInv, Upkeep!TypeOK
<1>8. \A n \in Upkeep!OrderId : Upkeep!Exists(n) => Upkeep!Exists(n)'
  BY <1>6 DEF Upkeep!Exists
<1>9. AboutOrder'
  BY <1>1, <1>3, <1>4, <1>5, <1>8 DEF UpkeepInv, AboutOrder, Upkeep!At
<1>10. ASSUME UpkeepAlone PROVE UpkeepOneRequest' /\ KnowsStatus'
  <2>1. \A q \in Session : q # p => desk'[q].stage = "idle"
    BY <1>1, <1>5, <1>10 DEF UpkeepInv, UpkeepOneRequest, Upkeep!At
  <2>2. job.stage = "idle"
    BY <1>1, <1>10 DEF UpkeepInv, UpkeepOneRequest, Upkeep!At
  <2> QED BY <1>3, <1>4, <1>5, <2>1, <2>2 DEF UpkeepOneRequest, KnowsStatus, Upkeep!At
<1>11. ASSUME ByTheJob PROVE NothingReopened' /\ OneLive'
  <2>1. NothingReopened'
    BY <1>4, <1>5, <1>11 DEF UpkeepInv, NothingReopened, Upkeep!At
  <2>2. to \in Live => wo[o].status \in Live
    <3> SUFFICES ASSUME to \in Live PROVE wo[o].status \in Live
      OBVIOUS
    <3>1. "patch" \in entries /\ old \in Live
      BY <1>1, <1>11 DEF UpkeepInv, NothingReopened, Upkeep!At, Live, to, old
    <3>2. UpkeepAlone
      BY <1>11, <3>1 DEF ByTheJob, UpkeepAlone
    <3> QED BY <1>1, <3>1, <3>2 DEF UpkeepInv, KnowsStatus, Upkeep!At, o, old
  <2>3. \A n \in Upkeep!OrderId : wo'[n].status \in Live => wo[n].status \in Live
    BY <1>6, <2>2
  <2> QED BY <1>3, <1>6, <1>11, <2>1, <2>3 DEF UpkeepInv, OneLive, Upkeep!IsOpen, Live
<1>12. ASSUME entries \cap {"patch", "race", "crash"} = {} PROVE Working'
  <2> SUFFICES ASSUME machine = "MAINTENANCE"
               PROVE  \/ \E n \in Upkeep!OrderId : wo'[n].emergency /\ wo'[n].status = "OPEN"
                      \/ \E q \in Session : desk'[q].stage \in {"broken", "finished"}
    BY <1>3 DEF Working
  <2>1. CASE w.stage = "finished"
    BY <1>5, <2>1
  <2>2. CASE w.stage = "idle"
    <3>1. to = "COMPLETED" /\ old = "COMPLETED" /\ UpkeepAlone
      BY <1>1, <1>4, <1>12, <2>2 DEF UpkeepAlone
    <3>2. wo[o].status = "COMPLETED"
      BY <1>1, <3>1 DEF UpkeepInv, KnowsStatus, Upkeep!At, o, old
    <3>3. \A n \in Upkeep!OrderId : wo'[n].status = wo[n].status
      BY <1>6, <3>1, <3>2
    <3>4. \A q \in Session : desk[q].stage \notin {"broken", "finished"}
      BY <1>1, <3>1 DEF UpkeepInv, UpkeepOneRequest, Upkeep!At
    <3> QED BY <1>6, <1>12, <3>3, <3>4 DEF UpkeepInv, Working
  <2> QED BY <1>4, <2>1, <2>2
<1> QED BY <1>3, <1>7, <1>9, <1>10, <1>11, <1>12 DEF UpkeepInv, UpkeepAlone, ByTheJob, JobRight

\* The machine is written, or runs again; or a request dies.
LEMMA MachineStep ==
    ASSUME UpkeepInv, NEW p \in Session, Upkeep!WriteMachine(p) \/ Upkeep!Finish(p)
           \/ Upkeep!Crash(p)
    PROVE  UpkeepInv'
<1>1. PICK w \in Upkeep!Work :
        /\ desk' = [desk EXCEPT ![p] = w] /\ UNCHANGED <<wo, job, entries>>
        /\ w.stage \in {"idle", "broken"} /\ desk[p].stage # "idle"
        /\ machine' \in Upkeep!MachineStatus /\ due' \subseteq Upkeep!ScheduleId
        /\ \/ machine' # "MAINTENANCE" \/ "crash" \in entries \/ w.stage = "broken"
           \/ desk[p].stage = "machine" /\ desk[p].old = "MAINTENANCE"
  <2>1. CASE Upkeep!WriteMachine(p)
    <3> DEFINE a == [Upkeep!Idle EXCEPT !.stage = "broken"]
    <3>1. a \in Upkeep!Work /\ a.stage = "broken"
      BY RowsOfUpkeep DEF Upkeep!Idle, Upkeep!Work
    <3>2. desk' = [desk EXCEPT ![p] =
             IF Upkeep!BreaksDown(desk[p].old, desk[p].to) THEN a ELSE Upkeep!Idle]
      BY <2>1 DEF Upkeep!WriteMachine, Upkeep!Goto, Upkeep!Done
    <3>3. desk[p].to \in Upkeep!MachineStatus /\ desk[p].stage = "machine"
      BY <2>1 DEF Upkeep!WriteMachine, UpkeepInv, AboutOrder, Upkeep!At
    <3>4. machine' = desk[p].to /\ UNCHANGED <<due, wo, job, entries>>
      BY <2>1 DEF Upkeep!WriteMachine
    <3> HIDE DEF a
    <3> QED BY <3>1, <3>2, <3>3, <3>4, UpkeepIdle DEF Upkeep!BreaksDown, UpkeepInv, Upkeep!TypeOK
  <2>2. CASE Upkeep!Finish(p) \/ Upkeep!Crash(p)
    BY <2>2, UpkeepIdle DEF Upkeep!Finish, Upkeep!Crash, Upkeep!Done, Upkeep!Goto, UpkeepInv,
       Upkeep!TypeOK, Upkeep!MachineStatus, Upkeep!At
  <2> QED BY <2>1, <2>2
<1>2. desk'[p] = w /\ \A q \in Session : q # p => desk'[q] = desk[q]
  BY <1>1 DEF UpkeepInv, Upkeep!TypeOK
<1>3. Upkeep!TypeOK'
  BY <1>1 DEF UpkeepInv, Upkeep!TypeOK
<1>4. AboutOrder'
  BY <1>1, <1>2 DEF UpkeepInv, AboutOrder, Upkeep!Exists, Upkeep!At
<1>5. ASSUME UpkeepAlone PROVE UpkeepOneRequest' /\ KnowsStatus'
  BY <1>1, <1>2, <1>5 DEF UpkeepInv, UpkeepOneRequest, KnowsStatus, Upkeep!At
<1>6. ASSUME ByTheJob PROVE NothingReopened' /\ OneLive'
  BY <1>1, <1>2, <1>6 DEF UpkeepInv, NothingReopened, OneLive, Upkeep!IsOpen, Upkeep!At
<1>7. ASSUME entries \cap {"patch", "race", "crash"} = {} PROVE Working'
  <2> SUFFICES ASSUME machine' = "MAINTENANCE", w.stage # "broken"
               PROVE  \E n \in Upkeep!OrderId : wo'[n].emergency /\ wo'[n].status = "OPEN"
    BY <1>2 DEF Working
  <2>1. desk[p].stage = "machine" /\ desk[p].old = "MAINTENANCE" /\ UpkeepAlone
    BY <1>1, <1>7 DEF UpkeepAlone
  <2>2. machine = "MAINTENANCE" /\ \A q \in Session : desk[q].stage \notin {"broken", "finished"}
    BY <2>1 DEF UpkeepInv, KnowsStatus, UpkeepOneRequest, Upkeep!At
  <2> QED BY <1>1, <1>7, <2>2 DEF UpkeepInv, Working
<1> QED BY <1>1, <1>3, <1>4, <1>5, <1>6, <1>7 DEF UpkeepInv, UpkeepAlone, ByTheJob, JobRight

\* The days pass, and the job lists what is due and looks for open orders.
LEMMA JobStep ==
    ASSUME UpkeepInv, Upkeep!StartJob \/ Upkeep!StopJob \/ \E s \in Upkeep!ScheduleId :
           Upkeep!FallDue(s) \/ Upkeep!Look(s)
    PROVE  UpkeepInv'
<1>1. /\ UNCHANGED <<machine, wo, desk, entries>> /\ due' \subseteq Upkeep!ScheduleId
      /\ job' \in [stage: {"idle", "listed", "creating"}, left: SUBSET Upkeep!ScheduleId, at: 0..Schedules]
      /\ job.stage = "idle" /\ job'.stage # "idle" => Upkeep!MayStart
      /\ \/ job' = job \/ job'.stage # "creating"
         \/ job'.at \in Upkeep!ScheduleId /\ ~Upkeep!HasOpen(job'.at) /\ job.stage = "listed"
  <2>1. CASE Upkeep!StartJob \/ Upkeep!StopJob
    BY <2>1, RowsOfUpkeep DEF Upkeep!StartJob, Upkeep!StopJob, Upkeep!NoJob, UpkeepInv,
       Upkeep!TypeOK
  <2>2. ASSUME NEW s \in Upkeep!ScheduleId, Upkeep!FallDue(s)
        PROVE  UNCHANGED <<machine, wo, job, desk, entries>>
                                                                    /\ due' \subseteq Upkeep!ScheduleId
    BY <2>2 DEF Upkeep!FallDue, UpkeepInv, Upkeep!TypeOK
  <2>3. CASE \E s \in Upkeep!ScheduleId : Upkeep!Look(s)
    <3> PICK s \in Upkeep!ScheduleId : Upkeep!Look(s)
      BY <2>3
    <3>1. /\ UNCHANGED <<machine, due, wo, desk, entries>> /\ job.stage = "listed"
          /\ job' = IF Upkeep!HasOpen(s) THEN [job EXCEPT !.left = @ \ {s}]
                    ELSE [stage |-> "creating", left |-> job.left \ {s}, at |-> s]
      BY DEF Upkeep!Look
    <3>2. CASE Upkeep!HasOpen(s)
      BY <3>1, <3>2 DEF UpkeepInv, Upkeep!TypeOK
    <3>3. CASE ~Upkeep!HasOpen(s)
      BY <3>1, <3>3, RowsOfUpkeep DEF UpkeepInv, Upkeep!TypeOK
    <3> QED BY <3>2, <3>3
  <2>4. job \in [stage: {"idle", "listed", "creating"}, left: SUBSET Upkeep!ScheduleId, at: 0..Schedules]
    BY DEF UpkeepInv, Upkeep!TypeOK
  <2> QED BY <2>1, <2>2, <2>3, <2>4
<1>2. Upkeep!TypeOK' /\ AboutOrder'
  BY <1>1 DEF UpkeepInv, Upkeep!TypeOK, AboutOrder, Upkeep!Exists, Upkeep!At
<1>3. JobRight'
  BY <1>1 DEF UpkeepInv, JobRight
<1>4. ASSUME UpkeepAlone PROVE UpkeepOneRequest' /\ KnowsStatus'
  BY <1>1, <1>4 DEF UpkeepInv, UpkeepOneRequest, KnowsStatus, Upkeep!MayStart, Upkeep!AtRest,
     UpkeepAlone, Upkeep!At
<1>5. ASSUME ByTheJob PROVE NothingReopened' /\ OneLive'
  <2>1. NothingReopened'
    BY <1>1, <1>5 DEF UpkeepInv, NothingReopened, Upkeep!At
  <2>2. ASSUME job'.stage = "creating", NEW n \in Upkeep!OrderId
        PROVE  ~(wo'[n].schedule = job'.at /\ wo'[n].status \in {"OPEN", "IN_PROGRESS"})
    BY <1>1, <1>5, <2>2 DEF UpkeepInv, OneLive, Upkeep!IsOpen, Upkeep!HasOpen
  <2> QED BY <1>1, <1>5, <2>1, <2>2 DEF UpkeepInv, OneLive, Upkeep!IsOpen
<1>6. ASSUME entries \cap {"patch", "race", "crash"} = {} PROVE Working'
  BY <1>1, <1>6 DEF UpkeepInv, Working
<1> QED BY <1>1, <1>2, <1>3, <1>4, <1>5, <1>6 DEF UpkeepInv, UpkeepAlone, ByTheJob

-----------------------------------------------------------------------------
(* The machine and its orders. *)

LEMMA UpkeepStarts == Upkeep!Init => UpkeepInv
<1> SUFFICES ASSUME Upkeep!Init PROVE UpkeepInv
  OBVIOUS
<1>1. \A p \in Session : desk[p] = Upkeep!Idle /\ desk[p].stage = "idle"
  BY UpkeepIdle DEF Upkeep!Init
<1>2. /\ Upkeep!NoOrder \in Upkeep!Order /\ Upkeep!NoOrder.status = "absent"
      /\ Upkeep!NoJob \in [stage: {"idle", "listed", "creating"}, left: SUBSET Upkeep!ScheduleId, at: 0..Schedules]
      /\ Upkeep!NoJob.stage = "idle"
  BY RowsOfUpkeep DEF Upkeep!NoOrder, Upkeep!Order, Upkeep!NoJob
<1>3. \A o \in Upkeep!OrderId : wo[o] = Upkeep!NoOrder
  BY DEF Upkeep!Init
<1>4. Upkeep!TypeOK
  BY <1>2, UpkeepIdle DEF Upkeep!Init, Upkeep!TypeOK, Upkeep!MachineStatus
<1>5. AboutOrder /\ UpkeepOneRequest /\ KnowsStatus /\ NothingReopened
  BY <1>1 DEF AboutOrder, UpkeepOneRequest, KnowsStatus, NothingReopened, Upkeep!At
<1>6. JobRight /\ OneLive
  BY <1>2, <1>3 DEF Upkeep!Init, JobRight, OneLive, Live
<1> QED BY <1>4, <1>5, <1>6 DEF UpkeepInv, Working, Upkeep!Init

LEMMA UpkeepStep == UpkeepInv /\ [Upkeep!Next]_(Upkeep!vars) => UpkeepInv'
<1> SUFFICES ASSUME UpkeepInv, [Upkeep!Next]_(Upkeep!vars) PROVE UpkeepInv'
  OBVIOUS
<1>1. CASE UNCHANGED Upkeep!vars
  BY <1>1 DEF Upkeep!vars, UpkeepInv, Upkeep!TypeOK, AboutOrder, JobRight, UpkeepAlone,
     UpkeepOneRequest, KnowsStatus,
     ByTheJob, NothingReopened, OneLive, Working, Upkeep!IsOpen, Upkeep!Exists, Upkeep!At
<1> QED BY <1>1, UpkeepAskSteps, NewOrderSteps, WriteOrderStep, MachineStep,
          JobStep DEF Upkeep!Next

LEMMA UpkeepKeeps == UpkeepInv => Upkeep!OneOpenOrder /\ Upkeep!DownIsWorked
<1> SUFFICES ASSUME UpkeepInv PROVE Upkeep!OneOpenOrder /\ Upkeep!DownIsWorked
  OBVIOUS
<1>1. Upkeep!OneOpenOrder
  BY DEF Upkeep!OneOpenOrder, UpkeepInv, ByTheJob, OneLive, Live
<1>2. Upkeep!DownIsWorked
  BY DEF Upkeep!DownIsWorked, UpkeepInv, Working, Upkeep!AtRest, Upkeep!At
<1> QED BY <1>1, <1>2

-----------------------------------------------------------------------------
(* Inspections and what follows them. *)

LEMMA QualityCardinality == \A S : Quality!Cardinality(S) = Cardinality(S)
BY DEF Quality!Cardinality, Cardinality

\* What the constants of this part are.
LEMMA QualityNumbers ==
    Ncs \in Nat /\ Capas \in Nat
BY BackOfficeAssumption

-----------------------------------------------------------------------------
(* The invariant. *)

\* The rows a request is about are there.
AboutRows ==
    \A p \in Session :
        /\ desk[p].stage \in {"nc", "saved"} => desk[p].at \in Quality!NcId
             /\ Quality!HasNc(desk[p].at)
        /\ desk[p].stage \in {"capa", "closed"} =>
             desk[p].at \in Quality!CapaId /\ Quality!HasCapa(desk[p].at)
        /\ Quality!At(p, "inspect") => desk[p].to \in Quality!Result
        /\ Quality!At(p, "nc") => desk[p].to \in Quality!NcStatus
        /\ Quality!At(p, "capa") => desk[p].to \in Quality!CapaStatus
OfNcs ==
    /\ \A c \in Quality!CapaId : Quality!HasCapa(c) => capa[c].nc \in Quality!NcId
         /\ Quality!HasNc(capa[c].nc)
    /\ \A n \in Quality!NcId : ~Quality!HasNc(n) => ~nc[n].noted

\* A failure is recorded, or a request is about to; one at a time it finds none.
Recorded ==
    "crash" \notin entries =>
        (inspection = "FAIL" =>
           Quality!Noted # {} \/ \E p \in Session : desk[p].stage \in {"inspected", "record"})
RecordedOnce ==
    "race" \notin entries =>
        /\ \A p, q \in Session : ~Quality!At(p, "idle") /\ ~Quality!At(q, "idle") => p = q
        /\ \A n, m \in Quality!Noted : n = m
        /\ \A p \in Session : Quality!At(p, "record") => Quality!Noted = {}

\* An open non-conformance is tended to, or a request is about to.
OpenTended ==
    "crash" \notin entries =>
        \A n \in Quality!NcId : nc[n].status = "OPEN" =>
            Quality!Tended(n) \/ \E p \in Session : Quality!At(p, "saved") /\ desk[p].at = n

\* What is resolved stays so, and what a closed corrective action is for is
\* resolved, or a request is about to.
ClosedResolved ==
    "patch" \notin entries =>
        /\ \A p \in Session :
             /\ Quality!At(p, "nc") => desk[p].to = "RESOLVED"
             /\ desk[p].stage \in {"capa", "closed"} /\ desk[p].cached = "RESOLVED" =>
                  nc[capa[desk[p].at].nc].status = "RESOLVED"
        /\ "crash" \notin entries =>
             \A c \in Quality!CapaId : capa[c].status = "CLOSED" =>
                 \/ nc[capa[c].nc].status = "RESOLVED"
                 \/ \E p \in Session : Quality!At(p, "closed") /\ desk[p].at = c

QualityInv ==
    /\ Quality!TypeOK /\ AboutRows /\ OfNcs
    /\ Recorded /\ RecordedOnce /\ OpenTended /\ ClosedResolved

-----------------------------------------------------------------------------
(* The steps. *)

LEMMA QualityIdle == Quality!Idle \in Quality!Work /\ Quality!Idle.stage = "idle"
    /\ Quality!Idle.at = 0
BY QualityNumbers DEF Quality!Idle, Quality!Work

LEMMA RowsFit ==
    /\ \A n \in Quality!NcId : n \in 0..(Ncs + Capas)
    /\ \A c \in Quality!CapaId : c \in 0..(Ncs + Capas)
BY QualityNumbers DEF Quality!NcId, Quality!CapaId

\* A request begins.
LEMMA QualityAskStep ==
    ASSUME QualityInv, NEW p \in Session, NEW w \in Quality!Work, Quality!MayStart(p),
           Quality!Goto(p, w),
           UNCHANGED <<inspection, nc, capa, entries>>,
           \/ w.stage = "inspect" /\ w.to \in Quality!Result
           \/ /\ w.stage = "nc" /\ w.at \in Quality!NcId /\ Quality!HasNc(w.at)
                /\ w.to \in Quality!NcStatus
              /\ "patch" \notin entries => w.to = "RESOLVED"
           \/ /\ w.stage = "capa" /\ w.at \in Quality!CapaId /\ Quality!HasCapa(w.at)
                /\ w.to \in Quality!CapaStatus
              /\ w.cached = "RESOLVED" => nc[capa[w.at].nc].status = "RESOLVED"
    PROVE  QualityInv'
<1>1. desk'[p] = w /\ \A q \in Session : q # p => desk'[q] = desk[q]
  BY DEF QualityInv, Quality!TypeOK, Quality!Goto
<1>2. Quality!TypeOK'
  BY DEF QualityInv, Quality!TypeOK, Quality!Goto
<1>3. AboutRows'
  BY <1>1 DEF QualityInv, AboutRows, Quality!HasNc, Quality!HasCapa, Quality!At
<1>4. OfNcs'
  BY DEF QualityInv, OfNcs, Quality!HasNc, Quality!HasCapa
<1>5. desk[p].stage = "idle" /\ ("race" \in entries \/ \A q \in Session : desk[q].stage = "idle")
  BY DEF Quality!MayStart, Quality!AtRest, Quality!At
<1>6. Recorded'
  BY <1>1, <1>5 DEF QualityInv, Recorded, Quality!Noted
<1>7. RecordedOnce'
  BY <1>1, <1>5 DEF QualityInv, RecordedOnce, Quality!Noted, Quality!At
<1>8. OpenTended'
  BY <1>1, <1>5 DEF QualityInv, OpenTended, Quality!Tended, Quality!HasCapa, Quality!At
<1>9. ClosedResolved'
  BY <1>1, <1>5 DEF QualityInv, ClosedResolved, Quality!At
<1> QED BY <1>2, <1>3, <1>4, <1>6, <1>7, <1>8, <1>9 DEF QualityInv

LEMMA AskSteps ==
    ASSUME QualityInv, NEW p \in Session,
           \/ \E to \in Quality!Result : Quality!AskInspect(p, to)
           \/ \E n \in Quality!NcId, to \in Quality!NcStatus : Quality!AskNc(p, n, to)
           \/ \E c \in Quality!CapaId : Quality!AskClose(p, c) \/ Quality!AskVerify(p, c)
    PROVE  QualityInv'
<1>1. ASSUME NEW to \in Quality!Result, Quality!AskInspect(p, to) PROVE QualityInv'
  <2> DEFINE w == [Quality!Idle EXCEPT !.stage = "inspect", !.to = to]
  <2>1. w \in Quality!Work /\ w.stage = "inspect" /\ w.to = to
    BY QualityIdle DEF Quality!Idle, Quality!Work
  <2>2. Quality!MayStart(p) /\ Quality!Goto(p, w) /\ UNCHANGED <<inspection, nc, capa, entries>>
    BY <1>1 DEF Quality!AskInspect
  <2> HIDE DEF w
  <2> QED BY <2>1, <2>2, QualityAskStep
<1>2. ASSUME NEW n \in Quality!NcId, NEW to \in Quality!NcStatus, Quality!AskNc(p, n, to)
      PROVE  QualityInv'
  <2> DEFINE w == [Quality!Idle EXCEPT !.stage = "nc", !.at = n, !.to = to]
  <2>1. w \in Quality!Work /\ w.stage = "nc" /\ w.to = to /\ w.at = n
    BY RowsFit DEF Quality!Idle, Quality!Work
  <2>2. /\ Quality!MayStart(p) /\ Quality!Goto(p, w)
             /\ UNCHANGED <<inspection, nc, capa, entries>> /\ Quality!HasNc(n)
        /\ "patch" \notin entries => to = "RESOLVED"
    BY <1>2 DEF Quality!AskNc
  <2> HIDE DEF w
  <2> QED BY <2>1, <2>2, QualityAskStep
<1>3. ASSUME NEW c \in Quality!CapaId, Quality!AskClose(p, c) PROVE QualityInv'
  <2> DEFINE w == [stage |-> "capa", at |-> c, to |-> "CLOSED", cached |-> nc[capa[c].nc].status]
  <2>1. Quality!MayStart(p) /\ Quality!Goto(p, w) /\ UNCHANGED <<inspection, nc, capa, entries>>
          /\ Quality!HasCapa(c)
    BY <1>3 DEF Quality!AskClose
  <2>2. nc[capa[c].nc].status \in Quality!NcStatus
    BY <2>1 DEF QualityInv, OfNcs, Quality!HasNc, Quality!TypeOK, Quality!Nc
  <2>3. /\ w \in Quality!Work /\ w.stage = "capa" /\ w.to = "CLOSED" /\ w.at = c
        /\ w.cached = nc[capa[c].nc].status
    BY <2>2, RowsFit DEF Quality!Work, Quality!NcStatus
  <2>4. "CLOSED" \in Quality!CapaStatus
    BY DEF Quality!CapaStatus
  <2> HIDE DEF w
  <2> QED BY <2>1, <2>3, <2>4, QualityAskStep
<1>4. ASSUME NEW c \in Quality!CapaId, Quality!AskVerify(p, c) PROVE QualityInv'
  <2> DEFINE w == [Quality!Idle EXCEPT !.stage = "capa", !.at = c, !.to = "OPEN"]
  <2>1. Quality!MayStart(p) /\ Quality!Goto(p, w) /\ UNCHANGED <<inspection, nc, capa, entries>>
          /\ Quality!HasCapa(c)
    BY <1>4 DEF Quality!AskVerify
  <2>2. w \in Quality!Work /\ w.stage = "capa" /\ w.to = "OPEN" /\ w.at = c /\ w.cached = "none"
    BY RowsFit DEF Quality!Idle, Quality!Work, Quality!NcStatus
  <2>3. "OPEN" \in Quality!CapaStatus
    BY DEF Quality!CapaStatus
  <2> HIDE DEF w
  <2> QED BY <2>1, <2>2, <2>3, QualityAskStep
<1> QED BY <1>1, <1>2, <1>3, <1>4

\* The inspection is written, and its non-conformance looked for.
LEMMA InspectionStep ==
    ASSUME QualityInv, NEW p \in Session, Quality!WriteResult(p) \/ Quality!LookForNc(p)
    PROVE  QualityInv'
<1>1. PICK w \in Quality!Work :
        /\ desk' = [desk EXCEPT ![p] = w]
        /\ w.stage \in {"idle", "inspected", "record"} /\ UNCHANGED <<nc, capa, entries>>
        /\ desk[p].stage \in {"inspect", "inspected"}
        /\ inspection' \in Quality!Result
        /\ \/ inspection' # "FAIL" \/ w.stage = "inspected"
           \/ Quality!Noted # {} \/ w.stage = "record"
        /\ w.stage = "record" => Quality!Noted = {}
  <2> DEFINE a == [Quality!Idle EXCEPT !.stage = "inspected"]  b == [Quality!Idle EXCEPT !.stage = "record"]
  <2>1. a \in Quality!Work /\ b \in Quality!Work /\ a.stage = "inspected" /\ b.stage = "record"
    BY QualityIdle DEF Quality!Idle, Quality!Work
  <2>2. CASE Quality!WriteResult(p)
    <3>1. inspection' = desk[p].to /\ desk[p].to \in Quality!Result /\ desk[p].stage = "inspect"
      BY <2>2 DEF Quality!WriteResult, QualityInv, AboutRows, Quality!At
    <3>2. desk' = [desk EXCEPT ![p] = IF desk[p].to = "FAIL" THEN a ELSE Quality!Idle]
      BY <2>2 DEF Quality!WriteResult, Quality!Goto, Quality!Done
    <3> HIDE DEF a, b
    <3> QED BY <2>1, <2>2, <3>1, <3>2, QualityIdle DEF Quality!WriteResult
  <2>3. CASE Quality!LookForNc(p)
    <3>1. desk' = [desk EXCEPT ![p] = IF Quality!Noted = {} THEN b ELSE Quality!Idle]
      BY <2>3 DEF Quality!LookForNc, Quality!Goto, Quality!Done
    <3> HIDE DEF a, b
    <3>2. inspection' = inspection /\ inspection \in Quality!Result
      BY <2>3 DEF Quality!LookForNc, QualityInv, Quality!TypeOK
    <3> QED BY <2>1, <2>3, <3>1, <3>2, QualityIdle DEF Quality!LookForNc, Quality!At
  <2> QED BY <2>2, <2>3
<1>2. desk'[p] = w /\ \A q \in Session : q # p => desk'[q] = desk[q]
  BY <1>1 DEF QualityInv, Quality!TypeOK
<1>3. Quality!TypeOK'
  BY <1>1 DEF QualityInv, Quality!TypeOK
<1>4. AboutRows'
  BY <1>1, <1>2 DEF QualityInv, AboutRows, Quality!HasNc, Quality!HasCapa, Quality!At
<1>5. OfNcs'
  BY <1>1 DEF QualityInv, OfNcs, Quality!HasNc, Quality!HasCapa
<1>6. Recorded'
  BY <1>1, <1>2 DEF Recorded, Quality!Noted
<1>7. RecordedOnce'
  BY <1>1, <1>2 DEF QualityInv, RecordedOnce, Quality!Noted, Quality!At
<1>8. OpenTended'
  BY <1>1, <1>2 DEF QualityInv, OpenTended, Quality!Tended, Quality!HasCapa, Quality!At
<1>9. ClosedResolved'
  BY <1>1, <1>2 DEF QualityInv, ClosedResolved, Quality!At
<1> QED BY <1>3, <1>4, <1>5, <1>6, <1>7, <1>8, <1>9 DEF QualityInv

\* A non-conformance is new, and perhaps its corrective action.
LEMMA NewNcStep ==
    ASSUME QualityInv, NEW p \in Session, NEW n \in Quality!NcId, Quality!NextNc(n),
           NEW w \in Quality!Work,
           UNCHANGED <<inspection, entries>>, desk' = [desk EXCEPT ![p] = w],
           \/ /\ nc' = [nc EXCEPT ![n] = [status |-> "OPEN", noted |-> FALSE]]
              /\ Quality!MayStart(p) /\ w.stage = "saved" /\ w.at = n /\ UNCHANGED capa
           \/ /\ nc' = [nc EXCEPT ![n] = [status |-> "OPEN", noted |-> TRUE]]
              /\ Quality!At(p, "record") /\ w.stage = "idle"
              /\ \E c \in Quality!CapaId : Quality!NextCapa(c) /\ Quality!OpenCapa(n, c)
    PROVE  QualityInv'
<1>1. desk'[p] = w /\ \A q \in Session : q # p => desk'[q] = desk[q]
  BY DEF QualityInv, Quality!TypeOK
<1>2. /\ nc[n].status = "absent" /\ nc'[n].status = "OPEN" /\ Quality!HasNc(n)'
      /\ \A m \in Quality!NcId : m # n => nc'[m] = nc[m]
      /\ nc' \in [Quality!NcId -> Quality!Nc]
  <2>1. nc[n].status = "absent" /\ nc \in [Quality!NcId -> Quality!Nc]
    BY DEF QualityInv, Quality!TypeOK, Quality!NextNc, Quality!HasNc
  <2>2. PICK x \in Quality!Nc : x.status = "OPEN" /\ nc' = [nc EXCEPT ![n] = x]
    BY DEF Quality!Nc, Quality!NcStatus
  <2> QED BY <2>1, <2>2 DEF Quality!HasNc
<1>3. /\ \A c \in Quality!CapaId : Quality!HasCapa(c) => capa'[c] = capa[c]
      /\ \A c \in Quality!CapaId : Quality!HasCapa(c)' =>
           Quality!HasCapa(c) \/ (capa'[c].nc = n /\ capa'[c].status = "OPEN")
      /\ capa' \in [Quality!CapaId -> Quality!Capa]
      /\ w.stage = "idle" => \E c \in Quality!CapaId : Quality!HasCapa(c)' /\ capa'[c].nc = n
  <2>1. CASE UNCHANGED capa /\ w.stage # "idle"
    BY <2>1 DEF QualityInv, Quality!TypeOK, Quality!HasCapa
  <2>2. ASSUME NEW c \in Quality!CapaId, Quality!NextCapa(c), Quality!OpenCapa(n, c)
        PROVE  /\ \A b \in Quality!CapaId : Quality!HasCapa(b) => capa'[b] = capa[b]
               /\ \A b \in Quality!CapaId : Quality!HasCapa(b)' =>
                    Quality!HasCapa(b) \/ (capa'[b].nc = n /\ capa'[b].status = "OPEN")
               /\ capa' \in [Quality!CapaId -> Quality!Capa]
               /\ Quality!HasCapa(c)' /\ capa'[c].nc = n
    <3>1. n \in 0..Ncs /\ n \in Nat
      BY QualityNumbers DEF Quality!NcId
    <3>2. capa' \in [Quality!CapaId -> Quality!Capa] /\ capa'[c].nc = n
            /\ capa'[c].status = "OPEN"
      BY <2>2, <3>1 DEF Quality!OpenCapa, QualityInv, Quality!TypeOK, Quality!Capa,
         Quality!CapaStatus
    <3>3. \A b \in Quality!CapaId : b # c => capa'[b] = capa[b]
      BY <2>2 DEF Quality!OpenCapa, QualityInv, Quality!TypeOK
    <3> QED BY <2>2, <3>2, <3>3 DEF Quality!NextCapa, Quality!HasCapa
  <2> QED BY <2>1, <2>2
<1>4. Quality!TypeOK'
  BY <1>2, <1>3 DEF QualityInv, Quality!TypeOK
<1>5. \A m \in Quality!NcId : Quality!HasNc(m) => Quality!HasNc(m)' /\ nc'[m] = nc[m] /\ m # n
  BY <1>2 DEF Quality!HasNc
<1>6. \A c \in Quality!CapaId : Quality!HasCapa(c) => Quality!HasCapa(c)'
  BY <1>3 DEF Quality!HasCapa
<1>7. AboutRows'
  BY <1>1, <1>2, <1>5, <1>6 DEF QualityInv, AboutRows, Quality!At
<1>8. OfNcs'
  BY <1>2, <1>3, <1>5 DEF QualityInv, OfNcs
<1>9. /\ \A m \in Quality!NcId : m # n => (m \in Quality!Noted' <=> m \in Quality!Noted)
      /\ n \notin Quality!Noted
      /\ w.stage = "idle" => n \in Quality!Noted'
  BY <1>2 DEF Quality!Noted, QualityInv, OfNcs, Quality!HasNc
<1>10. Recorded'
  <2> SUFFICES ASSUME "crash" \notin entries, inspection = "FAIL"
               PROVE  Quality!Noted' # {} \/ \E q \in Session :
                        desk'[q].stage \in {"inspected", "record"}
    BY DEF Recorded
  <2>1. CASE w.stage = "idle"
    BY <1>9, <2>1
  <2>2. CASE w.stage # "idle"
    <3>1. desk[p].stage = "idle"
      BY <2>2 DEF Quality!MayStart, Quality!At
    <3>2. CASE Quality!Noted # {}
      <4>1. PICK m \in Quality!Noted : m \in Quality!NcId
        BY <3>2 DEF Quality!Noted
      <4> QED BY <1>9, <4>1
    <3>3. CASE Quality!Noted = {}
      <4>1. PICK q \in Session : desk[q].stage \in {"inspected", "record"}
        BY <3>3 DEF QualityInv, Recorded
      <4> QED BY <1>1, <3>1, <4>1
    <3> QED BY <3>2, <3>3
  <2> QED BY <2>1, <2>2
<1>11. RecordedOnce'
  <2> SUFFICES ASSUME "race" \notin entries PROVE RecordedOnce'
    BY DEF RecordedOnce
  <2>1. \A q \in Session : q # p => desk'[q].stage = "idle"
    BY <1>1 DEF QualityInv, RecordedOnce, Quality!MayStart, Quality!AtRest, Quality!At
  <2>2. CASE w.stage = "idle"
    <3>1. Quality!Noted = {}
      BY <2>2 DEF QualityInv, RecordedOnce
    <3>2. \A m \in Quality!Noted' : m = n
      BY <1>9, <3>1 DEF Quality!Noted
    <3> QED BY <1>1, <2>1, <2>2, <3>2 DEF RecordedOnce, Quality!At
  <2>3. CASE w.stage # "idle"
    <3>1. n \notin Quality!Noted' /\ w.stage = "saved"
      BY <1>2, <2>3 DEF Quality!Noted, QualityInv, Quality!TypeOK, Quality!Nc
    <3>2. Quality!Noted' = Quality!Noted
      BY <1>9, <3>1 DEF Quality!Noted
    <3> QED BY <1>1, <2>1, <3>1, <3>2 DEF QualityInv, RecordedOnce, Quality!At
  <2> QED BY <2>2, <2>3
<1>12. OpenTended'
  <2> SUFFICES ASSUME "crash" \notin entries, NEW m \in Quality!NcId, nc'[m].status = "OPEN"
               PROVE  Quality!Tended(m)' \/ \E q \in Session : Quality!At(q, "saved")'
                        /\ desk'[q].at = m
    BY DEF OpenTended
  <2>1. CASE m = n
    BY <1>1, <1>3, <2>1 DEF Quality!Tended, Quality!At
  <2>2. CASE m # n
    <3>1. CASE Quality!Tended(m)
      BY <1>3, <1>6, <3>1 DEF Quality!Tended
    <3>2. CASE ~Quality!Tended(m)
      BY <1>1, <1>2, <2>2, <3>2 DEF QualityInv, OpenTended, Quality!At, Quality!MayStart
    <3> QED BY <3>1, <3>2
  <2> QED BY <2>1, <2>2
<1>13. ClosedResolved'
  <2> SUFFICES ASSUME "patch" \notin entries PROVE ClosedResolved'
    BY DEF ClosedResolved
  <2>1. \A q \in Session : q # p /\ desk[q].stage \in {"capa", "closed"} =>
          /\ capa'[desk[q].at] = capa[desk[q].at]
          /\ nc'[capa[desk[q].at].nc] = nc[capa[desk[q].at].nc]
    BY <1>3, <1>5 DEF QualityInv, AboutRows, OfNcs
  <2>2. \A c \in Quality!CapaId : capa'[c].status = "CLOSED" =>
          Quality!HasCapa(c) /\ capa'[c] = capa[c] /\ nc'[capa[c].nc] = nc[capa[c].nc]
    BY <1>3, <1>5 DEF QualityInv, OfNcs, Quality!HasCapa
  <2>3. /\ desk[p].stage # "closed" /\ w.stage \notin {"nc", "capa", "closed"}
        /\ \A q \in Session : q # p => desk'[q] = desk[q]
        /\ desk'[p] = w
    BY <1>1 DEF Quality!MayStart, Quality!At
  <2> QED BY <2>1, <2>2, <2>3 DEF QualityInv, ClosedResolved, Quality!At
<1> QED BY <1>4, <1>7, <1>8, <1>10, <1>11, <1>12, <1>13 DEF QualityInv

\* The status of a non-conformance is written.
LEMMA WriteNcStep ==
    ASSUME QualityInv, NEW p \in Session, NEW n \in Quality!NcId, Quality!HasNc(n),
           NEW to \in Quality!NcStatus,
           NEW w \in Quality!Work, w.stage \in {"idle", "saved"},
           to = "OPEN" => w.stage = "saved", w.stage = "saved" => w.at = n,
           "patch" \notin entries => to = "RESOLVED", ~Quality!At(p, "idle"),
             ~Quality!At(p, "saved"),
           desk[p].stage \notin {"inspected", "record"},
           Quality!At(p, "closed") => capa[desk[p].at].nc = n /\ to = "RESOLVED",
           nc' = [nc EXCEPT ![n].status = to], desk' = [desk EXCEPT ![p] = w],
           UNCHANGED <<inspection, capa, entries>>
    PROVE  QualityInv'
<1>1. desk'[p] = w /\ \A q \in Session : q # p => desk'[q] = desk[q]
  BY DEF QualityInv, Quality!TypeOK
<1>2. /\ nc'[n].status = to /\ nc'[n].noted = nc[n].noted
      /\ \A m \in Quality!NcId : m # n => nc'[m] = nc[m]
      /\ nc' \in [Quality!NcId -> Quality!Nc]
  BY DEF QualityInv, Quality!TypeOK, Quality!Nc
<1>3. Quality!TypeOK'
  BY <1>2 DEF QualityInv, Quality!TypeOK
<1>4. \A m \in Quality!NcId : (Quality!HasNc(m)' <=> Quality!HasNc(m))
        /\ nc'[m].noted = nc[m].noted
  BY <1>2 DEF Quality!HasNc, Quality!NcStatus
<1>5. Quality!Noted' = Quality!Noted
  BY <1>4 DEF Quality!Noted
<1>6. AboutRows'
  BY <1>1, <1>4 DEF QualityInv, AboutRows, Quality!HasCapa, Quality!At
<1>7. OfNcs'
  BY <1>4 DEF QualityInv, OfNcs, Quality!HasCapa
<1>8. Recorded'
  BY <1>1, <1>5 DEF QualityInv, Recorded, Quality!At
<1>9. RecordedOnce'
  BY <1>1, <1>5 DEF QualityInv, RecordedOnce, Quality!At
<1>10. OpenTended'
  BY <1>1, <1>2 DEF QualityInv, OpenTended, Quality!Tended, Quality!HasCapa, Quality!At
<1>11. ClosedResolved'
  <2> SUFFICES ASSUME "patch" \notin entries PROVE ClosedResolved'
    BY DEF ClosedResolved
  <2>1. nc'[n].status = "RESOLVED" /\ w.stage \notin {"nc", "capa", "closed"}
    BY <1>2
  <2>2. \A q \in Session : desk[q].stage \in {"capa", "closed"} =>
          capa[desk[q].at].nc \in Quality!NcId
    BY DEF QualityInv, AboutRows, OfNcs
  <2>3. \A m \in Quality!NcId : nc[m].status = "RESOLVED" => nc'[m].status = "RESOLVED"
    BY <1>2, <2>1
  <2>4. \A q \in Session :
         /\ Quality!At(q, "nc")' => desk'[q].to = "RESOLVED"
         /\ desk'[q].stage \in {"capa", "closed"} /\ desk'[q].cached = "RESOLVED" =>
              nc'[capa'[desk'[q].at].nc].status = "RESOLVED"
    BY <1>1, <2>1, <2>2, <2>3 DEF QualityInv, ClosedResolved, Quality!At
  <2>5. ASSUME "crash" \notin entries, NEW c \in Quality!CapaId, capa'[c].status = "CLOSED"
        PROVE  \/ nc'[capa'[c].nc].status = "RESOLVED"
               \/ \E q \in Session : Quality!At(q, "closed")' /\ desk'[q].at = c
    <3>1. capa[c].nc \in Quality!NcId /\ capa[c].status = "CLOSED"
      BY <2>5 DEF QualityInv, OfNcs, Quality!HasCapa
    <3>2. CASE nc[capa[c].nc].status = "RESOLVED"
      BY <2>3, <3>1, <3>2
    <3>3. CASE nc[capa[c].nc].status # "RESOLVED"
      <4>1. PICK q \in Session : Quality!At(q, "closed") /\ desk[q].at = c
        BY <2>5, <3>1, <3>3 DEF QualityInv, ClosedResolved
      <4> QED BY <1>1, <1>2, <4>1 DEF Quality!At
    <3> QED BY <3>2, <3>3
  <2> QED BY <2>4, <2>5 DEF ClosedResolved
<1> QED BY <1>3, <1>6, <1>7, <1>8, <1>9, <1>10, <1>11 DEF QualityInv

LEMMA NcSteps ==
    ASSUME QualityInv, NEW p \in Session,
           \/ Quality!WriteNc(p) \/ Quality!ResolveNc(p)
           \/ \E n \in Quality!NcId : Quality!CreateNc(p, n) \/ \E c \in Quality!CapaId :
                Quality!RecordNc(p, n, c)
    PROVE  QualityInv'
<1>1. ASSUME NEW n \in Quality!NcId, Quality!CreateNc(p, n) PROVE QualityInv'
  <2> DEFINE w == [Quality!Idle EXCEPT !.stage = "saved", !.at = n]
  <2>1. w \in Quality!Work /\ w.stage = "saved" /\ w.at = n
    BY RowsFit DEF Quality!Idle, Quality!Work
  <2>2. /\ Quality!NextNc(n) /\ desk' = [desk EXCEPT ![p] = w] /\ Quality!MayStart(p)
        /\ nc' = [nc EXCEPT ![n] = [status |-> "OPEN", noted |-> FALSE]]
        /\ UNCHANGED <<inspection, capa, entries>>
    BY <1>1 DEF Quality!CreateNc, Quality!Goto
  <2> HIDE DEF w
  <2> QED BY <2>1, <2>2, NewNcStep
<1>2. ASSUME NEW n \in Quality!NcId, NEW c \in Quality!CapaId, Quality!RecordNc(p, n, c)
      PROVE  QualityInv'
  BY <1>2, QualityIdle, NewNcStep DEF Quality!RecordNc, Quality!Done, Quality!Goto
<1>3. CASE Quality!WriteNc(p)
  <2> DEFINE n == desk[p].at  to == desk[p].to
             a == [Quality!Idle EXCEPT !.stage = "saved", !.at = n]  w == IF to = "OPEN" THEN a ELSE Quality!Idle
  <2>1. /\ n \in Quality!NcId /\ Quality!HasNc(n) /\ to \in Quality!NcStatus
             /\ desk[p].stage = "nc"
        /\ "patch" \notin entries => to = "RESOLVED"
    BY <1>3 DEF Quality!WriteNc, QualityInv, AboutRows, ClosedResolved, Quality!At
  <2>2. a \in Quality!Work /\ a.stage = "saved" /\ a.at = n
    BY <2>1, RowsFit DEF Quality!Idle, Quality!Work
  <2>3. /\ nc' = [nc EXCEPT ![n].status = to] /\ desk' = [desk EXCEPT ![p] = w]
        /\ UNCHANGED <<inspection, capa, entries>>
    BY <1>3 DEF Quality!WriteNc, Quality!Goto, Quality!Done
  <2> HIDE DEF n, to, a
  <2>4. w \in Quality!Work /\ w.stage \in {"idle", "saved"} /\ (to = "OPEN" => w.stage = "saved")
        /\ (w.stage = "saved" => w.at = n)
    BY <2>2, QualityIdle
  <2> HIDE DEF w
  <2> QED BY <2>1, <2>3, <2>4, WriteNcStep DEF Quality!At
<1>4. CASE Quality!ResolveNc(p)
  <2> DEFINE n == capa[desk[p].at].nc
  <2>1. n \in Quality!NcId /\ Quality!HasNc(n) /\ desk[p].stage = "closed"
          /\ desk[p].at \in Quality!CapaId
    BY <1>4 DEF Quality!ResolveNc, QualityInv, AboutRows, OfNcs, Quality!At
  <2>2. /\ desk' = [desk EXCEPT ![p] = Quality!Idle] /\ UNCHANGED <<inspection, capa, entries>>
        /\ nc' = IF Quality!Resolves(desk[p].cached) THEN [nc EXCEPT ![n].status = "RESOLVED"] ELSE nc
    BY <1>4 DEF Quality!ResolveNc, Quality!Done, Quality!Goto
  <2> HIDE DEF n
  <2>3. "RESOLVED" \in Quality!NcStatus
    BY DEF Quality!NcStatus
  <2>4. CASE Quality!Resolves(desk[p].cached)
    BY <2>1, <2>2, <2>3, <2>4, QualityIdle, WriteNcStep DEF Quality!At, n
  <2>5. CASE ~Quality!Resolves(desk[p].cached)
    <3>1. nc' = nc /\ desk[p].cached = "RESOLVED"
      BY <2>2, <2>5 DEF Quality!Resolves
    <3>2. "patch" \notin entries => nc[n].status = "RESOLVED"
      BY <2>1, <3>1 DEF QualityInv, ClosedResolved, n
    <3>3. desk'[p] = Quality!Idle /\ \A q \in Session : q # p => desk'[q] = desk[q]
      BY <2>2 DEF QualityInv, Quality!TypeOK
    <3>4. Quality!TypeOK' /\ OfNcs'
      BY <2>2, <3>1, QualityIdle DEF QualityInv, Quality!TypeOK, OfNcs, Quality!HasNc,
         Quality!HasCapa
    <3>5. AboutRows'
      BY <2>2, <3>1, <3>3, QualityIdle DEF QualityInv, AboutRows, Quality!HasNc, Quality!HasCapa,
         Quality!At
    <3>6. Recorded' /\ RecordedOnce'
      BY <2>1, <2>2, <3>1, <3>3, QualityIdle DEF QualityInv, Recorded, RecordedOnce,
        Quality!Noted,
         Quality!At
    <3>7. OpenTended'
      BY <2>1, <2>2, <3>1, <3>3 DEF QualityInv, OpenTended, Quality!Tended, Quality!HasCapa,
         Quality!At
    <3>8. ClosedResolved'
      <4>1. UNCHANGED <<nc, capa, entries>>
        BY <2>2, <3>1
      <4>2. ASSUME "patch" \notin entries, NEW q \in Session
            PROVE  /\ Quality!At(q, "nc")' => desk'[q].to = "RESOLVED"
                   /\ desk'[q].stage \in {"capa", "closed"} /\ desk'[q].cached = "RESOLVED" =>
                        nc[capa[desk'[q].at].nc].status = "RESOLVED"
        BY <3>3, <4>2, QualityIdle DEF QualityInv, ClosedResolved, Quality!At
      <4>3. ASSUME "patch" \notin entries, "crash" \notin entries, NEW c \in Quality!CapaId,
                   capa[c].status = "CLOSED", nc[capa[c].nc].status # "RESOLVED"
            PROVE  \E q \in Session : Quality!At(q, "closed")' /\ desk'[q].at = c
        <5>1. PICK q \in Session : Quality!At(q, "closed") /\ desk[q].at = c
          BY <4>3 DEF QualityInv, ClosedResolved
        <5>2. q # p
          BY <3>2, <4>3, <5>1 DEF n
        <5> QED BY <3>3, <5>1, <5>2 DEF Quality!At
      <4> QED BY <4>1, <4>2, <4>3 DEF ClosedResolved
    <3> QED BY <3>4, <3>5, <3>6, <3>7, <3>8 DEF QualityInv
  <2> QED BY <2>4, <2>5
<1> QED BY <1>1, <1>2, <1>3, <1>4

\* A corrective action is opened, written, or nothing happens to it.
LEMMA CapaSteps ==
    ASSUME QualityInv, NEW p \in Session,
           \/ Quality!Tend(p) \/ Quality!WriteCapa(p)
           \/ \E n \in Quality!NcId, c \in Quality!CapaId : Quality!CreateCapa(p, n, c)
    PROVE  QualityInv'
<1>1. PICK w \in Quality!Work :
        /\ desk' = [desk EXCEPT ![p] = w] /\ UNCHANGED <<inspection, nc, entries>>
        /\ desk[p].stage \in {"idle", "saved", "capa"}
        /\ \/ w = desk[p] /\ desk[p].stage = "idle"
           \/ desk[p].stage # "idle" /\ w.stage = "idle"
           \/ /\ desk[p].stage = "capa" /\ w.stage = "closed"
              /\ w.at = desk[p].at /\ w.cached = desk[p].cached
  <2>1. CASE Quality!Tend(p)
    BY <2>1, QualityIdle DEF Quality!Tend, Quality!Done, Quality!Goto, Quality!At
  <2>2. CASE \E n \in Quality!NcId, c \in Quality!CapaId : Quality!CreateCapa(p, n, c)
    <3>1. desk' = [desk EXCEPT ![p] = desk[p]]
      BY <2>2 DEF Quality!CreateCapa, QualityInv, Quality!TypeOK
    <3> QED BY <2>2, <3>1 DEF Quality!CreateCapa, Quality!MayStart, Quality!At, QualityInv,
       Quality!TypeOK
  <2>3. CASE Quality!WriteCapa(p)
    <3> DEFINE a == [desk[p] EXCEPT !.stage = "closed"]
    <3>1. /\ a \in Quality!Work /\ a.stage = "closed" /\ a.at = desk[p].at
          /\ a.cached = desk[p].cached
      BY DEF QualityInv, Quality!TypeOK, Quality!Work
    <3>2. desk' = [desk EXCEPT ![p] = IF desk[p].to = "CLOSED" THEN a ELSE Quality!Idle]
      BY <2>3 DEF Quality!WriteCapa, Quality!Goto, Quality!Done
    <3> HIDE DEF a
    <3> QED BY <2>3, <3>1, <3>2, QualityIdle DEF Quality!WriteCapa, Quality!At
  <2> QED BY <2>1, <2>2, <2>3
<1>2. desk'[p] = w /\ \A q \in Session : q # p => desk'[q] = desk[q]
  BY <1>1 DEF QualityInv, Quality!TypeOK
<1>3. /\ \A c \in Quality!CapaId : Quality!HasCapa(c) => Quality!HasCapa(c)'
           /\ capa'[c].nc = capa[c].nc
      /\ \A c \in Quality!CapaId : Quality!HasCapa(c)' =>
           Quality!HasCapa(c) \/ (capa'[c].nc \in Quality!NcId /\ Quality!HasNc(capa'[c].nc))
      /\ capa' \in [Quality!CapaId -> Quality!Capa]
      /\ \A c \in Quality!CapaId : capa'[c].status = "CLOSED" =>
           capa[c].status = "CLOSED" \/ (desk[p].at = c /\ w.stage = "closed")
      /\ \A n \in Quality!NcId : desk[p].stage = "saved" /\ desk[p].at = n => Quality!Tended(n)'
  <2>1. ASSUME NEW n \in Quality!NcId, NEW c \in Quality!CapaId, Quality!HasNc(n),
               Quality!NextCapa(c), Quality!OpenCapa(n, c)
        PROVE  /\ \A b \in Quality!CapaId : Quality!HasCapa(b) => Quality!HasCapa(b)'
                    /\ capa'[b].nc = capa[b].nc
               /\ \A b \in Quality!CapaId : Quality!HasCapa(b)' =>
                    Quality!HasCapa(b)
                      \/ (capa'[b].nc \in Quality!NcId /\ Quality!HasNc(capa'[b].nc))
               /\ capa' \in [Quality!CapaId -> Quality!Capa]
               /\ \A b \in Quality!CapaId : capa'[b].status = "CLOSED"
                    => capa[b].status = "CLOSED"
               /\ Quality!Tended(n)'
    <3>1. n \in 0..Ncs
      BY QualityNumbers DEF Quality!NcId
    <3>2. capa' \in [Quality!CapaId -> Quality!Capa] /\ capa'[c].nc = n
            /\ capa'[c].status = "OPEN"
      BY <2>1, <3>1 DEF Quality!OpenCapa, QualityInv, Quality!TypeOK, Quality!Capa,
         Quality!CapaStatus
    <3>3. \A b \in Quality!CapaId : b # c => capa'[b] = capa[b]
      BY <2>1 DEF Quality!OpenCapa, QualityInv, Quality!TypeOK
    <3> QED BY <2>1, <3>2, <3>3 DEF Quality!NextCapa, Quality!HasCapa, Quality!Tended
  <2>2. CASE \E n \in Quality!NcId, c \in Quality!CapaId : Quality!CreateCapa(p, n, c)
    <3>1. desk[p].stage # "saved"
      BY <2>2 DEF Quality!CreateCapa, Quality!MayStart, Quality!At
    <3> QED BY <2>1, <2>2, <3>1 DEF Quality!CreateCapa
  <2>3. CASE Quality!Tend(p)
    <3>1. desk[p].at \in Quality!NcId /\ Quality!HasNc(desk[p].at) /\ desk[p].stage = "saved"
      BY <2>3 DEF Quality!Tend, QualityInv, AboutRows, Quality!At
    <3>2. PICK n \in Quality!NcId : n = desk[p].at
      BY <3>1
    <3>3. CASE Quality!Tended(n) /\ UNCHANGED capa
      <4>1. Quality!Tended(n)' /\ \A c \in Quality!CapaId : Quality!HasCapa(c)'
              <=> Quality!HasCapa(c)
        BY <3>3 DEF Quality!HasCapa, Quality!Tended
      <4> QED BY <3>2, <3>3, <4>1 DEF QualityInv, Quality!TypeOK
    <3>4. CASE \E c \in Quality!CapaId : Quality!NextCapa(c) /\ Quality!OpenCapa(n, c)
      <4>1. Quality!HasNc(n)
        BY <3>1, <3>2
      <4> QED BY <2>1, <3>2, <3>4, <4>1
    <3> QED BY <2>3, <3>2, <3>3, <3>4 DEF Quality!Tend
  <2>4. CASE Quality!WriteCapa(p)
    <3>1. /\ desk[p].stage = "capa" /\ desk[p].at \in Quality!CapaId
               /\ Quality!HasCapa(desk[p].at)
          /\ desk[p].to \in Quality!CapaStatus
      BY <2>4 DEF Quality!WriteCapa, QualityInv, AboutRows, Quality!At
    <3>2. capa' = [capa EXCEPT ![desk[p].at].status = desk[p].to]
      BY <2>4 DEF Quality!WriteCapa
    <3>3. /\ capa' \in [Quality!CapaId -> Quality!Capa]
          /\ \A c \in Quality!CapaId : capa'[c].nc = capa[c].nc
          /\ capa'[desk[p].at].status = desk[p].to
          /\ \A c \in Quality!CapaId : c # desk[p].at => capa'[c].status = capa[c].status
      BY <3>1, <3>2 DEF QualityInv, Quality!TypeOK, Quality!Capa, Quality!CapaStatus
    <3>4. desk[p].to = "CLOSED" => w.stage = "closed"
      <4>1. desk'[p].stage = "closed" \/ desk[p].to # "CLOSED"
        BY <2>4 DEF Quality!WriteCapa, Quality!Goto, QualityInv, Quality!TypeOK, Quality!Work
      <4> QED BY <1>2, <4>1
    <3> QED BY <3>1, <3>3, <3>4 DEF Quality!HasCapa, Quality!CapaStatus
  <2> QED BY <2>2, <2>3, <2>4
<1>4. Quality!TypeOK'
  BY <1>1, <1>3 DEF QualityInv, Quality!TypeOK
<1>5. AboutRows'
  BY <1>1, <1>2, <1>3 DEF QualityInv, AboutRows, Quality!HasNc, Quality!At
<1>6. OfNcs'
  BY <1>1, <1>3 DEF QualityInv, OfNcs, Quality!HasNc
<1>7. Recorded'
  BY <1>1, <1>2 DEF QualityInv, Recorded, Quality!Noted, Quality!At
<1>8. RecordedOnce'
  BY <1>1, <1>2 DEF QualityInv, RecordedOnce, Quality!Noted, Quality!At
<1>9. OpenTended'
  <2>1. \A n \in Quality!NcId : Quality!Tended(n) => Quality!Tended(n)'
    BY <1>3 DEF Quality!Tended
  <2> SUFFICES ASSUME "crash" \notin entries, NEW n \in Quality!NcId, nc[n].status = "OPEN"
               PROVE  Quality!Tended(n)' \/ \E q \in Session : Quality!At(q, "saved")'
                        /\ desk'[q].at = n
    BY <1>1 DEF OpenTended
  <2>2. CASE Quality!Tended(n)
    BY <2>1, <2>2
  <2>3. ASSUME NEW q \in Session, Quality!At(q, "saved"), desk[q].at = n
        PROVE  Quality!Tended(n)' \/ (Quality!At(q, "saved")' /\ desk'[q].at = n)
    BY <1>2, <1>3, <2>3 DEF Quality!At
  <2> QED BY <2>2, <2>3 DEF QualityInv, OpenTended
<1>10. ClosedResolved'
  <2> SUFFICES ASSUME "patch" \notin entries PROVE ClosedResolved'
    BY <1>1 DEF ClosedResolved
  <2>1. \A q \in Session : desk[q].stage \in {"capa", "closed"} =>
          capa'[desk[q].at].nc = capa[desk[q].at].nc
    BY <1>3 DEF QualityInv, AboutRows
  <2>2. \A q \in Session :
         /\ Quality!At(q, "nc")' => desk'[q].to = "RESOLVED"
         /\ desk'[q].stage \in {"capa", "closed"} /\ desk'[q].cached = "RESOLVED" =>
              nc'[capa'[desk'[q].at].nc].status = "RESOLVED"
    BY <1>1, <1>2, <2>1 DEF QualityInv, ClosedResolved, Quality!At
  <2>3. ASSUME "crash" \notin entries, NEW c \in Quality!CapaId, capa'[c].status = "CLOSED"
        PROVE  \/ nc'[capa'[c].nc].status = "RESOLVED"
               \/ \E q \in Session : Quality!At(q, "closed")' /\ desk'[q].at = c
    <3>1. CASE desk[p].at = c /\ w.stage = "closed"
      BY <1>1, <1>2, <3>1 DEF Quality!At
    <3>2. CASE capa[c].status = "CLOSED"
      <4>1. capa'[c].nc = capa[c].nc
        BY <1>3, <3>2 DEF Quality!HasCapa
      <4> QED BY <1>1, <1>2, <2>3, <3>2, <4>1 DEF QualityInv, ClosedResolved, Quality!At
    <3> QED BY <1>3, <2>3, <3>1, <3>2
  <2> QED BY <1>1, <2>2, <2>3 DEF ClosedResolved
<1> QED BY <1>4, <1>5, <1>6, <1>7, <1>8, <1>9, <1>10 DEF QualityInv

LEMMA QualityCrash ==
    ASSUME QualityInv, NEW p \in Session, Quality!Crash(p)
    PROVE  QualityInv'
<1>1. desk' = [desk EXCEPT ![p] = Quality!Idle] /\ UNCHANGED <<inspection, nc, capa, entries>>
  BY DEF Quality!Crash, Quality!Done, Quality!Goto
<1>2. desk'[p] = Quality!Idle /\ \A q \in Session : q # p => desk'[q] = desk[q]
  BY <1>1 DEF QualityInv, Quality!TypeOK
<1>3. "crash" \in entries
  BY DEF Quality!Crash
<1>4. Quality!TypeOK' /\ OfNcs'
  BY <1>1, QualityIdle DEF QualityInv, Quality!TypeOK, OfNcs, Quality!HasNc, Quality!HasCapa
<1>5. AboutRows'
  BY <1>1, <1>2, QualityIdle DEF QualityInv, AboutRows, Quality!HasNc, Quality!HasCapa, Quality!At
<1>6. RecordedOnce'
  BY <1>1, <1>2, QualityIdle DEF QualityInv, RecordedOnce, Quality!Noted, Quality!At
<1>7. ClosedResolved'
  BY <1>1, <1>2, <1>3, QualityIdle DEF QualityInv, ClosedResolved, Quality!At
<1> QED BY <1>1, <1>3, <1>4, <1>5, <1>6, <1>7 DEF QualityInv, Recorded, OpenTended

-----------------------------------------------------------------------------
(* What follows a failure. *)

LEMMA QualityStarts == Quality!Init => QualityInv
<1> SUFFICES ASSUME Quality!Init PROVE QualityInv
  OBVIOUS
<1>1. \A p \in Session : desk[p] = Quality!Idle /\ desk[p].stage = "idle"
  BY QualityIdle DEF Quality!Init
<1>2. \A n \in Quality!NcId : nc[n].status = "absent" /\ nc[n].noted = FALSE
  BY DEF Quality!Init, Quality!NoNc
<1>3. \A c \in Quality!CapaId : capa[c].status = "absent"
  BY DEF Quality!Init, Quality!NoCapa
<1>4. Quality!NoNc \in Quality!Nc /\ Quality!NoCapa \in Quality!Capa
  BY QualityNumbers DEF Quality!NoNc, Quality!Nc, Quality!NoCapa, Quality!Capa
<1>5. Quality!TypeOK
  BY <1>4, QualityIdle DEF Quality!Init, Quality!TypeOK, Quality!Result
<1>6. Quality!Noted = {} /\ inspection = "PENDING"
  BY <1>2 DEF Quality!Noted, Quality!Init
<1> QED BY <1>1, <1>2, <1>3, <1>5, <1>6
        DEF QualityInv, AboutRows, OfNcs, Recorded, RecordedOnce, OpenTended, ClosedResolved,
            Quality!HasNc, Quality!HasCapa, Quality!At

LEMMA QualityStep == QualityInv /\ [Quality!Next]_(Quality!vars) => QualityInv'
<1> SUFFICES ASSUME QualityInv, [Quality!Next]_(Quality!vars) PROVE QualityInv'
  OBVIOUS
<1>1. CASE UNCHANGED Quality!vars
  BY <1>1 DEF Quality!vars, QualityInv, Quality!TypeOK, AboutRows, OfNcs, Recorded, RecordedOnce,
     OpenTended,
     ClosedResolved, Quality!HasNc, Quality!HasCapa, Quality!Tended, Quality!Noted, Quality!At
<1> QED BY <1>1, AskSteps, InspectionStep, NcSteps, CapaSteps, QualityCrash DEF Quality!Next

LEMMA QualityKeeps == QualityInv => Quality!FailedRecorded /\ Quality!Followed
<1> SUFFICES ASSUME QualityInv PROVE Quality!FailedRecorded /\ Quality!Followed
  OBVIOUS
<1>1. "race" \notin entries => Cardinality(Quality!Noted) <= 1
  <2> SUFFICES ASSUME "race" \notin entries, Quality!Noted # {}
               PROVE  Cardinality(Quality!Noted) <= 1
    BY FS_EmptySet
  <2>1. PICK n : Quality!Noted = {n}
    BY DEF QualityInv, RecordedOnce
  <2>2. Cardinality({n}) = 1
    BY FS_Singleton
  <2> QED BY <2>1, <2>2
<1>2. Quality!FailedRecorded
  BY <1>1, QualityCardinality DEF Quality!FailedRecorded, QualityInv, Recorded, Quality!AtRest,
    Quality!At
<1>3. Quality!Followed
  BY DEF Quality!Followed, QualityInv, OpenTended, ClosedResolved, Quality!AtRest, Quality!At
<1> QED BY <1>2, <1>3

-----------------------------------------------------------------------------
(* The versions of a product. *)

LEMMA VersionsCardinality == \A S : Lifecycle!Cardinality(S) = Cardinality(S)
BY DEF Lifecycle!Cardinality, Cardinality

\* What the constants of this part are.
LEMMA VersionsNumbers ==
    VersionCount \in Nat \ {0} /\ Notices \in Nat \ {0} /\ Digits \in Nat \ {0, 1}
BY BackOfficeAssumption

-----------------------------------------------------------------------------
(* The invariant. *)

VersionsAlone == "race" \notin entries
VersionsOneRequest == \A p, q \in Session : ~Lifecycle!At(p, "idle") /\ ~Lifecycle!At(q, "idle")
  => p = q
Activates(p, v) == Lifecycle!At(p, "activate") /\ desk[p].at = v

\* Of two versions in force, one is being activated.
Succeeded ==
    /\ \A p \in Session : Lifecycle!At(p, "activate") => desk[p].at \in Lifecycle!VersionId
    /\ "crash" \notin entries =>
         \A u, v \in Lifecycle!InForce :
             u = v \/ \E p \in Session : Activates(p, u) \/ Activates(p, v)
    /\ VersionsAlone =>
         /\ \A p \in Session : Lifecycle!At(p, "activate") => version[desk[p].at] = "active"
         /\ version[1] # "absent" => Lifecycle!InForce # {}

\* Revisions are numbered without a gap, and a request that makes one has a
\* number that is taken or the next one.
Last == Digits + 1
Gapless ==
    /\ \A p \in Session :
         desk[p].stage \in {"approve", "approved", "number"} => desk[p].at \in Lifecycle!Notice
    /\ \E k \in 0..Last :
         /\ Lifecycle!Made = 1..k
         /\ \A p \in Session : Lifecycle!At(p, "number") =>
              desk[p].number \in 1..(k + 1) /\ desk[p].number <= Last

\* One at a time, what is approved has its revision, or gets it, or the last
\* revision is not found any more.
HasRevision(n) == \E m \in Lifecycle!Made : revision[m] = n
Revised ==
    VersionsAlone /\ "crash" \notin entries =>
        /\ \A p \in Session : Lifecycle!At(p, "number") => desk[p].number \notin Lifecycle!Made
        /\ \A n \in Lifecycle!Notice : ecn[n] # "DRAFT" =>
             \/ HasRevision(n) \/ Last \in Lifecycle!Made
             \/ \E p \in Session :
                  desk[p].stage \in {"approved", "number"} /\ desk[p].at = n

VersionsInv ==
    Lifecycle!TypeOK /\ (VersionsAlone => VersionsOneRequest) /\ Succeeded /\ Gapless /\ Revised

-----------------------------------------------------------------------------
(* The number of a revision. *)

LEMMA VersionIdle == Lifecycle!Idle \in Lifecycle!Work /\ Lifecycle!Idle.stage = "idle"
BY VersionsNumbers DEF Lifecycle!Idle, Lifecycle!Work

LEMMA NumbersFit ==
    /\ \A v \in Lifecycle!VersionId : v \in 0..(VersionCount + Notices)
    /\ \A n \in Lifecycle!Notice : n \in 0..(VersionCount + Notices)
    /\ \A n \in Lifecycle!Notice : n \in 0..Notices /\ n # 0
    /\ Last \in Lifecycle!Number /\ \A n \in 1..Last : n \in Lifecycle!Number
    /\ 1 \in Lifecycle!VersionId
BY VersionsNumbers DEF Lifecycle!VersionId, Lifecycle!Notice, Last, Lifecycle!Number

\* The last of the first k numbers, as they are compared as strings.
LEMMA LastOfFirst ==
    ASSUME NEW k \in 1..Last, NEW S, S = 1..k
    PROVE  Lifecycle!LastByString(S) = IF k <= Digits THEN k ELSE Digits
<1>1. k \in Nat /\ Digits \in Nat /\ Digits >= 2 /\ k >= 1
  BY VersionsNumbers DEF Last
<1>2. CASE k = 1
  <2>1. {n \in S : n > 1 /\ n <= Digits} = {}
    BY <1>2
  <2>2. Lifecycle!LastByString(S) = CHOOSE n \in S : \A m \in S : m <= n
    BY <2>1 DEF Lifecycle!LastByString
  <2>3. S = {1}
    BY <1>2
  <2> QED BY <1>1, <1>2, <2>2, <2>3
<1>3. CASE k > 1
  <2> DEFINE T == {n \in S : n > 1 /\ n <= Digits}
             top == IF k <= Digits THEN k ELSE Digits
  <2>1. top \in T /\ \A m \in T : m \in Nat /\ m <= top
    BY <1>1, <1>3
  <2>2. Lifecycle!LastByString(S) = CHOOSE n \in T : \A m \in T : m <= n
    BY <2>1 DEF Lifecycle!LastByString
  <2>3. top \in Nat
    BY <1>1
  <2> HIDE DEF T, top
  <2>4. \A n \in T : (\A m \in T : m <= n) => n = top
    BY <2>1, <2>3
  <2>5. Lifecycle!LastByString(S) = top
    BY <2>1, <2>2, <2>4
  <2> QED BY <2>5 DEF top
<1> QED BY <1>1, <1>2, <1>3

\* The next number is the next, or the last of two digits is taken.
LEMMA NextIs ==
    ASSUME NEW k \in 0..Last, Lifecycle!Made = 1..k
    PROVE  /\ Lifecycle!NextNumber \in 1..Last
           /\ Lifecycle!NextNumber \in Lifecycle!Made => k = Last
           /\ Lifecycle!NextNumber \notin Lifecycle!Made => Lifecycle!NextNumber = k + 1
<1>1. k \in Nat /\ Digits \in Nat /\ Digits >= 2
  BY VersionsNumbers DEF Last
<1>2. CASE k = 0
  BY <1>1, <1>2 DEF Lifecycle!NextNumber, Last
<1>3. CASE k # 0
  <2>1. Lifecycle!LastByString(Lifecycle!Made) = IF k <= Digits THEN k ELSE Digits
    BY <1>1, <1>3, LastOfFirst
  <2>2. Lifecycle!Made # {}
    BY <1>1, <1>3
  <2>3. Lifecycle!NextNumber = Lifecycle!LastByString(Lifecycle!Made) + 1
    BY <2>2 DEF Lifecycle!NextNumber
  <2> QED BY <1>1, <1>3, <2>1, <2>3 DEF Last
<1> QED BY <1>2, <1>3

\* A revision is made with the next number.
LEMMA MakesNext ==
    ASSUME Lifecycle!TypeOK, Gapless, NEW n \in Lifecycle!Notice, NEW number \in Lifecycle!Number,
           Lifecycle!Makes(n, number),
           number \in Lifecycle!Made \/ \A k \in 0..Last : Lifecycle!Made = 1..k => number = k + 1
             /\ number <= Last
    PROVE  /\ revision' \in [Lifecycle!Number -> 0..Notices]
           /\ \A m \in Lifecycle!Number : m \in Lifecycle!Made => m \in Lifecycle!Made'
                /\ revision'[m] = revision[m]
           /\ number \notin Lifecycle!Made => number \in Lifecycle!Made' /\ revision'[number] = n
           /\ \E k \in 0..Last :
                /\ Lifecycle!Made' = 1..k
                /\ \A p \in Session : Lifecycle!At(p, "number") =>
                     desk[p].number \in 1..(k + 1) /\ desk[p].number <= Last
<1>1. PICK k \in 0..Last :
         /\ Lifecycle!Made = 1..k
         /\ \A p \in Session : Lifecycle!At(p, "number") =>
              desk[p].number \in 1..(k + 1) /\ desk[p].number <= Last
  BY DEF Gapless
<1>2. CASE number \in Lifecycle!Made
  BY <1>1, <1>2 DEF Lifecycle!Makes, Lifecycle!TypeOK, Lifecycle!Made
<1>3. CASE number \notin Lifecycle!Made
  <2>1. revision' = [revision EXCEPT ![number] = n] /\ n \in 0..Notices /\ n # 0
    BY <1>3, NumbersFit DEF Lifecycle!Makes
  <2>2. /\ revision' \in [Lifecycle!Number -> 0..Notices] /\ revision'[number] = n
        /\ \A m \in Lifecycle!Number : m # number => revision'[m] = revision[m]
    BY <2>1 DEF Lifecycle!TypeOK
  <2>3. number = k + 1 /\ number <= Last /\ k \in Nat /\ Last \in Nat
    BY <1>1, <1>3, VersionsNumbers DEF Last
  <2>4. \A m : m \in Lifecycle!Made' <=> m \in Lifecycle!Made \/ m = number
    BY <2>1, <2>2 DEF Lifecycle!Made
  <2>5. Lifecycle!Made' = 1..(k + 1) /\ k + 1 \in 0..Last
    <3>1. \A m : m \in 1..(k + 1) <=> m \in 1..k \/ m = k + 1
      BY <2>3
    <3>2. k + 1 \in 0..Last
      BY <2>3
    <3> QED BY <1>1, <2>3, <2>4, <3>1, <3>2
  <2>6. \A p \in Session : Lifecycle!At(p, "number") =>
              desk[p].number \in 1..(k + 1 + 1) /\ desk[p].number <= Last
    BY <1>1, <2>3
  <2> QED BY <1>3, <2>2, <2>4, <2>5, <2>6 DEF Lifecycle!Made
<1> QED BY <1>2, <1>3

-----------------------------------------------------------------------------
(* The steps. *)

\* What a request that is not about a version, or becomes idle, leaves.
LEMMA SucceededStays ==
    ASSUME VersionsInv, NEW p \in Session, NEW w \in Lifecycle!Work,
           desk' = [desk EXCEPT ![p] = w],
           w.stage # "activate", ~Lifecycle!At(p, "activate") \/ "crash" \in entries,
           UNCHANGED <<version, entries>>
    PROVE  Succeeded'
<1>1. desk'[p] = w /\ \A q \in Session : q # p => desk'[q] = desk[q]
  BY DEF VersionsInv, Lifecycle!TypeOK
<1> QED BY <1>1 DEF VersionsInv, Succeeded, VersionsAlone, Activates, Lifecycle!InForce,
   Lifecycle!At

LEMMA VersionStep ==
    ASSUME VersionsInv, NEW p \in Session,
           Lifecycle!Activate(p) \/ \E v \in Lifecycle!VersionId : Lifecycle!CreateVersion(p, v)
    PROVE  VersionsInv'
<1>1. ASSUME NEW v \in Lifecycle!VersionId, Lifecycle!CreateVersion(p, v) PROVE VersionsInv'
  <2> DEFINE w == [Lifecycle!Idle EXCEPT !.stage = "activate", !.at = v]
  <2>1. w \in Lifecycle!Work /\ w.stage = "activate" /\ w.at = v
    BY NumbersFit DEF Lifecycle!Idle, Lifecycle!Work
  <2>2. /\ desk' = [desk EXCEPT ![p] = w] /\ version' = [version EXCEPT ![v] = "active"]
        /\ UNCHANGED <<ecn, revision, entries>> /\ Lifecycle!MayStart(p) /\ version[v] = "absent"
    BY <1>1 DEF Lifecycle!CreateVersion, Lifecycle!Goto, Lifecycle!NextVersion
  <2> HIDE DEF w
  <2>3. /\ desk'[p] = w /\ \A q \in Session : q # p => desk'[q] = desk[q]
        /\ version'[v] = "active" /\ \A u \in Lifecycle!VersionId : u # v
             => version'[u] = version[u]
    BY <2>2 DEF VersionsInv, Lifecycle!TypeOK
  <2>4. Lifecycle!TypeOK'
    BY <2>1, <2>2 DEF VersionsInv, Lifecycle!TypeOK, Lifecycle!State
  <2>5. VersionsAlone => VersionsOneRequest'
    BY <2>2, <2>3 DEF VersionsOneRequest, Lifecycle!MayStart, Lifecycle!AtRest, VersionsAlone,
       Lifecycle!At
  <2>6. desk[p].stage = "idle" /\ \A q \in Session : Activates(q, v)' <=> q = p \/ Activates(q, v)
    BY <2>1, <2>2, <2>3 DEF Activates, Lifecycle!At, Lifecycle!MayStart
  <2>7. \A q \in Session : \A u \in Lifecycle!VersionId : Activates(q, u) => Activates(q, u)'
    BY <2>3, <2>6 DEF Activates, Lifecycle!At
  <2>8. Succeeded'
    <3>1. \A q \in Session : Lifecycle!At(q, "activate")' => desk'[q].at \in Lifecycle!VersionId
      BY <2>1, <2>3 DEF VersionsInv, Succeeded, Lifecycle!At
    <3>2. \A u \in Lifecycle!VersionId : u \in Lifecycle!InForce' <=> u = v
            \/ u \in Lifecycle!InForce
      BY <2>3 DEF Lifecycle!InForce
    <3>3. "crash" \notin entries =>
            \A x, y \in Lifecycle!InForce' :
              x = y \/ \E q \in Session : Activates(q, x)' \/ Activates(q, y)'
      BY <2>6, <2>7, <3>2 DEF VersionsInv, Succeeded, Lifecycle!InForce
    <3>4. VersionsAlone => /\ \A q \in Session : Lifecycle!At(q, "activate")'
                                => version'[desk'[q].at] = "active"
                           /\ Lifecycle!InForce' # {}
      BY <2>1, <2>3, <3>2 DEF VersionsInv, Succeeded, Lifecycle!At
    <3> QED BY <2>2, <3>1, <3>3, <3>4 DEF Succeeded, VersionsAlone
  <2>9. Gapless'
    BY <2>1, <2>2, <2>3 DEF VersionsInv, Gapless, Lifecycle!Made, Lifecycle!At
  <2>10. Revised'
    BY <2>1, <2>2, <2>3, <2>6 DEF VersionsInv, Revised, HasRevision, Lifecycle!Made,
      VersionsAlone,
       Lifecycle!At
  <2> QED BY <2>2, <2>4, <2>5, <2>8, <2>9, <2>10 DEF VersionsInv, VersionsAlone
<1>2. CASE Lifecycle!Activate(p)
  <2> DEFINE v == desk[p].at
  <2>1. /\ desk' = [desk EXCEPT ![p] = Lifecycle!Idle] /\ UNCHANGED <<ecn, revision, entries>>
        /\ version' = [u \in Lifecycle!VersionId |->
             IF u \in Lifecycle!Others(v) /\ version[u] = "active" THEN "retired" ELSE version[u]]
        /\ desk[p].stage = "activate" /\ v \in Lifecycle!VersionId
    BY <1>2 DEF Lifecycle!Activate, Lifecycle!Done, Lifecycle!Goto, Lifecycle!At, VersionsInv,
       Succeeded
  <2> HIDE DEF v
  <2>2. desk'[p] = Lifecycle!Idle /\ \A q \in Session : q # p => desk'[q] = desk[q]
    BY <2>1 DEF VersionsInv, Lifecycle!TypeOK
  <2>3. \A u \in Lifecycle!VersionId : (version'[u] = "active" <=> u = v /\ version[u] = "active")
                                       /\ (version'[u] = "absent" <=> version[u] = "absent")
    BY <2>1 DEF Lifecycle!Others
  <2>4. Lifecycle!TypeOK'
    BY <2>1, VersionIdle DEF VersionsInv, Lifecycle!TypeOK, Lifecycle!State
  <2>5. VersionsAlone => VersionsOneRequest'
    BY <2>2, VersionIdle DEF VersionsInv, VersionsOneRequest, Lifecycle!At
  <2>6. Succeeded'
    <3>1. \A x, y \in Lifecycle!InForce' : x = y
      BY <2>3 DEF Lifecycle!InForce
    <3>2. VersionsAlone => \A q \in Session : ~Lifecycle!At(q, "activate")'
      BY <2>1, <2>2, VersionIdle DEF VersionsInv, VersionsOneRequest, Lifecycle!At
    <3>3. VersionsAlone => v \in Lifecycle!InForce'
      BY <2>1, <2>3 DEF VersionsInv, Succeeded, Lifecycle!At, Lifecycle!InForce, v
    <3>4. \A q \in Session : Lifecycle!At(q, "activate")' => desk'[q].at \in Lifecycle!VersionId
      BY <2>2, VersionIdle DEF VersionsInv, Succeeded, Lifecycle!At
    <3> QED BY <2>1, <3>1, <3>2, <3>3, <3>4 DEF Succeeded, VersionsAlone
  <2>7. Gapless'
    BY <2>1, <2>2, VersionIdle DEF VersionsInv, Gapless, Lifecycle!Made, Lifecycle!At
  <2>8. Revised'
    BY <2>1, <2>2, VersionIdle DEF VersionsInv, Revised, HasRevision, Lifecycle!Made,
      VersionsAlone,
       Lifecycle!At
  <2> QED BY <2>1, <2>4, <2>5, <2>6, <2>7, <2>8 DEF VersionsInv, VersionsAlone
<1> QED BY <1>1, <1>2

\* A notice is asked to be approved, is written or implemented, or its request dies.
LEMMA NoticeStep ==
    ASSUME VersionsInv, NEW p \in Session,
           \/ Lifecycle!WriteNotice(p) \/ Lifecycle!Crash(p)
           \/ \E n \in Lifecycle!Notice : Lifecycle!AskApprove(p, n) \/ Lifecycle!Implement(p, n)
    PROVE  VersionsInv'
<1>1. PICK w \in Lifecycle!Work :
        /\ desk' = [desk EXCEPT ![p] = w] /\ UNCHANGED <<version, revision, entries>>
        /\ w.stage \in {"idle", "approve", "approved"}
        /\ w.stage # "idle" => w.at \in Lifecycle!Notice
        /\ desk[p].stage = "idle" => Lifecycle!MayStart(p)
        /\ ~Lifecycle!At(p, "activate") \/ "crash" \in entries
        /\ desk[p].stage \notin {"approved", "number"} \/ "crash" \in entries
        /\ ecn' \in [Lifecycle!Notice -> Lifecycle!Status]
        /\ \A n \in Lifecycle!Notice : ecn'[n] # "DRAFT" =>
             ecn[n] # "DRAFT" \/ (w.stage = "approved" /\ w.at = n)
  <2>1. CASE \E n \in Lifecycle!Notice : Lifecycle!AskApprove(p, n)
    <3> PICK n \in Lifecycle!Notice : Lifecycle!AskApprove(p, n)
      BY <2>1
    <3> DEFINE a == [Lifecycle!Idle EXCEPT !.stage = "approve", !.at = n]
    <3>1. a \in Lifecycle!Work /\ a.stage = "approve" /\ a.at = n
      BY NumbersFit DEF Lifecycle!Idle, Lifecycle!Work
    <3>2. desk' = [desk EXCEPT ![p] = a] /\ UNCHANGED <<version, ecn, revision, entries>>
          /\ Lifecycle!MayStart(p)
      BY DEF Lifecycle!AskApprove, Lifecycle!Goto
    <3> HIDE DEF a
    <3> QED BY <3>1, <3>2 DEF Lifecycle!MayStart, Lifecycle!At, VersionsInv, Lifecycle!TypeOK
  <2>2. CASE \E n \in Lifecycle!Notice : Lifecycle!Implement(p, n)
    <3> PICK n \in Lifecycle!Notice : Lifecycle!Implement(p, n)
      BY <2>2
    <3>1. /\ desk' = [desk EXCEPT ![p] = desk[p]]
          /\ desk[p].stage = "idle" /\ desk[p] \in Lifecycle!Work
      BY DEF Lifecycle!Implement, Lifecycle!MayStart, Lifecycle!At, VersionsInv, Lifecycle!TypeOK
    <3>2. /\ ecn' \in [Lifecycle!Notice -> Lifecycle!Status]
          /\ \A m \in Lifecycle!Notice : ecn'[m] # "DRAFT" => ecn[m] # "DRAFT"
      BY DEF Lifecycle!Implement, VersionsInv, Lifecycle!TypeOK, Lifecycle!Status
    <3> QED BY <3>1, <3>2 DEF Lifecycle!Implement, Lifecycle!At
  <2>3. CASE Lifecycle!WriteNotice(p)
    <3> DEFINE a == [desk[p] EXCEPT !.stage = "approved"]
    <3>1. a \in Lifecycle!Work /\ a.stage = "approved" /\ a.at = desk[p].at
      BY DEF VersionsInv, Lifecycle!TypeOK, Lifecycle!Work
    <3>2. desk[p].stage = "approve" /\ desk[p].at \in Lifecycle!Notice
      BY <2>3 DEF Lifecycle!WriteNotice, VersionsInv, Gapless, Lifecycle!At
    <3>3. desk' = [desk EXCEPT ![p] = a] /\ UNCHANGED <<version, revision, entries>>
      BY <2>3 DEF Lifecycle!WriteNotice, Lifecycle!Goto
    <3>4. /\ ecn' \in [Lifecycle!Notice -> Lifecycle!Status]
          /\ \A m \in Lifecycle!Notice : ecn'[m] # "DRAFT" => ecn[m] # "DRAFT" \/ m = desk[p].at
      BY <2>3 DEF Lifecycle!WriteNotice, VersionsInv, Lifecycle!TypeOK, Lifecycle!Status
    <3> HIDE DEF a
    <3> QED BY <3>1, <3>2, <3>3, <3>4 DEF Lifecycle!At
  <2>4. CASE Lifecycle!Crash(p)
    BY <2>4, VersionIdle DEF Lifecycle!Crash, Lifecycle!Done, Lifecycle!Goto, Lifecycle!At,
       VersionsInv, Lifecycle!TypeOK
  <2> QED BY <2>1, <2>2, <2>3, <2>4
<1>2. desk'[p] = w /\ \A q \in Session : q # p => desk'[q] = desk[q]
  BY <1>1 DEF VersionsInv, Lifecycle!TypeOK
<1>3. Lifecycle!TypeOK'
  BY <1>1 DEF VersionsInv, Lifecycle!TypeOK
<1>4. VersionsAlone => VersionsOneRequest'
  BY <1>1, <1>2 DEF VersionsInv, VersionsOneRequest, Lifecycle!MayStart, Lifecycle!AtRest,
     VersionsAlone, Lifecycle!At
<1>5. Succeeded'
  BY <1>1, SucceededStays
<1>6. Gapless'
  BY <1>1, <1>2 DEF VersionsInv, Gapless, Lifecycle!Made, Lifecycle!At
<1>7. Revised'
  BY <1>1, <1>2 DEF VersionsInv, Revised, HasRevision, Lifecycle!Made, VersionsAlone, Lifecycle!At
<1> QED BY <1>1, <1>3, <1>4, <1>5, <1>6, <1>7 DEF VersionsInv, VersionsAlone

\* A number is looked for.
LEMMA LookStep ==
    ASSUME VersionsInv, NEW p \in Session, Lifecycle!LookForNumber(p)
    PROVE  VersionsInv'
<1>1. PICK k \in 0..Last :
         /\ Lifecycle!Made = 1..k
         /\ \A q \in Session : Lifecycle!At(q, "number") =>
              desk[q].number \in 1..(k + 1) /\ desk[q].number <= Last
  BY DEF VersionsInv, Gapless
<1>2. /\ Lifecycle!NextNumber \in 1..Last
      /\ Lifecycle!NextNumber \in Lifecycle!Made => k = Last
      /\ Lifecycle!NextNumber \notin Lifecycle!Made => Lifecycle!NextNumber = k + 1
  BY <1>1, NextIs
<1>3. desk[p].stage = "approved" /\ desk[p].at \in Lifecycle!Notice
  BY DEF Lifecycle!LookForNumber, VersionsInv, Gapless, Lifecycle!At
<1>4. PICK w \in Lifecycle!Work :
        /\ desk' = [desk EXCEPT ![p] = w] /\ UNCHANGED <<version, ecn, revision, entries>>
        /\ \/ w.stage = "idle" /\ Lifecycle!NextNumber \in Lifecycle!Made
           \/ /\ w.stage = "number" /\ w.at = desk[p].at /\ w.number = k + 1
              /\ w.number \notin Lifecycle!Made /\ w.number <= Last
  <2> DEFINE a == [desk[p] EXCEPT !.stage = "number", !.number = Lifecycle!NextNumber]
  <2>1. Lifecycle!NextNumber \in Lifecycle!Number /\ Lifecycle!NextNumber <= Last
    BY <1>2, NumbersFit DEF Last
  <2>2. a \in Lifecycle!Work /\ a.stage = "number" /\ a.at = desk[p].at
          /\ a.number = Lifecycle!NextNumber
    BY <2>1 DEF VersionsInv, Lifecycle!TypeOK, Lifecycle!Work
  <2>3. desk' = [desk EXCEPT ![p] = IF Lifecycle!NextNumber \in Lifecycle!Made THEN Lifecycle!Idle ELSE a]
    BY DEF Lifecycle!LookForNumber, Lifecycle!Goto, Lifecycle!Done
  <2> HIDE DEF a
  <2> QED BY <1>2, <2>1, <2>2, <2>3, VersionIdle DEF Lifecycle!LookForNumber
<1>5. desk'[p] = w /\ \A q \in Session : q # p => desk'[q] = desk[q]
  BY <1>4 DEF VersionsInv, Lifecycle!TypeOK
<1>6. Lifecycle!TypeOK'
  BY <1>4 DEF VersionsInv, Lifecycle!TypeOK
<1>7. VersionsAlone => VersionsOneRequest'
  BY <1>3, <1>5 DEF VersionsInv, VersionsOneRequest, Lifecycle!At
<1>8. Succeeded'
  BY <1>3, <1>4, SucceededStays DEF Lifecycle!At
<1>9. k \in Nat
  BY VersionsNumbers DEF Last
<1>10. Gapless'
  <2>1. Lifecycle!Made' = 1..k
    BY <1>1, <1>4 DEF Lifecycle!Made
  <2>2. \A q \in Session : Lifecycle!At(q, "number")' =>
              desk'[q].number \in 1..(k + 1) /\ desk'[q].number <= Last
    BY <1>1, <1>4, <1>5, <1>9 DEF Lifecycle!At
  <2>3. \A q \in Session :
         desk'[q].stage \in {"approve", "approved", "number"} => desk'[q].at \in Lifecycle!Notice
    BY <1>3, <1>4, <1>5 DEF VersionsInv, Gapless
  <2> QED BY <2>1, <2>2, <2>3 DEF Gapless
<1>11. Revised'
  <2> SUFFICES ASSUME VersionsAlone, "crash" \notin entries PROVE Revised'
    BY <1>4 DEF Revised, VersionsAlone
  <2>1. \A q \in Session : q # p => desk'[q].stage = "idle"
    BY <1>3, <1>5 DEF VersionsInv, VersionsOneRequest, Lifecycle!At
  <2>2. \A q \in Session : Lifecycle!At(q, "number")' => desk'[q].number \notin Lifecycle!Made'
    BY <1>4, <1>5, <2>1 DEF Lifecycle!At, Lifecycle!Made
  <2>3. ASSUME NEW n \in Lifecycle!Notice, ecn'[n] # "DRAFT"
        PROVE  \/ HasRevision(n)' \/ Last \in Lifecycle!Made'
               \/ \E q \in Session :
                    desk'[q].stage \in {"approved", "number"} /\ desk'[q].at = n
    <3>1. CASE HasRevision(n) \/ Last \in Lifecycle!Made
      BY <1>4, <3>1 DEF HasRevision, Lifecycle!Made
    <3>2. ASSUME NEW q \in Session, desk[q].stage \in {"approved", "number"}, desk[q].at = n
          PROVE  Last \in Lifecycle!Made \/ (desk'[q].stage = "number" /\ desk'[q].at = n)
      <4>1. q = p
        BY <1>3, <3>2 DEF VersionsInv, VersionsOneRequest, Lifecycle!At
      <4>2. Lifecycle!NextNumber \in Lifecycle!Made => Last \in Lifecycle!Made
        BY <1>1, <1>2, VersionsNumbers DEF Last
      <4> QED BY <1>4, <1>5, <3>2, <4>1, <4>2
    <3>3. Last \in Lifecycle!Made => Last \in Lifecycle!Made'
      BY <1>4 DEF Lifecycle!Made
    <3> QED BY <1>4, <2>3, <3>1, <3>2, <3>3 DEF VersionsInv, Revised
  <2> QED BY <1>4, <2>2, <2>3 DEF Revised
<1> QED BY <1>4, <1>6, <1>7, <1>8, <1>10, <1>11 DEF VersionsInv, VersionsAlone

\* A revision is created, after its notice or with it.
LEMMA RevisionStep ==
    ASSUME VersionsInv, NEW p \in Session,
           Lifecycle!CreateRevision(p) \/ \E n \in Lifecycle!Notice :
             Lifecycle!ApproveInAdmin(p, n)
    PROVE  VersionsInv'
<1>1. PICK n \in Lifecycle!Notice, number \in Lifecycle!Number, w \in Lifecycle!Work :
        /\ desk' = [desk EXCEPT ![p] = w] /\ UNCHANGED <<version, entries>>
        /\ Lifecycle!Makes(n, number)
        /\ number \in Lifecycle!Made \/ \A k \in 0..Last : Lifecycle!Made = 1..k => number = k + 1
             /\ number <= Last
        /\ w.stage = "idle" /\ desk[p].stage \in {"idle", "number"}
        /\ desk[p].stage = "number" => desk[p].at = n /\ desk[p].number = number
        /\ desk[p].stage = "idle" => Lifecycle!MayStart(p)
             /\ (number \in Lifecycle!Made => Last \in Lifecycle!Made)
        /\ ecn' \in [Lifecycle!Notice -> Lifecycle!Status]
        /\ \A m \in Lifecycle!Notice : ecn'[m] # "DRAFT" =>
             ecn[m] # "DRAFT" \/ (desk[p].stage = "idle" /\ m = n)
  <2>1. CASE \E n \in Lifecycle!Notice : Lifecycle!ApproveInAdmin(p, n)
    <3> PICK n \in Lifecycle!Notice : Lifecycle!ApproveInAdmin(p, n)
      BY <2>1
    <3>1. PICK k \in 0..Last : Lifecycle!Made = 1..k
      BY DEF VersionsInv, Gapless
    <3>2. /\ Lifecycle!NextNumber \in 1..Last
          /\ Lifecycle!NextNumber \in Lifecycle!Made => k = Last
          /\ Lifecycle!NextNumber \notin Lifecycle!Made => Lifecycle!NextNumber = k + 1
      BY <3>1, NextIs
    <3>3. Lifecycle!NextNumber \in Lifecycle!Number /\ Lifecycle!NextNumber <= Last
      BY <3>2, NumbersFit DEF Last
    <3>4. /\ Lifecycle!NextNumber \in Lifecycle!Made => Last \in Lifecycle!Made
          /\ \A i \in 0..Last : 1..i = 1..k => i = k
      BY <3>1, <3>2, VersionsNumbers DEF Last
    <3>5. \/ Lifecycle!NextNumber \in Lifecycle!Made
          \/ \A i \in 0..Last : Lifecycle!Made = 1..i => Lifecycle!NextNumber = i + 1
               /\ Lifecycle!NextNumber <= Last
      BY <3>1, <3>2, <3>3, <3>4
    <3>6. /\ desk' = [desk EXCEPT ![p] = desk[p]]
          /\ desk[p].stage = "idle" /\ desk[p] \in Lifecycle!Work /\ Lifecycle!MayStart(p)
      BY DEF Lifecycle!ApproveInAdmin, Lifecycle!MayStart, Lifecycle!At, VersionsInv,
         Lifecycle!TypeOK
    <3>7. /\ ecn' \in [Lifecycle!Notice -> Lifecycle!Status]
          /\ \A m \in Lifecycle!Notice : ecn'[m] # "DRAFT" => ecn[m] # "DRAFT" \/ m = n
      BY DEF Lifecycle!ApproveInAdmin, VersionsInv, Lifecycle!TypeOK, Lifecycle!Status
    <3>8. Lifecycle!Makes(n, Lifecycle!NextNumber) /\ UNCHANGED <<version, entries>>
      BY DEF Lifecycle!ApproveInAdmin
    <3> QED BY <3>3, <3>4, <3>5, <3>6, <3>7, <3>8
  <2>2. CASE Lifecycle!CreateRevision(p)
    <3> DEFINE n == desk[p].at  number == desk[p].number
    <3>1. PICK k \in 0..Last : /\ Lifecycle!Made = 1..k
                               /\ number \in 1..(k + 1) /\ number <= Last
      BY <2>2 DEF Lifecycle!CreateRevision, VersionsInv, Gapless
    <3>2. k \in Nat /\ Last \in Nat /\ \A i \in 0..Last : 1..i = 1..k => i = k
      BY VersionsNumbers DEF Last
    <3>3. number \in Lifecycle!Number /\ (number \in Lifecycle!Made \/ number = k + 1)
      BY <3>1, <3>2, NumbersFit
    <3>4. number \in Lifecycle!Made \/ \A i \in 0..Last : Lifecycle!Made = 1..i => number = i + 1
            /\ number <= Last
      BY <3>1, <3>2, <3>3
    <3>5. desk[p].stage = "number" /\ n \in Lifecycle!Notice
      BY <2>2 DEF Lifecycle!CreateRevision, VersionsInv, Gapless, Lifecycle!At
    <3>6. /\ desk' = [desk EXCEPT ![p] = Lifecycle!Idle] /\ UNCHANGED <<version, ecn, entries>>
          /\ Lifecycle!Makes(n, number)
      BY <2>2 DEF Lifecycle!CreateRevision, Lifecycle!Done, Lifecycle!Goto
    <3>7. ecn \in [Lifecycle!Notice -> Lifecycle!Status]
      BY DEF VersionsInv, Lifecycle!TypeOK
    <3> HIDE DEF number
    <3> QED BY <3>3, <3>4, <3>5, <3>6, <3>7, VersionIdle DEF number
  <2> QED BY <2>1, <2>2
<1>2. desk'[p] = w /\ \A q \in Session : q # p => desk'[q] = desk[q]
  BY <1>1 DEF VersionsInv, Lifecycle!TypeOK
<1>3. /\ revision' \in [Lifecycle!Number -> 0..Notices]
      /\ \A m \in Lifecycle!Number : m \in Lifecycle!Made => m \in Lifecycle!Made'
           /\ revision'[m] = revision[m]
      /\ number \notin Lifecycle!Made => number \in Lifecycle!Made' /\ revision'[number] = n
      /\ \E k \in 0..Last :
           /\ Lifecycle!Made' = 1..k
           /\ \A q \in Session : Lifecycle!At(q, "number") =>
                desk[q].number \in 1..(k + 1) /\ desk[q].number <= Last
  BY <1>1, MakesNext DEF VersionsInv
<1>4. Lifecycle!TypeOK'
  BY <1>1, <1>3 DEF VersionsInv, Lifecycle!TypeOK
<1>5. VersionsAlone => VersionsOneRequest'
  BY <1>1, <1>2 DEF VersionsInv, VersionsOneRequest, Lifecycle!At
<1>6. Succeeded'
  BY <1>1, SucceededStays DEF Lifecycle!At
<1>7. Gapless'
  <2>1. \A q \in Session :
         desk'[q].stage \in {"approve", "approved", "number"} => desk'[q].at \in Lifecycle!Notice
    BY <1>1, <1>2 DEF VersionsInv, Gapless
  <2>2. \A q \in Session : Lifecycle!At(q, "number")' => Lifecycle!At(q, "number")
          /\ desk'[q] = desk[q]
    BY <1>1, <1>2 DEF Lifecycle!At
  <2> QED BY <1>3, <2>1, <2>2 DEF Gapless
<1>8. Revised'
  <2> SUFFICES ASSUME VersionsAlone, "crash" \notin entries PROVE Revised'
    BY <1>1 DEF Revised, VersionsAlone
  <2>1. \A q \in Session : desk'[q].stage = "idle"
    BY <1>1, <1>2 DEF VersionsInv, VersionsOneRequest, Lifecycle!MayStart, Lifecycle!AtRest,
       VersionsAlone, Lifecycle!At
  <2>2. HasRevision(n)' \/ Last \in Lifecycle!Made
    <3>1. number \notin Lifecycle!Made \/ Last \in Lifecycle!Made
      BY <1>1 DEF VersionsInv, Revised, Lifecycle!At
    <3> QED BY <1>3, <3>1 DEF HasRevision
  <2>3. \A m \in Lifecycle!Notice : HasRevision(m) => HasRevision(m)'
    <3>1. \A i \in Lifecycle!Made : i \in Lifecycle!Number
      BY DEF Lifecycle!Made
    <3> QED BY <1>3, <3>1 DEF HasRevision
  <2>4. Last \in Lifecycle!Made => Last \in Lifecycle!Made'
    BY <1>3, NumbersFit
  <2>5. ASSUME NEW m \in Lifecycle!Notice, ecn'[m] # "DRAFT" PROVE HasRevision(m)'
               \/ Last \in Lifecycle!Made'
    <3>1. CASE ecn[m] # "DRAFT"
      <4>1. ASSUME NEW q \in Session, desk[q].stage \in {"approved", "number"},
                   desk[q].at = m
            PROVE  m = n
        BY <1>1, <2>1, <1>2, <4>1
      <4> QED BY <2>2, <2>3, <2>4, <3>1, <4>1 DEF VersionsInv, Revised
    <3>2. CASE m = n
      BY <2>2, <2>4, <3>2
    <3> QED BY <1>1, <2>5, <3>1, <3>2
  <2> QED BY <2>1, <2>5 DEF Revised, Lifecycle!At
<1> QED BY <1>1, <1>4, <1>5, <1>6, <1>7, <1>8 DEF VersionsInv, VersionsAlone

-----------------------------------------------------------------------------
(* The versions and the revisions. *)

LEMMA VersionsStart == Lifecycle!Init => VersionsInv
<1> SUFFICES ASSUME Lifecycle!Init PROVE VersionsInv
  OBVIOUS
<1>1. \A p \in Session : desk[p] = Lifecycle!Idle /\ desk[p].stage = "idle"
  BY VersionIdle DEF Lifecycle!Init
<1>2. Lifecycle!TypeOK
  BY VersionIdle, VersionsNumbers DEF Lifecycle!Init, Lifecycle!TypeOK, Lifecycle!State,
     Lifecycle!Status
<1>3. \A v \in Lifecycle!VersionId : version[v] = "absent"
  BY DEF Lifecycle!Init
<1>4. Succeeded
  BY <1>1, <1>3, NumbersFit DEF Succeeded, Lifecycle!InForce, Lifecycle!At
<1>5. Lifecycle!Made = {}
  BY DEF Lifecycle!Init, Lifecycle!Made
<1>6. Lifecycle!Made = 1..0 /\ 0 \in 0..Last
  BY <1>5, VersionsNumbers DEF Last
<1>7. Gapless
  BY <1>1, <1>6 DEF Gapless, Lifecycle!At
<1>8. Revised
  BY <1>1 DEF Revised, Lifecycle!Init, Lifecycle!At
<1> QED BY <1>1, <1>2, <1>4, <1>7, <1>8 DEF VersionsInv, VersionsOneRequest, Lifecycle!At

LEMMA VersionsStep == VersionsInv /\ [Lifecycle!Next]_(Lifecycle!vars) => VersionsInv'
<1> SUFFICES ASSUME VersionsInv, [Lifecycle!Next]_(Lifecycle!vars) PROVE VersionsInv'
  OBVIOUS
<1>1. CASE UNCHANGED Lifecycle!vars
  BY <1>1 DEF Lifecycle!vars, VersionsInv, Lifecycle!TypeOK, VersionsAlone, VersionsOneRequest,
     Succeeded, Gapless, Revised,
     HasRevision, Activates, Lifecycle!InForce, Lifecycle!Made, Lifecycle!At
<1> QED BY <1>1, VersionStep, NoticeStep, LookStep, RevisionStep DEF Lifecycle!Next

LEMMA VersionsKeep == VersionsInv => Lifecycle!OneInForce /\ Lifecycle!ApprovedRevised
<1> SUFFICES ASSUME VersionsInv PROVE Lifecycle!OneInForce /\ Lifecycle!ApprovedRevised
  OBVIOUS
<1>1. Lifecycle!AtRest /\ "crash" \notin entries => Cardinality(Lifecycle!InForce) <= 1
  <2> SUFFICES ASSUME Lifecycle!AtRest, "crash" \notin entries, Lifecycle!InForce # {}
               PROVE  Cardinality(Lifecycle!InForce) <= 1
    BY FS_EmptySet
  <2>1. \A u, v \in Lifecycle!InForce : u = v
    BY DEF VersionsInv, Succeeded, Activates, Lifecycle!AtRest, Lifecycle!At
  <2>2. PICK v : Lifecycle!InForce = {v}
    BY <2>1
  <2>3. Cardinality({v}) = 1
    BY FS_Singleton
  <2> QED BY <2>2, <2>3
<1>2. Lifecycle!OneInForce
  BY <1>1, VersionsCardinality DEF Lifecycle!OneInForce, VersionsInv, Succeeded, VersionsAlone
<1>3. PICK k \in 0..Last : Lifecycle!Made = 1..k
  BY DEF VersionsInv, Gapless
<1>4. k \in Nat
  BY VersionsNumbers DEF Last
<1>5. Cardinality(1..k) = k
  BY <1>4, FS_Interval
<1>6. Lifecycle!ApprovedRevised
  BY <1>3, <1>5, VersionsCardinality DEF Lifecycle!ApprovedRevised, VersionsInv, Revised,
    HasRevision, VersionsAlone,
     Lifecycle!AtRest, Lifecycle!At, Last
<1> QED BY <1>2, <1>6

-----------------------------------------------------------------------------
(* Vehicles and their routes. *)

\* What the constants of this part are.
LEMMA RoutesNumbers ==
    Vehicles \in Nat \ {0} /\ RouteCount \in Nat
BY BackOfficeAssumption

-----------------------------------------------------------------------------
(* The invariant. *)

\* Nobody dies and nobody sets the status of a vehicle by hand.
LeftToRoutes == entries \cap {"vehicle", "crash"} = {}

\* A request that is in progress is about a route, and was read in its status.
AboutRoute ==
    \A p \in Session : ~Delivery!At(p, "idle") => desk[p].at \in Delivery!RouteId

\* What p does to the vehicle of its route when its handler runs.
WillTake(p, v) ==
    /\ Delivery!At(p, "saved") /\ desk[p].row = [status |-> "IN_PROGRESS", vehicle |-> v]
    /\ desk[p].cached # "IN_USE"
WillFree(p, v) ==
    /\ Delivery!At(p, "saved") /\ desk[p].row = [status |-> "COMPLETED", vehicle |-> v]
    /\ desk[p].cached = "IN_USE"

\* As long as no route is completed, no vehicle is ever freed.
NeverFreed ==
    "complete" \notin entries =>
        /\ \A r \in Delivery!RouteId : route[r].status # "COMPLETED"
        /\ \A p \in Session : ~Delivery!At(p, "idle") =>
             /\ desk[p].row.status # "COMPLETED"
             /\ desk[p].cached = "IN_USE" => vehicle[desk[p].row.vehicle] = "IN_USE"
        /\ \A v \in Delivery!VehicleId :
             Delivery!OnRoad(v) => vehicle[v] = "IN_USE" \/ \E p \in Session : WillTake(p, v)

\* One request at a time: it knows the status of the vehicle, and writes a
\* status that follows that of its row.
KnowsVehicle(p) ==
    LET w == desk[p]
    IN  ~Delivery!At(p, "idle") =>
          /\ w.cached = vehicle[w.row.vehicle]
          /\ "move" \in entries \/ w.row.vehicle = route[w.at].vehicle
          /\ Delivery!At(p, "checked") =>
                        w.row.status = route[w.at].status
                          \/ Delivery!Follows(route[w.at].status, w.row.status)
          /\ Delivery!At(p, "saved") => route[w.at] = w.row
RoutesOneByOne ==
    "race" \notin entries =>
        /\ \A p, q \in Session : ~Delivery!At(p, "idle") /\ ~Delivery!At(q, "idle") => p = q
        /\ \A p \in Session : KnowsVehicle(p)
        /\ \A v \in Delivery!VehicleId :
             /\ Delivery!OnRoad(v) /\ ~Delivery!BackHome(v) =>
                  vehicle[v] = "IN_USE" \/ \E p \in Session : WillTake(p, v)
             /\ vehicle[v] = "IN_USE" /\ "move" \notin entries =>
                  Delivery!OnRoad(v) \/ \E p \in Session : WillFree(p, v)

RoutesInv ==
    /\ Delivery!TypeOK /\ AboutRoute
    /\ LeftToRoutes => NeverFreed /\ RoutesOneByOne

LEMMA RouteIdle == Delivery!Idle \in Delivery!Work /\ Delivery!Idle.stage = "idle"
BY RoutesNumbers DEF Delivery!Idle, Delivery!Work, Delivery!Route, Delivery!Status,
   Delivery!VehicleId, Delivery!VehicleStatus

\* The fields of what a request holds.
LEMMA WorkFields ==
    ASSUME Delivery!TypeOK, NEW p \in Session
    PROVE  /\ desk[p] \in Delivery!Work
           /\ desk[p].row \in Delivery!Route /\ desk[p].cached \in Delivery!VehicleStatus
           /\ desk[p].row.vehicle \in Delivery!VehicleId /\ desk[p].row.status \in Delivery!Status
           /\ desk[p].at \in 0..RouteCount
BY DEF Delivery!TypeOK, Delivery!Work, Delivery!Route

LEMMA RouteFields ==
    ASSUME Delivery!TypeOK, NEW r \in Delivery!RouteId
    PROVE  /\ route[r] \in Delivery!Route /\ route[r].status \in Delivery!Status
                /\ route[r].vehicle \in Delivery!VehicleId
           /\ \A v \in Delivery!VehicleId :
                (route[r] = [status |-> "IN_PROGRESS", vehicle |-> v]) <=>
                  route[r].status = "IN_PROGRESS" /\ route[r].vehicle = v
BY DEF Delivery!TypeOK, Delivery!Route

-----------------------------------------------------------------------------
(* The steps. *)

LEMMA ReadsStep ==
    ASSUME RoutesInv, NEW p \in Session, NEW r \in Delivery!RouteId, NEW row \in Delivery!Route,
           Delivery!Reads(p, r, row),
           "move" \in entries \/ row.vehicle = route[r].vehicle,
           LeftToRoutes /\ "complete" \notin entries => row.status # "COMPLETED"
    PROVE  RoutesInv'
<1> DEFINE w == [stage |-> "read", at |-> r, row |-> row, cached |-> vehicle[row.vehicle]]
<1>1. w \in Delivery!Work /\ w.stage = "read" /\ w.at = r /\ w.row = row
        /\ w.cached = vehicle[row.vehicle]
  BY DEF RoutesInv, Delivery!TypeOK, Delivery!Work, Delivery!Route, Delivery!RouteId
<1>2. desk' = [desk EXCEPT ![p] = w] /\ UNCHANGED <<vehicle, route, entries>>
        /\ Delivery!MayStart(p)
  BY DEF Delivery!Reads, Delivery!Goto
<1> HIDE DEF w
<1>3. desk'[p] = w /\ \A q \in Session : q # p => desk'[q] = desk[q]
  BY <1>2 DEF RoutesInv, Delivery!TypeOK
<1>4. Delivery!TypeOK'
  BY <1>1, <1>2 DEF RoutesInv, Delivery!TypeOK
<1>5. AboutRoute'
  BY <1>1, <1>2, <1>3 DEF RoutesInv, AboutRoute, Delivery!At
<1>6. \A v \in Delivery!VehicleId : (Delivery!OnRoad(v)' <=> Delivery!OnRoad(v))
        /\ (Delivery!BackHome(v)' <=> Delivery!BackHome(v))
  BY <1>2 DEF Delivery!OnRoad, Delivery!BackHome
<1>7. \A v \in Delivery!VehicleId : \A q \in Session :
        (WillTake(q, v)' <=> WillTake(q, v)) /\ (WillFree(q, v)' <=> WillFree(q, v))
  BY <1>1, <1>3, <1>2 DEF WillTake, WillFree, Delivery!At, Delivery!MayStart
<1>8. ASSUME LeftToRoutes, NeverFreed PROVE NeverFreed'
  BY <1>1, <1>2, <1>3, <1>6, <1>7, <1>8 DEF NeverFreed, Delivery!At
<1>9. ASSUME RoutesOneByOne PROVE RoutesOneByOne'
  <2> SUFFICES ASSUME "race" \notin entries PROVE RoutesOneByOne'
    BY <1>2 DEF RoutesOneByOne
  <2>1. \A q \in Session : q # p => desk'[q].stage = "idle"
    BY <1>2, <1>3 DEF Delivery!MayStart, Delivery!AtRest, Delivery!At
  <2>2. \A q \in Session : KnowsVehicle(q)'
    BY <1>1, <1>2, <1>3, <2>1 DEF KnowsVehicle, Delivery!At
  <2> QED BY <1>2, <1>6, <1>7, <1>9, <2>1, <2>2 DEF RoutesOneByOne, Delivery!At
<1> QED BY <1>2, <1>4, <1>5, <1>8, <1>9 DEF RoutesInv, LeftToRoutes

LEMMA CheckStep ==
    ASSUME RoutesInv, NEW p \in Session, Delivery!Check(p)
    PROVE  RoutesInv'
<1>1. PICK w \in Delivery!Work :
        /\ desk' = [desk EXCEPT ![p] = w]
        /\ \/ /\ w.stage = "checked" /\ w.at = desk[p].at /\ w.row = desk[p].row
              /\ w.cached = desk[p].cached
              /\ \/ w.row.status = route[w.at].status
                 \/ Delivery!Follows(route[w.at].status, w.row.status)
           \/ w = Delivery!Idle
  <2>1. CASE desk[p].row.status = route[desk[p].at].status
              \/ Delivery!Follows(route[desk[p].at].status, desk[p].row.status)
    BY <2>1, WorkFields DEF Delivery!Check, RoutesInv, Delivery!Goto, Delivery!Work
  <2>2. CASE ~(desk[p].row.status = route[desk[p].at].status
              \/ Delivery!Follows(route[desk[p].at].status, desk[p].row.status))
    BY <2>2, RouteIdle DEF Delivery!Check, Delivery!Done, Delivery!Goto
  <2> QED BY <2>1, <2>2
<1>2. Delivery!At(p, "read") /\ UNCHANGED <<vehicle, route, entries>>
  BY DEF Delivery!Check
<1>3. desk'[p] = w /\ \A q \in Session : q # p => desk'[q] = desk[q]
  BY <1>1 DEF RoutesInv, Delivery!TypeOK
<1>4. Delivery!TypeOK'
  BY <1>1, <1>2 DEF RoutesInv, Delivery!TypeOK
<1>5. AboutRoute'
  BY <1>1, <1>2, <1>3, RouteIdle DEF RoutesInv, AboutRoute, Delivery!At
<1>6. \A v \in Delivery!VehicleId : (Delivery!OnRoad(v)' <=> Delivery!OnRoad(v))
        /\ (Delivery!BackHome(v)' <=> Delivery!BackHome(v))
  BY <1>2 DEF Delivery!OnRoad, Delivery!BackHome
<1>7. \A v \in Delivery!VehicleId : \A q \in Session :
        (WillTake(q, v)' <=> WillTake(q, v)) /\ (WillFree(q, v)' <=> WillFree(q, v))
  BY <1>1, <1>3, <1>2, RouteIdle DEF WillTake, WillFree, Delivery!At
<1>8. ASSUME NeverFreed PROVE NeverFreed'
  BY <1>1, <1>2, <1>3, <1>6, <1>7, <1>8, RouteIdle DEF NeverFreed, Delivery!At
<1>9. ASSUME RoutesOneByOne PROVE RoutesOneByOne'
  <2> SUFFICES ASSUME "race" \notin entries PROVE RoutesOneByOne'
    BY <1>2 DEF RoutesOneByOne
  <2>1. \A q \in Session : q # p => desk'[q].stage = "idle"
    BY <1>2, <1>3, <1>9 DEF RoutesOneByOne, Delivery!At
  <2>2. \A q \in Session : KnowsVehicle(q)'
    BY <1>1, <1>2, <1>3, <1>9, <2>1, RouteIdle DEF KnowsVehicle, Delivery!At, RoutesOneByOne
  <2> QED BY <1>2, <1>6, <1>7, <1>9, <2>1, <2>2 DEF RoutesOneByOne, Delivery!At
<1> QED BY <1>2, <1>4, <1>5, <1>8, <1>9 DEF RoutesInv, LeftToRoutes

LEMMA WriteStep ==
    ASSUME RoutesInv, NEW p \in Session, Delivery!Write(p)
    PROVE  RoutesInv'
<1> DEFINE w == desk[p]  n == [w EXCEPT !.stage = "saved"]
<1>1. /\ n \in Delivery!Work /\ n.stage = "saved" /\ n.row = w.row /\ n.at = w.at
           /\ n.cached = w.cached
      /\ w.row \in Delivery!Route /\ w.row.vehicle \in Delivery!VehicleId
           /\ w.row.status \in Delivery!Status
  BY WorkFields DEF RoutesInv, Delivery!Work
<1>2. /\ desk' = [desk EXCEPT ![p] = n] /\ route' = [route EXCEPT ![w.at] = w.row]
      /\ UNCHANGED <<vehicle, entries>> /\ w.stage = "checked"
  BY DEF Delivery!Write, Delivery!Goto, Delivery!At
<1>3. w.at \in Delivery!RouteId
  BY <1>2 DEF RoutesInv, AboutRoute, Delivery!At
<1> HIDE DEF w, n
<1>4. /\ desk'[p] = n /\ \A q \in Session : q # p => desk'[q] = desk[q]
      /\ route'[w.at] = w.row /\ \A r \in Delivery!RouteId : r # w.at => route'[r] = route[r]
  BY <1>2, <1>3 DEF RoutesInv, Delivery!TypeOK
<1>5. Delivery!TypeOK'
  BY <1>1, <1>2 DEF RoutesInv, Delivery!TypeOK
<1>6. AboutRoute'
  BY <1>1, <1>3, <1>4 DEF RoutesInv, AboutRoute, Delivery!At
<1>7. \A v \in Delivery!VehicleId : WillTake(p, v)' <=>
        w.row = [status |-> "IN_PROGRESS", vehicle |-> v] /\ w.cached # "IN_USE"
  BY <1>1, <1>4 DEF WillTake, Delivery!At
<1>8. \A v \in Delivery!VehicleId : WillFree(p, v)' <=>
        w.row = [status |-> "COMPLETED", vehicle |-> v] /\ w.cached = "IN_USE"
  BY <1>1, <1>4 DEF WillFree, Delivery!At
<1>9. \A v \in Delivery!VehicleId : \A q \in Session : q # p =>
        (WillTake(q, v)' <=> WillTake(q, v)) /\ (WillFree(q, v)' <=> WillFree(q, v))
  BY <1>4 DEF WillTake, WillFree, Delivery!At
<1>10. \A v \in Delivery!VehicleId : ~WillTake(p, v) /\ ~WillFree(p, v)
  BY <1>2 DEF WillTake, WillFree, Delivery!At, w
<1>11. \A v \in Delivery!VehicleId :
         Delivery!OnRoad(v)' => Delivery!OnRoad(v)
           \/ w.row = [status |-> "IN_PROGRESS", vehicle |-> v]
  BY <1>4 DEF Delivery!OnRoad
<1>12. ASSUME NeverFreed PROVE NeverFreed'
  <2> SUFFICES ASSUME "complete" \notin entries PROVE NeverFreed'
    BY <1>2 DEF NeverFreed
  <2>1. w.row.status # "COMPLETED" /\ (w.cached = "IN_USE" => vehicle[w.row.vehicle] = "IN_USE")
    BY <1>2, <1>12 DEF NeverFreed, Delivery!At, w
  <2>2. \A r \in Delivery!RouteId : route'[r].status # "COMPLETED"
    BY <1>4, <1>12, <2>1 DEF NeverFreed
  <2>3. \A q \in Session : ~Delivery!At(q, "idle")' =>
             /\ desk'[q].row.status # "COMPLETED"
             /\ desk'[q].cached = "IN_USE" => vehicle'[desk'[q].row.vehicle] = "IN_USE"
    BY <1>1, <1>2, <1>4, <1>12, <2>1 DEF NeverFreed, Delivery!At
  <2>4. ASSUME NEW v \in Delivery!VehicleId, Delivery!OnRoad(v)'
        PROVE  vehicle'[v] = "IN_USE" \/ \E q \in Session : WillTake(q, v)'
    <3>1. CASE w.row = [status |-> "IN_PROGRESS", vehicle |-> v]
      <4>1. w.row.vehicle = v
        BY <3>1
      <4> QED BY <1>2, <1>7, <2>1, <3>1, <4>1
    <3>2. CASE Delivery!OnRoad(v)
      BY <1>2, <1>9, <1>10, <1>12, <3>2 DEF NeverFreed
    <3> QED BY <1>11, <2>4, <3>1, <3>2
  <2> QED BY <1>2, <2>2, <2>3, <2>4 DEF NeverFreed
<1>13. ASSUME RoutesOneByOne PROVE RoutesOneByOne'
  <2> SUFFICES ASSUME "race" \notin entries PROVE RoutesOneByOne'
    BY <1>2 DEF RoutesOneByOne
  <2>1. \A q \in Session : q # p => desk'[q].stage = "idle"
    BY <1>2, <1>4, <1>13 DEF RoutesOneByOne, Delivery!At, w
  <2>2. /\ w.cached = vehicle[w.row.vehicle]
        /\ "move" \in entries \/ w.row.vehicle = route[w.at].vehicle
        /\ w.row.status = route[w.at].status \/ Delivery!Follows(route[w.at].status, w.row.status)
    BY <1>2, <1>13 DEF RoutesOneByOne, KnowsVehicle, Delivery!At, w
  <2>3. \A q \in Session : KnowsVehicle(q)'
    BY <1>1, <1>2, <1>4, <2>1, <2>2 DEF KnowsVehicle, Delivery!At
  <2>4. route[w.at].status = "COMPLETED" => w.row.status = "COMPLETED"
    BY <2>2 DEF Delivery!Follows
  <2>5. \A v \in Delivery!VehicleId : Delivery!BackHome(v) => Delivery!BackHome(v)'
    <3> TAKE v \in Delivery!VehicleId
    <3> SUFFICES ASSUME Delivery!BackHome(v) PROVE Delivery!BackHome(v)'
      OBVIOUS
    <3>1. PICK r \in Delivery!RouteId :
            route[r].status = "COMPLETED" /\ ("move" \in entries \/ route[r].vehicle = v)
      BY DEF Delivery!BackHome
    <3>2. route'[r].status = "COMPLETED" /\ ("move" \in entries \/ route'[r].vehicle = v)
      BY <1>4, <2>2, <2>4, <3>1
    <3> QED BY <1>2, <3>2 DEF Delivery!BackHome
  <2>6. ASSUME NEW v \in Delivery!VehicleId, Delivery!OnRoad(v)', ~Delivery!BackHome(v)'
        PROVE  vehicle'[v] = "IN_USE" \/ \E q \in Session : WillTake(q, v)'
    <3>1. CASE w.row = [status |-> "IN_PROGRESS", vehicle |-> v]
      <4>1. w.row.vehicle = v
        BY <3>1
      <4> QED BY <1>2, <1>7, <2>2, <3>1, <4>1
    <3>2. CASE Delivery!OnRoad(v)
      BY <1>2, <1>9, <1>10, <1>13, <2>5, <2>6, <3>2 DEF RoutesOneByOne
    <3> QED BY <1>11, <2>6, <3>1, <3>2
  <2>7. ASSUME NEW v \in Delivery!VehicleId, vehicle'[v] = "IN_USE", "move" \notin entries
        PROVE  Delivery!OnRoad(v)' \/ \E q \in Session : WillFree(q, v)'
    <3>1. Delivery!OnRoad(v)
      <4>1. \A q \in Session : ~WillFree(q, v)
        BY <1>10, <1>2, <1>4, <2>1 DEF WillFree, Delivery!At
      <4> QED BY <1>2, <1>13, <2>7, <4>1 DEF RoutesOneByOne
    <3>2. PICK r \in Delivery!RouteId : route[r] = [status |-> "IN_PROGRESS", vehicle |-> v]
      BY <3>1 DEF Delivery!OnRoad
    <3>3. CASE r # w.at
      BY <1>4, <3>2, <3>3 DEF Delivery!OnRoad
    <3>4. CASE r = w.at
      <4>1. route[w.at].status = "IN_PROGRESS" /\ route[w.at].vehicle = v
        BY <3>2, <3>4
      <4>2. w.row.vehicle = v /\ w.row.status \in {"IN_PROGRESS", "COMPLETED"}
        BY <2>2, <2>7, <4>1 DEF Delivery!Follows
      <4>3. w.row = [status |-> w.row.status, vehicle |-> v]
        BY <1>1, <4>2 DEF Delivery!Route
      <4>4. CASE w.row.status = "IN_PROGRESS"
        BY <1>3, <1>4, <4>3, <4>4 DEF Delivery!OnRoad
      <4>5. CASE w.row.status = "COMPLETED"
        BY <1>2, <1>8, <2>2, <2>7, <4>2, <4>3, <4>5
      <4> QED BY <4>2, <4>4, <4>5
    <3> QED BY <3>3, <3>4
  <2> QED BY <1>2, <2>1, <2>3, <2>6, <2>7 DEF RoutesOneByOne, Delivery!At
<1> QED BY <1>2, <1>5, <1>6, <1>12, <1>13 DEF RoutesInv, LeftToRoutes

LEMMA RoutesHandleSaveStep ==
    ASSUME RoutesInv, NEW p \in Session, Delivery!HandleSave(p)
    PROVE  RoutesInv'
<1> DEFINE w == desk[p]  x == w.row.vehicle
           s == IF Delivery!Takes(w.row.status, w.cached) THEN "IN_USE"
                ELSE IF Delivery!Frees(w.row.status, w.cached) THEN "AVAILABLE" ELSE vehicle[x]
<1>1. w.row \in Delivery!Route /\ x \in Delivery!VehicleId /\ w.row.status \in Delivery!Status
  BY WorkFields DEF RoutesInv
<1>2. /\ desk' = [desk EXCEPT ![p] = Delivery!Idle] /\ vehicle' = [vehicle EXCEPT ![x] = s]
      /\ UNCHANGED <<route, entries>> /\ w.stage = "saved"
  BY DEF Delivery!HandleSave, Delivery!Done, Delivery!Goto, Delivery!At
<1>3. /\ Delivery!Takes(w.row.status, w.cached) => s = "IN_USE"
      /\ Delivery!Frees(w.row.status, w.cached) => s = "AVAILABLE"
      /\ ~Delivery!Takes(w.row.status, w.cached) /\ ~Delivery!Frees(w.row.status, w.cached)
           => s = vehicle[x]
      /\ s \in Delivery!VehicleStatus
  BY <1>1 DEF Delivery!Takes, Delivery!Frees, RoutesInv, Delivery!TypeOK, Delivery!VehicleStatus
<1>4. w.row = [status |-> w.row.status, vehicle |-> x]
  BY <1>1 DEF Delivery!Route
<1>5. \A v \in Delivery!VehicleId : WillTake(p, v) => v = x /\ s = "IN_USE"
  BY <1>1, <1>3 DEF WillTake, Delivery!Takes
<1>6. \A v \in Delivery!VehicleId : WillFree(p, v) => v = x /\ s = "AVAILABLE"
  BY <1>1, <1>3 DEF WillFree, Delivery!Frees
<1> HIDE DEF w, x, s
<1>7. /\ desk'[p] = Delivery!Idle /\ \A q \in Session : q # p => desk'[q] = desk[q]
      /\ vehicle'[x] = s /\ \A v \in Delivery!VehicleId : v # x => vehicle'[v] = vehicle[v]
  BY <1>1, <1>2 DEF RoutesInv, Delivery!TypeOK
<1>8. Delivery!TypeOK'
  BY <1>2, <1>3, RouteIdle DEF RoutesInv, Delivery!TypeOK
<1>9. AboutRoute'
  BY <1>2, <1>7, RouteIdle DEF RoutesInv, AboutRoute, Delivery!At
<1>10. \A v \in Delivery!VehicleId : (Delivery!OnRoad(v)' <=> Delivery!OnRoad(v))
         /\ (Delivery!BackHome(v)' <=> Delivery!BackHome(v))
  BY <1>2 DEF Delivery!OnRoad, Delivery!BackHome
<1>11. \A v \in Delivery!VehicleId : \A q \in Session : q # p =>
        (WillTake(q, v)' <=> WillTake(q, v)) /\ (WillFree(q, v)' <=> WillFree(q, v))
  BY <1>7 DEF WillTake, WillFree, Delivery!At
<1>12. ASSUME NeverFreed PROVE NeverFreed'
  <2> SUFFICES ASSUME "complete" \notin entries PROVE NeverFreed'
    BY <1>2 DEF NeverFreed
  <2>1. w.row.status # "COMPLETED"
    BY <1>2, <1>12 DEF NeverFreed, Delivery!At, w
  <2>2. \A v \in Delivery!VehicleId : vehicle[v] = "IN_USE" => vehicle'[v] = "IN_USE"
    BY <1>3, <1>7, <2>1 DEF Delivery!Frees
  <2>3. \A q \in Session : desk[q].row.vehicle \in Delivery!VehicleId
    BY WorkFields DEF RoutesInv
  <2>4. \A q \in Session : ~Delivery!At(q, "idle")' =>
             /\ desk'[q].row.status # "COMPLETED"
             /\ desk'[q].cached = "IN_USE" => vehicle'[desk'[q].row.vehicle] = "IN_USE"
    BY <1>7, <1>12, <2>2, <2>3, RouteIdle DEF NeverFreed, Delivery!At
  <2>5. \A v \in Delivery!VehicleId :
          Delivery!OnRoad(v)' => vehicle'[v] = "IN_USE" \/ \E q \in Session : WillTake(q, v)'
    BY <1>5, <1>7, <1>10, <1>11, <1>12, <2>2 DEF NeverFreed
  <2> QED BY <1>2, <1>12, <2>4, <2>5 DEF NeverFreed
<1>13. ASSUME RoutesOneByOne PROVE RoutesOneByOne'
  <2> SUFFICES ASSUME "race" \notin entries PROVE RoutesOneByOne'
    BY <1>2 DEF RoutesOneByOne
  <2>1. \A q \in Session : desk'[q].stage = "idle"
    BY <1>2, <1>7, <1>13, RouteIdle DEF RoutesOneByOne, Delivery!At, w
  <2>2. /\ w.cached = vehicle[x] /\ route[w.at] = w.row /\ w.at \in Delivery!RouteId
    BY <1>2, <1>13 DEF RoutesOneByOne, KnowsVehicle, Delivery!At, w, x, RoutesInv, AboutRoute
  <2>3. \A q \in Session : q # p => ~Delivery!At(q, "saved")
    BY <1>2, <1>13 DEF RoutesOneByOne, Delivery!At, w
  <2>4. ASSUME NEW v \in Delivery!VehicleId, Delivery!OnRoad(v), ~Delivery!BackHome(v)
        PROVE  vehicle'[v] = "IN_USE"
    <3>1. vehicle[v] = "IN_USE" \/ WillTake(p, v)
      BY <1>13, <2>3, <2>4 DEF RoutesOneByOne, WillTake
    <3>2. v = x => ~Delivery!Frees(w.row.status, w.cached)
      BY <2>2, <2>4 DEF Delivery!BackHome, Delivery!Frees, x
    <3> QED BY <1>3, <1>5, <1>7, <3>1, <3>2
  <2>5. ASSUME NEW v \in Delivery!VehicleId, vehicle'[v] = "IN_USE", "move" \notin entries
        PROVE  Delivery!OnRoad(v)
    <3>1. CASE v = x /\ Delivery!Takes(w.row.status, w.cached)
      BY <1>4, <2>2, <3>1 DEF Delivery!OnRoad, Delivery!Takes
    <3>2. CASE vehicle[v] = "IN_USE" /\ (v = x => ~Delivery!Frees(w.row.status, w.cached))
      <4>1. ~WillFree(p, v)
        BY <3>2 DEF WillFree, Delivery!Frees, w, x
      <4> QED BY <1>13, <2>3, <2>5, <3>2, <4>1 DEF RoutesOneByOne, WillFree
    <3> QED BY <1>3, <1>7, <2>5, <3>1, <3>2
  <2>6. \A q \in Session : KnowsVehicle(q)'
    BY <2>1 DEF KnowsVehicle, Delivery!At
  <2> QED BY <1>2, <1>10, <2>1, <2>4, <2>5, <2>6 DEF RoutesOneByOne, Delivery!At
<1> QED BY <1>2, <1>8, <1>9, <1>12, <1>13 DEF RoutesInv, LeftToRoutes

LEMMA OtherStep ==
    ASSUME RoutesInv, NEW p \in Session,
           Delivery!Crash(p) \/ \E v \in Delivery!VehicleId, to \in Delivery!VehicleStatus :
             Delivery!SetVehicle(p, v, to)
    PROVE  RoutesInv'
<1>1. CASE Delivery!Crash(p)
  <2>1. Delivery!TypeOK' /\ AboutRoute'
    BY <1>1, RouteIdle DEF Delivery!Crash, Delivery!Done, Delivery!Goto, RoutesInv,
      Delivery!TypeOK,
       AboutRoute, Delivery!At
  <2> QED BY <1>1, <2>1 DEF Delivery!Crash, RoutesInv, LeftToRoutes
<1>2. ASSUME NEW v \in Delivery!VehicleId, NEW to \in Delivery!VehicleStatus,
             Delivery!SetVehicle(p, v, to)
      PROVE  RoutesInv'
  BY <1>2 DEF Delivery!SetVehicle, RoutesInv, Delivery!TypeOK, AboutRoute, Delivery!At,
    LeftToRoutes
<1> QED BY <1>1, <1>2

-----------------------------------------------------------------------------
(* The vehicles. *)

LEMMA RoutesStart == Delivery!Init => RoutesInv
<1> SUFFICES ASSUME Delivery!Init PROVE RoutesInv
  OBVIOUS
<1>1. Delivery!TypeOK
  BY RouteIdle DEF Delivery!Init, Delivery!TypeOK, Delivery!VehicleStatus, Delivery!Route,
     Delivery!Status
<1>2. \A p \in Session : Delivery!At(p, "idle")
  BY RouteIdle DEF Delivery!Init, Delivery!At
<1>3. \A v \in Delivery!VehicleId : vehicle[v] = "AVAILABLE"
  BY DEF Delivery!Init
<1>4. \A r \in Delivery!RouteId : route[r].status = "PLANNED"
  BY DEF Delivery!Init
<1>5. \A v \in Delivery!VehicleId : ~Delivery!OnRoad(v)
  BY <1>4 DEF Delivery!OnRoad
<1> QED BY <1>1, <1>2, <1>3, <1>4, <1>5
        DEF RoutesInv, AboutRoute, NeverFreed, RoutesOneByOne, KnowsVehicle

LEMMA RoutesStep == RoutesInv /\ [Delivery!Next]_(Delivery!vars) => RoutesInv'
<1> SUFFICES ASSUME RoutesInv, [Delivery!Next]_(Delivery!vars) PROVE RoutesInv'
  OBVIOUS
<1>1. CASE UNCHANGED Delivery!vars
  BY <1>1 DEF Delivery!vars, RoutesInv, Delivery!TypeOK, AboutRoute, LeftToRoutes, NeverFreed,
     RoutesOneByOne,
     KnowsVehicle, WillTake, WillFree, Delivery!OnRoad, Delivery!BackHome, Delivery!At
<1>2. ASSUME NEW p \in Session, NEW r \in Delivery!RouteId, NEW to \in Delivery!Status,
             Delivery!AskStatus(p, r, to)
      PROVE  RoutesInv'
  <2> DEFINE row == [route[r] EXCEPT !.status = to]
  <2>1. row \in Delivery!Route /\ row.vehicle = route[r].vehicle /\ row.status = to
    BY RouteFields DEF RoutesInv, Delivery!Route
  <2>2. Delivery!Reads(p, r, row) /\ (to = "COMPLETED" => "complete" \in entries)
    BY <1>2 DEF Delivery!AskStatus
  <2> HIDE DEF row
  <2> QED BY <2>1, <2>2, ReadsStep
<1>3. ASSUME NEW p \in Session, NEW r \in Delivery!RouteId, NEW v \in Delivery!VehicleId,
             Delivery!AskMove(p, r, v)
      PROVE  RoutesInv'
  <2> DEFINE row == [route[r] EXCEPT !.vehicle = v]
  <2>1. row \in Delivery!Route /\ row.status = route[r].status
    BY RouteFields DEF RoutesInv, Delivery!Route
  <2>2. Delivery!Reads(p, r, row) /\ "move" \in entries
    BY <1>3 DEF Delivery!AskMove
  <2>3. LeftToRoutes /\ "complete" \notin entries => row.status # "COMPLETED"
    BY <2>1 DEF RoutesInv, NeverFreed
  <2> HIDE DEF row
  <2> QED BY <2>1, <2>2, <2>3, ReadsStep
<1> QED BY <1>1, <1>2, <1>3, CheckStep, WriteStep, RoutesHandleSaveStep,
          OtherStep DEF Delivery!Next

LEMMA RoutesKeep == RoutesInv => Delivery!InUseOnTheRoad
<1> SUFFICES ASSUME RoutesInv, LeftToRoutes, Delivery!AtRest, NEW v \in Delivery!VehicleId
             PROVE  /\ Delivery!OnRoad(v) /\ ~Delivery!BackHome(v)
                         /\ ~({"race", "complete"} \subseteq entries) =>
                         vehicle[v] = "IN_USE"
                    /\ vehicle[v] = "IN_USE" /\ entries \cap {"move", "race"} = {}
                         => Delivery!OnRoad(v)
  BY DEF Delivery!InUseOnTheRoad, LeftToRoutes
<1>1. \A p \in Session : ~WillTake(p, v) /\ ~WillFree(p, v)
  BY DEF Delivery!AtRest, Delivery!At, WillTake, WillFree
<1> QED BY <1>1 DEF RoutesInv, NeverFreed, RoutesOneByOne

-----------------------------------------------------------------------------
(* The back office. *)

\* The part chosen at the start is the one that moves.
LEMMA PartStarts ==
    ASSUME BackOfficeInit
    PROVE  /\ part = "leave" => Leave!Init
           /\ part = "count" => StockCount!Init
           /\ part = "picking" => Picking!Init
           /\ part = "returns" => Returned!Init
           /\ part = "assets" => FixedAssets!Init
           /\ part = "upkeep" => Upkeep!Init
           /\ part = "quality" => Quality!Init
           /\ part = "lifecycle" => Lifecycle!Init
           /\ part = "delivery" => Delivery!Init
BY DEF BackOfficeInit

LEMMA PartMoves ==
    ASSUME [BackOfficeNext]_backoffice
    PROVE  /\ part' = part
           /\ part = "leave" => [Leave!Next]_(Leave!vars)
           /\ part = "count" => [StockCount!Next]_(StockCount!vars)
           /\ part = "picking" => [Picking!Next]_(Picking!vars)
           /\ part = "returns" => [Returned!Next]_(Returned!vars)
           /\ part = "assets" => [FixedAssets!Next]_(FixedAssets!vars)
           /\ part = "upkeep" => [Upkeep!Next]_(Upkeep!vars)
           /\ part = "quality" => [Quality!Next]_(Quality!vars)
           /\ part = "lifecycle" => [Lifecycle!Next]_(Lifecycle!vars)
           /\ part = "delivery" => [Delivery!Next]_(Delivery!vars)
BY DEF BackOfficeNext, backoffice, Leave!vars, StockCount!vars, Picking!vars, Returned!vars,
       FixedAssets!vars, Upkeep!vars, Quality!vars, Lifecycle!vars, Delivery!vars

BackOfficeInv ==
    /\ part = "leave" => LeaveInv
    /\ part = "count" => CountInv
    /\ part = "picking" => PickingInv
    /\ part = "returns" => ReturnsInv
    /\ part = "assets" => AssetsInv
    /\ part = "upkeep" => UpkeepInv
    /\ part = "quality" => QualityInv
    /\ part = "lifecycle" => VersionsInv
    /\ part = "delivery" => RoutesInv

LEMMA BackOfficeInvariant == BackOfficeSpec => []BackOfficeInv
<1>1. BackOfficeInit => BackOfficeInv
  BY PartStarts, LeaveStarts, CountStarts, PickingStarts, ReturnsStarts, AssetsStarts,
     UpkeepStarts, QualityStarts, VersionsStart, RoutesStart DEF BackOfficeInv
<1>2. BackOfficeInv /\ [BackOfficeNext]_backoffice => BackOfficeInv'
  <2> SUFFICES ASSUME BackOfficeInv, [BackOfficeNext]_backoffice PROVE BackOfficeInv'
    OBVIOUS
  <2>1. part = "leave" => LeaveInv'
    BY PartMoves, LeaveStep DEF BackOfficeInv
  <2>2. part = "count" => CountInv'
    BY PartMoves, CountStep DEF BackOfficeInv
  <2>3. part = "picking" => PickingInv'
    BY PartMoves, PickingStep DEF BackOfficeInv
  <2>4. part = "returns" => ReturnsInv'
    BY PartMoves, ReturnsStep DEF BackOfficeInv
  <2>5. part = "assets" => AssetsInv'
    BY PartMoves, AssetsStep DEF BackOfficeInv
  <2>6. part = "upkeep" => UpkeepInv'
    BY PartMoves, UpkeepStep DEF BackOfficeInv
  <2>7. part = "quality" => QualityInv'
    BY PartMoves, QualityStep DEF BackOfficeInv
  <2>8. part = "lifecycle" => VersionsInv'
    BY PartMoves, VersionsStep DEF BackOfficeInv
  <2>9. part = "delivery" => RoutesInv'
    BY PartMoves, RoutesStep DEF BackOfficeInv
  <2> QED BY <2>1, <2>2, <2>3, <2>4, <2>5, <2>6, <2>7, <2>8, <2>9, PartMoves DEF BackOfficeInv
<1> QED BY <1>1, <1>2, PTL DEF BackOfficeSpec

\* The days an employee used are those of the approved requests, and while the
\* view alone approves never more than there are.
THEOREM LeaveRight == BackOfficeSpec => []LeaveKept
<1>1. BackOfficeInv => LeaveKept
  BY LeaveKeeps DEF BackOfficeInv, LeaveKept, LeaveInv
<1> QED BY <1>1, BackOfficeInvariant, PTL

\* A count that is closed sets the stock to what was counted, and keeps what
\* has moved since.
THEOREM CountRightly == BackOfficeSpec => CountedExact
<1> DEFINE Step == part = "count" => StockCount!TypeOK' /\ StockCount!ClosesExact
<1>1. BackOfficeInv /\ [BackOfficeNext]_backoffice => [Step]_backoffice
  <2> SUFFICES ASSUME BackOfficeInv, [BackOfficeNext]_backoffice, part = "count" PROVE Step
    BY DEF Step
  <2>1. CountInv /\ [StockCount!Next]_(StockCount!vars)
    BY PartMoves DEF BackOfficeInv
  <2>2. CountInv' /\ [StockCount!ClosesExact]_(StockCount!vars)
    BY <2>1, CountStep
  <2>3. StockCount!ClosesExact
    BY <2>2 DEF StockCount!ClosesExact, StockCount!vars
  <2> QED BY <2>2, <2>3 DEF CountInv, Step
<1> QED BY <1>1, BackOfficeInvariant, PTL DEF BackOfficeSpec, CountedExact

\* Pick orders never issue more than there is, and what is finished has moved
\* its goods, once; a return takes its goods and claims its difference once, has
\* done both when it is confirmed, and takes off the cost what is its share.
THEOREM GoodsRight == BackOfficeSpec => []WarehouseKept
<1>1. BackOfficeInv => WarehouseKept
  <2> SUFFICES ASSUME BackOfficeInv PROVE WarehouseKept
    OBVIOUS
  <2>1. part = "picking" => /\ Picking!TypeOK /\ Picking!NeverOversold
                            /\ Picking!FinishedMoved /\ Picking!MovedOnce
    BY PickingKeeps DEF BackOfficeInv, PickingInv
  <2>2. part = "returns" => /\ Returned!TypeOK /\ Returned!BookedOnce
                            /\ Returned!ConfirmedBooked /\ Returned!CostFollowsGoods
    BY ReturnsKeep DEF BackOfficeInv, ReturnsInv
  <2> QED BY <2>1, <2>2 DEF WarehouseKept
<1> QED BY <1>1, BackOfficeInvariant, PTL

\* What an asset lost, its records, its books and its vouchers agree; one work
\* order of a schedule is open, and a machine that is down is worked on; an
\* inspection that failed is recorded and followed up; one version of a product
\* is in force; and a vehicle on the road is in use.
THEOREM AssetsRight == BackOfficeSpec => []AssetsKept
<1>1. BackOfficeInv => AssetsKept
  <2> SUFFICES ASSUME BackOfficeInv PROVE AssetsKept
    OBVIOUS
  <2>1. part = "assets" => /\ FixedAssets!TypeOK /\ FixedAssets!BooksAgree
                           /\ FixedAssets!DisposedPosted /\ FixedAssets!RecordsExact
    BY AssetsKeep DEF BackOfficeInv, AssetsInv
  <2>2. part = "upkeep" => Upkeep!TypeOK /\ Upkeep!OneOpenOrder /\ Upkeep!DownIsWorked
    BY UpkeepKeeps DEF BackOfficeInv, UpkeepInv
  <2>3. part = "quality" => Quality!TypeOK /\ Quality!FailedRecorded /\ Quality!Followed
    BY QualityKeeps DEF BackOfficeInv, QualityInv
  <2>4. part = "lifecycle" =>
          Lifecycle!TypeOK /\ Lifecycle!OneInForce /\ Lifecycle!ApprovedRevised
    BY VersionsKeep DEF BackOfficeInv, VersionsInv
  <2>5. part = "delivery" => Delivery!TypeOK /\ Delivery!InUseOnTheRoad
    BY RoutesKeep DEF BackOfficeInv, RoutesInv
  <2> QED BY <2>1, <2>2, <2>3, <2>4, <2>5 DEF AssetsKept
<1> QED BY <1>1, BackOfficeInvariant, PTL
=============================================================================
