---------------------------- MODULE Office_proofs ----------------------------
(***************************************************************************)
(* The components of the office, for any rows, any requests and any scenes: *)
(* quotations, document numbers, requests for quotation, approval, store    *)
(* orders and tickets.  Each is proved by itself, as the instance it is in  *)
(* Office; the last section takes the invariants to the office, where one   *)
(* part moves at a time.                                                    *)
(***************************************************************************)
EXTENDS Office, Sums_proofs

-----------------------------------------------------------------------------
(* Types. *)

\* What a quotation is saved with is a row.
LEMMA RowType ==
    ASSUME NEW state \in Status, NEW late \in BOOLEAN
    PROVE  /\ Saved(state, late) \in Status
           /\ Row(state, late) \in Quote
BY DEF Saved, Row, Quote, Status, Open

\* Changing columns of a row leaves a row.
LEMMA QuoteType ==
    ASSUME NEW w \in Quote, NEW state \in Status
    PROVE  /\ [w EXCEPT !.status = state] \in Quote
           /\ [w EXCEPT !.late = TRUE] \in Quote
           /\ [w EXCEPT !.row = "erased"] \in Quote
           /\ w.status \in Status /\ w.late \in BOOLEAN
BY DEF Quote

LEMMA IdleType == Idle \in Work
BY QuotationAssumption DEF Idle, Work, Status, QuoteId

\* Every request keeps the types.
LEMMA RequestsType == TypeOK /\ Requests => TypeOK'
<1> SUFFICES ASSUME TypeOK, NEW q \in QuoteId PROVE
        /\ \A late \in BOOLEAN : Create(q, late) => TypeOK'
        /\ Lapse(q) => TypeOK'
        /\ Erase(q) => TypeOK'
        /\ \A state \in Status : Administer(q, state) => TypeOK'
        /\ \A p \in Session, late \in BOOLEAN : AskEdit(p, q, late) => TypeOK'
        /\ \A p \in Session : AskConvert(p, q) => TypeOK'
  BY DEF Requests
<1> USE DEF TypeOK
<1>0. quote[q] \in Quote /\ quote[q].status \in Status /\ quote[q].late \in BOOLEAN
  BY QuoteType DEF Status
<1>1. ASSUME NEW late \in BOOLEAN, Create(q, late) PROVE TypeOK'
  <2>1. Row(Saved("DRAFT", late), late) \in Quote
    BY RowType DEF Status
  <2> QED BY <1>1, <2>1 DEF Create
<1>2. ASSUME Lapse(q) PROVE TypeOK'
  <2>1. [quote[q] EXCEPT !.late = TRUE] \in Quote
    BY <1>0, QuoteType
  <2> QED BY <1>2, <2>1 DEF Lapse
<1>3. ASSUME Erase(q) PROVE TypeOK'
  <2>1. [quote[q] EXCEPT !.row = "erased"] \in Quote
    BY <1>0, QuoteType
  <2> QED BY <1>3, <2>1 DEF Erase
<1>4. ASSUME NEW state \in Status, Administer(q, state) PROVE TypeOK'
  <2> DEFINE new == Saved(state, quote[q].late)
  <2>1. new \in Status
    BY <1>0, RowType
  <2>2. [quote[q] EXCEPT !.status = new] \in Quote
    BY <1>0, <2>1, QuoteType
  <2> QED BY <1>4, <2>2 DEF Administer
<1>5. ASSUME NEW p \in Session, NEW late \in BOOLEAN, AskEdit(p, q, late) PROVE TypeOK'
  BY <1>0, <1>5 DEF AskEdit, Goto, Work
<1>6. ASSUME NEW p \in Session, AskConvert(p, q) PROVE TypeOK'
  BY <1>6 DEF AskConvert, Goto, Work, Status
<1> QED
  BY <1>1, <1>2, <1>3, <1>4, <1>5, <1>6

\* So do the answers to the requests ...
LEMMA AnswersType == TypeOK /\ Answers => TypeOK'
<1> SUFFICES ASSUME TypeOK, NEW p \in Session PROVE
        (CommitEdit(p) => TypeOK') /\ (CommitConvert(p) => TypeOK')
  BY DEF Answers
<1> USE DEF TypeOK
<1> DEFINE q == session[p].quote
<1>0. q \in QuoteId /\ Idle \in Work /\ session[p].status \in Status
      /\ session[p].late \in BOOLEAN
  BY IdleType DEF Work
<1>1. ASSUME CommitEdit(p) PROVE TypeOK'
  <2> DEFINE new == Saved(session[p].status, session[p].late)
  <2>1. new \in Status
    BY <1>0, RowType
  <2>2. Row(new, session[p].late) \in Quote
    BY <1>0, <2>1, RowType
  <2> QED BY <1>0, <1>1, <2>2 DEF CommitEdit, Goto
<1>2. ASSUME CommitConvert(p) PROVE TypeOK'
  <2>1. [quote[q] EXCEPT !.status = "CONVERTED"] \in Quote
    BY <1>0, QuoteType DEF Status
  <2> QED BY <1>0, <1>2, <2>1 DEF CommitConvert, Goto
<1> QED BY <1>1, <1>2

\* ... and the night.
LEMMA NightType == TypeOK /\ Night => TypeOK'
<1> USE DEF TypeOK
<1>1. TypeOK /\ NightFetch => TypeOK'
  BY DEF NightFetch, Lapsed
<1>2. ASSUME TypeOK, NEW q \in QuoteId, NightSave(q) PROVE TypeOK'
  <2>1. [quote[q] EXCEPT !.status = "EXPIRED"] \in Quote
    BY <1>2, QuoteType DEF Status
  <2> QED BY <1>2, <2>1 DEF NightSave
<1> QED BY <1>1, <1>2 DEF Night

\* Every row, request and list of the night has its type.
THEOREM Typed == Spec => []TypeOK
<1>1. Init => TypeOK
  BY IdleType DEF Init, TypeOK, Quote, Status
<1>2. TypeOK /\ [Next]_vars => TypeOK'
  <2>1. TypeOK /\ UNCHANGED vars => TypeOK'
    BY DEF TypeOK, vars
  <2> QED
    BY <2>1, RequestsType, AnswersType, NightType DEF Next
<1> QED
  BY <1>1, <1>2, PTL DEF Spec

-----------------------------------------------------------------------------
(* What an order was made of. *)

\* No order was made of a quotation there is not yet; with that, the invariant
\* is inductive.
Converted ==
    /\ ConvertedStays
    /\ \A q \in QuoteId : quote[q].row = "absent" => made[q] = 0

\* A CONVERTED row keeps its status: whatever is written over it was compared.
LEMMA ConvertedKept ==
    ASSUME NEW q \in QuoteId, quote[q].status = "CONVERTED", NEW s, Valid(q, s)
    PROVE  s = "CONVERTED"
BY DEF Valid, Allowed, Status

\* A row that is written with a compared status, or keeps its own.
LEMMA WrittenKeeps ==
    ASSUME TypeOK, Converted, NEW q \in QuoteId, NEW w \in Quote,
           quote' = [quote EXCEPT ![q] = w], made' = made,
           w.row = "erased" \/ (w.row = "present" /\ Present(q) /\ Valid(q, w.status))
    PROVE  Converted'
<1>1. made[q] > 0 /\ w.row = "present" => w.status = "CONVERTED"
  BY ConvertedKept DEF Converted, ConvertedStays
<1> QED
  BY <1>1 DEF Converted, ConvertedStays, Present, TypeOK

\* Every step keeps it.
LEMMA RequestsKeep == TypeOK /\ Converted /\ Requests => Converted'
<1> SUFFICES ASSUME TypeOK, Converted, NEW q \in QuoteId PROVE
        /\ \A late \in BOOLEAN : Create(q, late) => Converted'
        /\ Lapse(q) => Converted'
        /\ Erase(q) => Converted'
        /\ \A state \in Status : Administer(q, state) => Converted'
        /\ \A p \in Session, late \in BOOLEAN : AskEdit(p, q, late) => Converted'
        /\ \A p \in Session : AskConvert(p, q) => Converted'
  BY DEF Requests
<1>0. quote \in [QuoteId -> Quote] /\ quote[q] \in Quote
      /\ quote[q].status \in Status /\ quote[q].late \in BOOLEAN
  BY QuoteType DEF TypeOK, Status
<1>1. ASSUME NEW late \in BOOLEAN, Create(q, late) PROVE Converted'
  <2>1. made[q] = 0
    BY <1>1 DEF Create, Converted
  <2> QED BY <1>0, <1>1, <2>1 DEF Create, Converted, ConvertedStays, Present, Row
<1>2. ASSUME Lapse(q) PROVE Converted'
  <2> DEFINE w == [quote[q] EXCEPT !.late = TRUE]
  <2>1. w \in Quote /\ w.row = quote[q].row /\ w.status = quote[q].status
    BY <1>0, QuoteType DEF Quote
  <2>2. quote' = [quote EXCEPT ![q] = w] /\ made' = made /\ Present(q)
    BY <1>2 DEF Lapse
  <2>3. Valid(q, w.status)
    BY <2>1 DEF Valid
  <2> QED BY <2>1, <2>2, <2>3, WrittenKeeps DEF Present
<1>3. ASSUME Erase(q) PROVE Converted'
  <2> DEFINE w == [quote[q] EXCEPT !.row = "erased"]
  <2>1. w \in Quote /\ w.row = "erased"
    BY <1>0, QuoteType DEF Quote
  <2>2. quote' = [quote EXCEPT ![q] = w] /\ made' = made
    BY <1>3 DEF Erase
  <2> QED BY <2>1, <2>2, WrittenKeeps
<1>4. ASSUME NEW state \in Status, Administer(q, state) PROVE Converted'
  <2> DEFINE new == Saved(state, quote[q].late)
             w == [quote[q] EXCEPT !.status = new]
  <2>1. new \in Status
    BY <1>0, RowType
  <2>2. w \in Quote /\ w.row = quote[q].row /\ w.status = new
    BY <1>0, <2>1, QuoteType DEF Quote
  <2>3. quote' = [quote EXCEPT ![q] = w] /\ made' = made /\ Present(q) /\ Valid(q, new)
    BY <1>4 DEF Administer
  <2> QED BY <2>2, <2>3, WrittenKeeps DEF Present
<1>5. ASSUME NEW p \in Session, NEW late \in BOOLEAN, AskEdit(p, q, late) PROVE Converted'
  BY <1>5 DEF AskEdit, Converted, ConvertedStays, Present
<1>6. ASSUME NEW p \in Session, AskConvert(p, q) PROVE Converted'
  BY <1>6 DEF AskConvert, Converted, ConvertedStays, Present
<1> QED
  BY <1>1, <1>2, <1>3, <1>4, <1>5, <1>6

LEMMA AnswersKeep == TypeOK /\ Converted /\ Answers => Converted'
<1> SUFFICES ASSUME TypeOK, Converted, NEW p \in Session PROVE
        (CommitEdit(p) => Converted') /\ (CommitConvert(p) => Converted')
  BY DEF Answers
<1> DEFINE q == session[p].quote
<1>0. q \in QuoteId /\ session[p].status \in Status /\ session[p].late \in BOOLEAN
      /\ made \in [QuoteId -> Nat] /\ quote \in [QuoteId -> Quote]
  BY DEF Work, TypeOK
<1>1. ASSUME CommitEdit(p) PROVE Converted'
  <2> DEFINE new == Saved(session[p].status, session[p].late)
             w == Row(new, session[p].late)
  <2>1. w \in Quote /\ w.row = "present" /\ w.status = new
    BY <1>0, RowType DEF Row
  <2>2. CASE Present(q) /\ Valid(q, new)
    <3>1. quote' = [quote EXCEPT ![q] = w] /\ made' = made
      BY <1>1, <2>2 DEF CommitEdit
    <3> QED BY <1>0, <2>1, <2>2, <3>1, WrittenKeeps
  <2>3. CASE ~(Present(q) /\ Valid(q, new))
    BY <1>1, <2>3 DEF CommitEdit, Converted, ConvertedStays, Present
  <2> QED BY <2>2, <2>3
<1>2. ASSUME CommitConvert(p) PROVE Converted'
  BY <1>0, <1>2 DEF CommitConvert, Converted, ConvertedStays, Present, Quote
<1> QED BY <1>1, <1>2

LEMMA NightKeeps == TypeOK /\ Converted /\ Night => Converted'
<1>1. TypeOK /\ Converted /\ NightFetch => Converted'
  BY DEF NightFetch, Converted, ConvertedStays, Present
<1>2. ASSUME TypeOK, Converted, NEW q \in QuoteId, NightSave(q) PROVE Converted'
  <2> DEFINE w == [quote[q] EXCEPT !.status = "EXPIRED"]
  <2>0. quote[q] \in Quote /\ "EXPIRED" \in Status
    BY <1>2 DEF TypeOK, Status
  <2>1. w \in Quote /\ w.row = quote[q].row /\ w.status = "EXPIRED"
    BY <2>0, QuoteType DEF Quote
  <2>2. CASE Present(q) /\ Valid(q, "EXPIRED")
    <3>1. quote' = [quote EXCEPT ![q] = w] /\ made' = made
      BY <1>2, <2>2 DEF NightSave
    <3> QED BY <1>2, <2>1, <2>2, <3>1, WrittenKeeps DEF Present
  <2>3. CASE ~(Present(q) /\ Valid(q, "EXPIRED"))
    BY <1>2, <2>3 DEF NightSave, Converted, ConvertedStays, Present
  <2> QED BY <2>2, <2>3
<1> QED BY <1>1, <1>2 DEF Night

LEMMA ConvertedInvariant == Spec => [](TypeOK /\ Converted)
<1>1. Init => TypeOK /\ Converted
  BY IdleType DEF Init, TypeOK, Quote, Status, Converted, ConvertedStays, Present
<1>2. TypeOK /\ Converted /\ [Next]_vars => (TypeOK /\ Converted)'
  <2>1. TypeOK /\ Converted /\ UNCHANGED vars => (TypeOK /\ Converted)'
    BY DEF TypeOK, vars, Converted, ConvertedStays, Present
  <2> QED
    BY <2>1, RequestsType, AnswersType, NightType, RequestsKeep, AnswersKeep,
       NightKeeps DEF Next
<1> QED
  BY <1>1, <1>2, PTL DEF Spec

\* A quotation an order was made of reads CONVERTED for as long as it is there,
\* however the forms, the administration and the nightly task interleave.
THEOREM StaysConverted == Spec => []ConvertedStays
<1>1. TypeOK /\ Converted => ConvertedStays
  BY DEF Converted
<1> QED
  BY <1>1, ConvertedInvariant, PTL

-----------------------------------------------------------------------------
(* One order of a quotation. *)

\* Where requests do not race, one is in progress at most, and what is being
\* converted was not converted before.
OneAtATime ==
    "race" \notin scene =>
        /\ \A p, r \in Session : At(p, "idle") \/ At(r, "idle") \/ p = r
        /\ \A p \in Session : At(p, "converting") => made[session[p].quote] = 0
        /\ \A q \in QuoteId : made[q] <= 1

\* A step that leaves the orders alone and takes up work only where nobody else
\* works, and nothing that is converted.
LEMMA QuietKeeps ==
    ASSUME TypeOK, OneAtATime, NEW p \in Session, NEW w,
           session' = [session EXCEPT ![p] = w],
           made' = made, scene' = scene,
           w.stage = "idle" \/ (Starts(p) /\ (w.stage = "converting" => made[w.quote] = 0))
    PROVE  OneAtATime'
BY DEF OneAtATime, TypeOK, At, Starts

LEMMA RequestsSingle == TypeOK /\ Converted /\ OneAtATime /\ Requests => OneAtATime'
<1> SUFFICES ASSUME TypeOK, Converted, OneAtATime, NEW q \in QuoteId PROVE
        /\ \A late \in BOOLEAN : Create(q, late) => OneAtATime'
        /\ Lapse(q) => OneAtATime'
        /\ Erase(q) => OneAtATime'
        /\ \A state \in Status : Administer(q, state) => OneAtATime'
        /\ \A p \in Session, late \in BOOLEAN : AskEdit(p, q, late) => OneAtATime'
        /\ \A p \in Session : AskConvert(p, q) => OneAtATime'
  BY DEF Requests
<1>1. ASSUME UNCHANGED <<made, session, scene>> PROVE OneAtATime'
  BY <1>1 DEF OneAtATime, At
<1>2. ASSUME NEW p \in Session, NEW late \in BOOLEAN, AskEdit(p, q, late)
      PROVE OneAtATime'
  <2> DEFINE w == [stage |-> "editing", quote |-> q, status |-> quote[q].status,
                   late |-> late]
  <2>1. session' = [session EXCEPT ![p] = w] /\ made' = made /\ scene' = scene
        /\ Starts(p) /\ w.stage # "converting"
    BY <1>2 DEF AskEdit, Goto
  <2> QED BY <2>1, QuietKeeps
<1>3. ASSUME NEW p \in Session, AskConvert(p, q) PROVE OneAtATime'
  <2> DEFINE w == [stage |-> "converting", quote |-> q, status |-> "CONVERTED",
                   late |-> FALSE]
  <2>1. session' = [session EXCEPT ![p] = w] /\ made' = made /\ scene' = scene
        /\ Starts(p) /\ w.quote = q
    BY <1>3 DEF AskConvert, Goto
  <2>2. made[q] = 0
    BY <1>3 DEF AskConvert, Converted, ConvertedStays, Open, TypeOK
  <2> QED BY <2>1, <2>2, QuietKeeps
<1> QED
  BY <1>1, <1>2, <1>3 DEF Create, Lapse, Erase, Administer

LEMMA AnswersSingle == TypeOK /\ OneAtATime /\ Answers => OneAtATime'
<1> SUFFICES ASSUME TypeOK, OneAtATime, NEW p \in Session PROVE
        (CommitEdit(p) => OneAtATime') /\ (CommitConvert(p) => OneAtATime')
  BY DEF Answers
<1>1. ASSUME CommitEdit(p) PROVE OneAtATime'
  BY <1>1, QuietKeeps DEF CommitEdit, Goto, Idle
<1>2. ASSUME CommitConvert(p) PROVE OneAtATime'
  <2> DEFINE q == session[p].quote
  <2>0. session \in [Session -> Work] /\ made \in [QuoteId -> Nat] /\ q \in QuoteId
    BY DEF TypeOK, Work
  <2>1. session' = [session EXCEPT ![p] = Idle] /\ scene' = scene
        /\ (made' = made \/ made' = [made EXCEPT ![q] = @ + 1])
    BY <1>2 DEF CommitConvert, Goto
  <2>2. "race" \notin scene => made[q] = 0
    BY <1>2 DEF CommitConvert, OneAtATime
  <2>3. "race" \notin scene => \A r \in Session : session'[r].stage = "idle"
    BY <1>2, <2>0, <2>1 DEF CommitConvert, OneAtATime, At, Idle
  <2> QED
    BY <2>0, <2>1, <2>2, <2>3 DEF OneAtATime, At
<1> QED BY <1>1, <1>2

\* One request at a time, a quotation makes one order at most, although the
\* administration and the nightly task go on between reading and writing.
THEOREM MadeOnce == Spec => []ConvertedOnce
<1>1. Init => OneAtATime
  BY DEF Init, OneAtATime, At, Idle
<1>2. TypeOK /\ Converted /\ OneAtATime /\ [Next]_vars => OneAtATime'
  <2>1. OneAtATime /\ UNCHANGED vars => OneAtATime'
    BY DEF OneAtATime, At, vars
  <2>2. OneAtATime /\ Night => OneAtATime'
    BY DEF OneAtATime, At, Night, NightFetch, NightSave
  <2> QED
    BY <2>1, <2>2, RequestsSingle, AnswersSingle DEF Next
<1>3. OneAtATime => ConvertedOnce
  BY DEF OneAtATime, ConvertedOnce
<1> QED
  BY <1>1, <1>2, <1>3, ConvertedInvariant, PTL DEF Spec

-----------------------------------------------------------------------------
(* Document numbers. *)

\* One request at a time, and the number it has is free, or the last of all.
OneSaves ==
    "race" \notin entries =>
        /\ \A p, q \in Session : Numbers!At(p, "saving") /\ Numbers!At(q, "saving") => p = q
        /\ \A p \in Session :
              Numbers!At(p, "saving") =>
                          row[desk[p].number] = "absent" \/ desk[p].number = Wide + 1
NumbersInv == Numbers!TypeOK /\ OneSaves

\* The order of strings: the number of two digits is after the first, and before
\* the others.
LEMMA NumberOrder ==
    /\ Numbers!Leading(Wide + 1) = 1
    /\ \A n \in Numbers!Number : n <= Wide => Numbers!Leading(n) = n
    /\ \A m, n \in Numbers!Number : Numbers!Before(m, n) \/ Numbers!Before(n, m) \/ m = n
    /\ \A m, n \in Numbers!Number : ~ (Numbers!Before(m, n) /\ Numbers!Before(n, m))
    /\ \A n \in Numbers!Number : n + 1 \in Numbers!Number => Numbers!Before(n, n + 1)
         \/ n + 1 = Wide + 1
<1>1. Wide \in Nat \ {0} /\ (Wide + 1) \div (Wide + 1) = 1
  BY OfficeAssumption
<1>2. Numbers!Leading(Wide + 1) = 1 /\ \A n \in Numbers!Number : n <= Wide
        => Numbers!Leading(n) = n
  BY <1>1 DEF Numbers!Leading, Numbers!Number
<1>3. \A n \in Numbers!Number : Numbers!Leading(n) \in Nat /\ n \in Nat
        /\ (n <= Wide \/ n = Wide + 1)
  BY <1>1, <1>2 DEF Numbers!Number
<1>4. \A n \in Numbers!Number : n + 1 \in Numbers!Number => Numbers!Before(n, n + 1)
        \/ n + 1 = Wide + 1
  BY <1>1, <1>2, <1>3 DEF Numbers!Before
<1> QED BY <1>2, <1>3, <1>4 DEF Numbers!Before

\* There is a last number.
LEMMA LastNumber ==
    ASSUME NEW T, T \subseteq Numbers!Number, T # {}
    PROVE  \E n \in T : \A m \in T \ {n} : Numbers!Before(m, n)
<1> DEFINE U == {n \in T : n # 1 /\ n # Wide + 1}
<1>1. Wide \in Nat \ {0} /\ \A n \in T : n \in Nat /\ n >= 1 /\ n <= Wide + 1
  BY OfficeAssumption DEF Numbers!Number
<1>2. CASE U # {}
  <2>1. U \subseteq 0..Wide
    BY <1>1
  <2>2. PICK n \in U : \A m \in U : m <= n
    BY <1>1, <1>2, <2>1, GreatestOne
  <2>3. ASSUME NEW m \in T \ {n} PROVE Numbers!Before(m, n)
    <3>1. Numbers!Leading(n) = n /\ n \in Nat /\ n > 1
      BY <1>1, <2>1, NumberOrder
    <3>2. m = 1 \/ m = Wide + 1 => Numbers!Leading(m) = 1
      BY <1>1, NumberOrder DEF Numbers!Number
    <3>3. m # 1 /\ m # Wide + 1 => Numbers!Leading(m) = m /\ m < n
      <4>1. m \in U => m <= n /\ m <= Wide /\ m \in Numbers!Number
        BY <1>1, <2>1, <2>2
      <4> QED BY <1>1, <3>1, <4>1, NumberOrder
    <3> QED BY <3>1, <3>2, <3>3 DEF Numbers!Before
  <2> QED BY <2>3
<1>3. CASE U = {}
  <2>1. \A n \in T : n = 1 \/ n = Wide + 1
    BY <1>3
  <2>2. Numbers!Before(1, Wide + 1)
    BY <1>1, NumberOrder DEF Numbers!Before, Numbers!Leading
  <2> QED BY <2>1, <2>2
<1> QED BY <1>2, <1>3

\* The number that follows is free, unless it is the last of all.
LEMMA FollowingFree ==
    ASSUME Numbers!TypeOK, Numbers!Following \in Numbers!Number
    PROVE  row[Numbers!Following] = "absent" \/ Numbers!Following = Wide + 1
<1>1. CASE Numbers!Taken = {}
  BY <1>1 DEF Numbers!Following, Numbers!Taken
<1>2. CASE Numbers!Taken # {}
  <2> DEFINE last == CHOOSE n \in Numbers!Taken : \A m \in Numbers!Taken \ {n} :
        Numbers!Before(m, n)
  <2>1. Numbers!Following = last + 1
    BY <1>2 DEF Numbers!Following
  <2>2. last \in Numbers!Taken /\ \A m \in Numbers!Taken \ {last} : Numbers!Before(m, last)
    <3>1. \E n \in Numbers!Taken : \A m \in Numbers!Taken \ {n} : Numbers!Before(m, n)
      BY <1>2, LastNumber DEF Numbers!Taken
    <3> QED BY <3>1
  <2> HIDE DEF last
  <2>3. last \in Numbers!Number /\ last \in Nat
    <3>1. last \in Numbers!Number
      BY <2>2 DEF Numbers!Taken
    <3> QED BY <3>1, OfficeAssumption DEF Numbers!Number
  <2>4. last + 1 # last
    BY <2>3
  <2>5. ASSUME last + 1 \in Numbers!Taken PROVE last + 1 = Wide + 1
    <3>1. Numbers!Before(last + 1, last)
      BY <2>2, <2>4, <2>5
    <3>2. last + 1 \in Numbers!Number
      BY <2>1
    <3> QED BY <2>3, <3>1, <3>2, NumberOrder
  <2> QED BY <2>1, <2>5 DEF Numbers!Taken
<1> QED BY <1>1, <1>2

LEMMA NumbersInit == Numbers!Init => NumbersInv
<1> SUFFICES ASSUME Numbers!Init PROVE NumbersInv
  OBVIOUS
<1>1. Numbers!Idle \in Numbers!Work
  BY OfficeAssumption DEF Numbers!Idle, Numbers!Work, Numbers!Number
<1> QED BY <1>1 DEF Numbers!Init, NumbersInv, Numbers!TypeOK, OneSaves, Numbers!At, Numbers!Idle,
   Numbers!Row

LEMMA NumbersStep == NumbersInv /\ Numbers!Next => NumbersInv' /\ Numbers!RefusedRightly
<1> SUFFICES ASSUME NumbersInv, Numbers!Next PROVE NumbersInv' /\ Numbers!RefusedRightly
  OBVIOUS
<1> USE DEF NumbersInv
<1>0. /\ Numbers!Idle \in Numbers!Work /\ desk \in [Session -> Numbers!Work]
           /\ row \in [Numbers!Number -> Numbers!Row]
      /\ refused \in BOOLEAN /\ entries \in NumberScenes
  BY OfficeAssumption DEF Numbers!Idle, Numbers!Work, Numbers!Number, Numbers!TypeOK
<1>1. ASSUME NEW p \in Session, Numbers!Compute(p) PROVE NumbersInv' /\ Numbers!RefusedRightly
  <2> DEFINE w == [stage |-> "saving", number |-> Numbers!Following]
  <2>1. /\ w \in Numbers!Work /\ desk' = [desk EXCEPT ![p] = w]
        /\ UNCHANGED <<row, refused, entries>> /\ Numbers!Following \in Numbers!Number
    BY <1>1 DEF Numbers!Compute, Numbers!Goto, Numbers!Work
  <2>2. Numbers!TypeOK'
    BY <1>0, <2>1 DEF Numbers!TypeOK
  <2>3. OneSaves'
    <3> SUFFICES ASSUME "race" \notin entries PROVE OneSaves'
      BY <2>1 DEF OneSaves
    <3>1. \A q \in Session : Numbers!At(q, "idle")
      BY <1>1 DEF Numbers!Compute
    <3>2. \A q \in Session : Numbers!At(q, "saving")' => q = p
      BY <1>0, <2>1, <3>1 DEF Numbers!At
    <3>3. desk'[p].number = Numbers!Following
      BY <1>0, <2>1
    <3> QED BY <2>1, <3>2, <3>3, FollowingFree DEF OneSaves
  <2> QED BY <2>1, <2>2, <2>3 DEF Numbers!RefusedRightly
<1>2. ASSUME NEW p \in Session, Numbers!Insert(p) PROVE NumbersInv' /\ Numbers!RefusedRightly
  <2>1. /\ desk' = [desk EXCEPT ![p] = Numbers!Idle] /\ UNCHANGED entries
        /\ desk[p].number \in Numbers!Number /\ Numbers!At(p, "saving")
    BY <1>0, <1>2 DEF Numbers!Insert, Numbers!Goto, Numbers!Work
  <2>2. row' \in [Numbers!Number -> Numbers!Row] /\ refused' \in BOOLEAN
    BY <1>0, <1>2, <2>1 DEF Numbers!Insert, Numbers!Row
  <2>3. Numbers!TypeOK'
    BY <1>0, <2>1, <2>2 DEF Numbers!TypeOK
  <2>4. OneSaves'
    <3>1. "race" \notin entries => \A q \in Session : ~Numbers!At(q, "saving")'
      BY <1>0, <2>1 DEF OneSaves, Numbers!At, Numbers!Idle
    <3> QED BY <2>1, <3>1 DEF OneSaves
  <2>5. Numbers!RefusedRightly
    <3> SUFFICES ASSUME refused' # refused, "race" \notin entries
                 PROVE  \E n \in {Wide, Wide + 1} : row[n] # "absent"
      BY DEF Numbers!RefusedRightly
    <3>1. row[desk[p].number] # "absent"
      BY <1>2 DEF Numbers!Insert
    <3>2. desk[p].number = Wide + 1
      BY <2>1, <3>1 DEF OneSaves
    <3> QED BY <3>1, <3>2
  <2> QED BY <2>3, <2>4, <2>5
<1>3. ASSUME NEW n \in Numbers!Number, Numbers!Retire(n) \/ Numbers!Restore(n) \/ Numbers!Erase(n)
      PROVE  NumbersInv' /\ Numbers!RefusedRightly
  <2>1. /\ UNCHANGED <<refused, desk, entries>> /\ row' \in [Numbers!Number -> Numbers!Row]
        /\ \A k \in Numbers!Number : row[k] = "absent" => row'[k] = "absent"
    BY <1>0, <1>3 DEF Numbers!Retire, Numbers!Restore, Numbers!Erase, Numbers!Row
  <2>2. \A q \in Session : desk[q].number \in Numbers!Number
    BY <1>0 DEF Numbers!Work
  <2>3. OneSaves'
    BY <2>1, <2>2 DEF OneSaves, Numbers!At
  <2> QED BY <1>0, <2>1, <2>3 DEF Numbers!TypeOK, Numbers!RefusedRightly
<1> QED BY <1>1, <1>2, <1>3 DEF Numbers!Next

LEMMA NumbersStays == NumbersInv /\ UNCHANGED Numbers!vars => NumbersInv'
    /\ Numbers!RefusedRightly
BY DEF NumbersInv, Numbers!vars, Numbers!TypeOK, OneSaves, Numbers!At, Numbers!RefusedRightly

\* One creation at a time, no document is refused for its number, whatever was
\* retired, restored or deleted.
THEOREM NumbersRight == Numbers!Spec => Numbers!NeverRefused
<1>1. Numbers!Spec => []NumbersInv
  BY NumbersInit, NumbersStep, NumbersStays, PTL DEF Numbers!Spec
<1>2. NumbersInv /\ [Numbers!Next]_(Numbers!vars) => [Numbers!RefusedRightly]_(Numbers!vars)
  BY NumbersStep
<1> QED BY <1>1, <1>2, PTL DEF Numbers!Spec, Numbers!NeverRefused

-----------------------------------------------------------------------------
(* Requests for quotation. *)

\* Where no requests race, one at most is in progress.
OneBuyer ==
    "race" \notin entries =>
        \A p, q \in Session : desk[p].stage # "idle" /\ desk[q].stage # "idle" => p = q

\* A response that is converted or awarded was registered.
Registered ==
    \A p \in Session :
        desk[p].stage \in {"converting", "awarding"} => desk[p].response \in present

\* One at a time, an award deselects what is selected, and one that is not new
\* is of the response selected.
AwardIn(w) ==
    w.stage = "awarding" =>
        /\ "admin" \in entries
        /\ "race" \notin entries =>
               /\ w.new => w.others = selected
               /\ ~w.new => w.others = {} /\ (w.select => w.response \in selected)
Awards == \A p \in Session : AwardIn(desk[p])

SourcingInv == Sourcing!TypeOK /\ Sourcing!OneAward /\ OneBuyer /\ Registered /\ Awards

LEMMA SourcingInit == Sourcing!Init => SourcingInv
BY OfficeAssumption DEF Sourcing!Init, SourcingInv, Sourcing!TypeOK, Sourcing!OneAward, OneBuyer,
   Registered, Awards, AwardIn,
    Sourcing!Idle, Sourcing!Work, Sourcing!ResponseId, Sourcing!Status

\* A request that has not begun any work of its own changes nothing else.
LEMMA SourcingStarts ==
    ASSUME SourcingInv, NEW p \in Session, NEW w \in Sourcing!Work, Sourcing!Starts(p),
           Sourcing!Goto(p, w),
           UNCHANGED <<status, selected, present, ordered, entries>>,
           w.stage \in {"converting", "awarding"} => w.response \in present,
           AwardIn(w)
    PROVE  SourcingInv'
<1> USE DEF SourcingInv
<1>1. desk \in [Session -> Sourcing!Work] /\ desk' = [desk EXCEPT ![p] = w]
  BY DEF Sourcing!TypeOK, Sourcing!Goto
<1>2. Sourcing!TypeOK' /\ Sourcing!OneAward'
  BY <1>1 DEF Sourcing!TypeOK, Sourcing!OneAward
<1>3. OneBuyer'
  BY <1>1 DEF OneBuyer, Sourcing!Starts, Sourcing!At
<1>4. Registered'
  BY <1>1 DEF Registered
<1>5. Awards'
  <2>1. ASSUME NEW q \in Session PROVE AwardIn(desk[q])'
    BY <1>1 DEF Awards, AwardIn
  <2> QED BY <2>1 DEF Awards
<1> QED BY <1>2, <1>3, <1>4, <1>5

LEMMA SourcingAsks ==
    ASSUME SourcingInv, NEW p \in Session, NEW r \in Sourcing!ResponseId,
           \/ Sourcing!AskRegister(p, r) \/ Sourcing!AskConvert(p, r)
           \/ \E select \in BOOLEAN : Sourcing!OpenAward(p, r, select)
    PROVE  SourcingInv'
<1> DEFINE work(stage) == [stage |-> stage, response |-> r, select |-> FALSE, new |-> FALSE,
                           others |-> {}, status |-> status]
<1>0. status \in Sourcing!Status /\ selected \subseteq Sourcing!ResponseId /\ Sourcing!TypeOK
  BY DEF SourcingInv, Sourcing!TypeOK
<1>1. CASE Sourcing!AskRegister(p, r)
  <2>1. work("registering") \in Sourcing!Work /\ Sourcing!Goto(p, work("registering"))
          /\ Sourcing!Starts(p)
    BY <1>0, <1>1 DEF Sourcing!AskRegister, Sourcing!Works, Sourcing!Work
  <2>2. AwardIn(work("registering"))
    BY DEF AwardIn
  <2> QED BY <1>1, <2>1, <2>2, SourcingStarts DEF Sourcing!AskRegister
<1>2. CASE Sourcing!AskConvert(p, r)
  <2>1. work("converting") \in Sourcing!Work /\ Sourcing!Goto(p, work("converting"))
          /\ Sourcing!Starts(p)
    BY <1>0, <1>2 DEF Sourcing!AskConvert, Sourcing!Works, Sourcing!Work
  <2>2. AwardIn(work("converting"))
    BY DEF AwardIn
  <2> QED BY <1>2, <2>1, <2>2, SourcingStarts DEF Sourcing!AskConvert
<1>3. ASSUME NEW select \in BOOLEAN, Sourcing!OpenAward(p, r, select) PROVE SourcingInv'
  <2> DEFINE new == select /\ r \notin selected
             w == [stage |-> "awarding", response |-> r, select |-> select, new |-> new,
                   others |-> IF new THEN selected ELSE {}, status |-> status]
  <2>1. w \in Sourcing!Work
    BY <1>0 DEF Sourcing!Work
  <2>2. Sourcing!Goto(p, w) /\ Sourcing!Starts(p) /\ "admin" \in entries
    BY <1>3 DEF Sourcing!OpenAward
  <2>3. AwardIn(w)
    BY <2>2 DEF AwardIn
  <2> QED BY <1>3, <2>1, <2>2, <2>3, SourcingStarts DEF Sourcing!OpenAward
<1> QED BY <1>1, <1>2, <1>3

LEMMA SourcingAnswers ==
    ASSUME SourcingInv, NEW p \in Session,
           Sourcing!CommitRegister(p) \/ Sourcing!CommitConvert(p) \/ Sourcing!CommitAward(p)
    PROVE  SourcingInv'
<1> USE DEF SourcingInv
<1> DEFINE r == desk[p].response
<1>1. /\ desk \in [Session -> Sourcing!Work] /\ Sourcing!Idle \in Sourcing!Work
           /\ desk[p] \in Sourcing!Work /\ r \in Sourcing!ResponseId
      /\ desk' = [desk EXCEPT ![p] = Sourcing!Idle] /\ entries' = entries
      /\ desk[p].stage # "idle"
  BY OfficeAssumption DEF Sourcing!TypeOK, Sourcing!CommitRegister, Sourcing!CommitConvert,
     Sourcing!CommitAward, Sourcing!Goto, Sourcing!At, Sourcing!Work, Sourcing!Idle,
      Sourcing!ResponseId, Sourcing!Status
<1>2. OneBuyer'
  BY <1>1 DEF OneBuyer, Sourcing!Idle
<1>3. "race" \notin entries => \A q \in Session : desk'[q].stage = "idle"
  BY <1>1 DEF OneBuyer, Sourcing!Idle
<1>4. present \subseteq present' => Registered'
  BY <1>1 DEF Registered, Sourcing!Idle
<1>5. Awards'
  <2>1. ASSUME NEW q \in Session PROVE AwardIn(desk[q])'
    BY <1>1, <1>3 DEF Awards, AwardIn, Sourcing!Idle
  <2> QED BY <2>1 DEF Awards
<1>6. CASE Sourcing!CommitRegister(p)
  <2>1. Sourcing!TypeOK'
    BY <1>1, <1>6 DEF Sourcing!CommitRegister, Sourcing!TypeOK, Sourcing!Status
  <2>2. Sourcing!OneAward'
    BY <1>1, <1>6 DEF Sourcing!CommitRegister, Sourcing!OneAward
  <2> QED BY <1>2, <1>4, <1>5, <1>6, <2>1, <2>2 DEF Sourcing!CommitRegister
<1>7. CASE Sourcing!CommitConvert(p)
  <2>0. r \in present
    BY <1>7 DEF Registered, Sourcing!CommitConvert, Sourcing!At
  <2>1. /\ selected' = {r} /\ ordered' = [ordered EXCEPT ![r] = @ + 2] /\ status' = "CLOSED"
        /\ present' = present /\ ordered[r] + 2 <= MostOrdered
    BY <1>7 DEF Sourcing!CommitConvert, Sourcing!Deselect
  <2>2. ordered \in [Sourcing!ResponseId -> 0..MostOrdered]
    BY DEF Sourcing!TypeOK
  <2>3. Sourcing!TypeOK'
    BY <1>1, <2>0, <2>1, <2>2, OfficeAssumption DEF Sourcing!TypeOK, Sourcing!Status
  <2>4. Sourcing!OneAward'
    BY <1>1, <2>1, <2>2 DEF Sourcing!OneAward
  <2> QED BY <1>2, <1>4, <1>5, <2>1, <2>3, <2>4
<1>8. CASE Sourcing!CommitAward(p)
  <2> DEFINE w == desk[p]
             left == selected \ w.others
  <2>0. r \in present /\ w.stage = "awarding" /\ w.new \in BOOLEAN /\ w.select \in BOOLEAN
    BY <1>1, <1>8 DEF Registered, Sourcing!CommitAward, Sourcing!At, Sourcing!Work
  <2>1. /\ selected' = IF w.select THEN left \cup {r} ELSE left \ {r}
        /\ ordered' = IF w.new THEN [ordered EXCEPT ![r] = @ + 1] ELSE ordered
        /\ status' \in {"COMPARED", status}
        /\ present' = present /\ (w.new => ordered[r] < MostOrdered)
    BY <1>8 DEF Sourcing!CommitAward
  <2>2. ordered \in [Sourcing!ResponseId -> 0..MostOrdered]
    BY DEF Sourcing!TypeOK
  <2>3. Sourcing!TypeOK'
    <3>1. ordered' \in [Sourcing!ResponseId -> 0..MostOrdered]
      BY <1>1, <2>1, <2>2, OfficeAssumption
    <3>2. selected' \subseteq present' /\ present' \subseteq Sourcing!ResponseId
      BY <2>0, <2>1 DEF Sourcing!TypeOK
    <3> QED BY <1>1, <2>1, <3>1, <3>2 DEF Sourcing!TypeOK, Sourcing!Status
  <2>4. Sourcing!OneAward'
    <3> SUFFICES ASSUME ~({"race", "admin"} \subseteq entries)
                 PROVE  \A s \in selected' : ordered'[s] > 0 /\ \A t \in selected' : t = s
      BY <1>1 DEF Sourcing!OneAward
    <3>1. "race" \notin entries
      BY <2>0 DEF Awards, AwardIn
    <3>2. CASE w.new
      <4>1. w.others = selected
        BY <2>0, <3>1, <3>2 DEF Awards, AwardIn
      <4>2. selected' \subseteq {r} /\ ordered'[r] > 0
        BY <1>1, <2>1, <2>2, <3>2, <4>1
      <4> QED BY <4>2
    <3>3. CASE ~w.new
      <4>1. w.others = {} /\ (w.select => r \in selected)
        BY <2>0, <3>1, <3>3 DEF Awards, AwardIn
      <4>2. selected' \subseteq selected /\ ordered' = ordered
        BY <2>1, <3>3, <4>1
      <4> QED BY <4>2 DEF Sourcing!OneAward
    <3> QED BY <3>2, <3>3
  <2> QED BY <1>2, <1>4, <1>5, <2>1, <2>3, <2>4
<1> QED BY <1>6, <1>7, <1>8

LEMMA SourcingStep == SourcingInv /\ Sourcing!Next => SourcingInv'
BY SourcingAsks, SourcingAnswers DEF Sourcing!Next

LEMMA SourcingStays == SourcingInv /\ UNCHANGED Sourcing!vars => SourcingInv'
BY DEF SourcingInv, Sourcing!TypeOK, Sourcing!OneAward, OneBuyer, Registered, Awards, AwardIn,
   Sourcing!vars

THEOREM Awarded == Sourcing!Spec => [](Sourcing!TypeOK /\ Sourcing!OneAward)
<1>1. Sourcing!Init => SourcingInv BY SourcingInit
<1>2. SourcingInv /\ [Sourcing!Next]_(Sourcing!vars) => SourcingInv' BY SourcingStep,
        SourcingStays
<1>3. SourcingInv => Sourcing!TypeOK /\ Sourcing!OneAward BY DEF SourcingInv
<1> QED BY <1>1, <1>2, <1>3, PTL DEF Sourcing!Spec

-----------------------------------------------------------------------------
(* Approval. *)

\* Where each stage of a request belongs.
OnStep == {"acting", "deciding", "writing"}
OnLock == {"deciding", "writing"}
OnForm == {"submitting", "editing", "overruling"}

Approved(i) == \E s \in Approval!Of(i) : step[s] = "APPROVED"
Closed(i) == Approval!Pending(Approval!Of(i)) = {}

\* Where EveryLevelApproved is claimed, whatever the approver does.
Sound == Approval!Serial \/ ~({"race", "reject"} \subseteq entries)
\* Level n has been reached: the levels before it are approved, and closed.
Reach(n) ==
    Sound => \A i \in Approval!Level : i < n => Approved(i) /\ (Approval!Serial => Closed(i))

\* What a handler is about to write is due: its level is passed, and so are
\* those between it and the next.
Due(w) ==
    w.stage = "writing" =>
        /\ w.outcome = "reject" => w.verdict = "REJECTED"
        /\ w.outcome \in {"approve", "advance"} =>
              /\ w.verdict = "APPROVED" /\ w.status \notin Approval!Final
              /\ line[w.step[1]].mode = "ALL" => Approval!Pending(Approval!Siblings(w.step)) = {}
              /\ Sound => \A j \in Approval!Level :
                    j > w.step[1] /\ (w.outcome = "advance" => j < w.current)
                        => Approved(j) /\ (Approval!Serial => Closed(j))

\* A request works on a step of a level that was reached, which is as it was once
\* it is locked; a form writes back a draft.
Sane(w) ==
    /\ w.stage \in OnStep =>
          /\ w.step \in Approval!Step /\ Reach(w.step[1])
          /\ "reject" \notin entries => w.verdict = "APPROVED"
    /\ w.stage \in OnLock => step[w.step] = "PENDING"
    /\ w.stage \in OnForm => Reach(w.current)
    /\ w.stage \in {"submitting", "editing"} => w.status = "DRAFT"
    /\ w.stage = "overruling" => "approver" \in entries
    /\ w.stage = "editing" => "edit" \in entries
    /\ Due(w)

\* A request skips the other steps of its level.
Skipper(w) ==
    w.verdict = "APPROVED" /\ line[w.step[1]].mode = "ANY" /\ w.status \notin Approval!Final
\* No two have locked the same step, nor one that the other is about to skip.
Clear(v, w) ==
    v.stage \in OnLock /\ w.stage \in OnLock =>
        /\ v.step # w.step
        /\ v.stage = "writing" /\ Skipper(v) => w.step \notin Approval!Siblings(v.step)
Apart == \A p, q \in Session : p # q => Clear(desk[p], desk[q])

\* Only levels that were reached are acted on, only the others of an approved step
\* are skipped, and only those of an ANY level.
Steps ==
    \A s \in Approval!Step :
        /\ step[s] # "PENDING" => Reach(s[1])
        /\ step[s] = "SKIPPED" => Approved(s[1]) /\ line[s[1]].mode = "ANY"
        /\ "reject" \notin entries => step[s] # "REJECTED"

LineInv ==
    /\ Approval!TypeOK /\ (\A p \in Session : Sane(desk[p])) /\ Apart /\ Steps
    /\ Reach(request.current) /\ Approval!EveryLevelApproved

\* One at a time ...
OneApprover ==
    \A p, q \in Session : ~Approval!At(p, "idle") /\ ~Approval!At(q, "idle") => p = q

\* ... the steps are as the request says ...
Draft == request.status = "DRAFT" => request.current = 1 /\ \A s \in Approval!Step :
  step[s] = "PENDING"
Submitted ==
    request.status = "SUBMITTED" =>
        /\ \A s \in Approval!Step : step[s] # "REJECTED"
             /\ (s[1] > request.current => step[s] = "PENDING")
        /\ \A i \in Approval!Level : i < request.current => Approval!Passed(i)
        /\ Len(line) > 0 => request.current \in Approval!Level /\ ~Closed(request.current)
Decided ==
    "approver" \notin entries =>
        /\ request.status = "APPROVED" =>
              (\A i \in Approval!Level : Approval!Passed(i)) /\ \A s \in Approval!Step :
                step[s] # "REJECTED"
        /\ request.status = "REJECTED" => \E s \in Approval!Step : step[s] = "REJECTED"

\* ... and what a request in progress has read is so still.
Current(p) ==
    /\ desk[p].stage \in OnStep => request.status = "SUBMITTED"
         /\ Approval!Mine(p)[1] = request.current
    /\ desk[p].stage \in OnLock => desk[p].status = "SUBMITTED"
    /\ Approval!At(p, "writing") =>
                   desk[p].outcome = Approval!Outcome(p)
                     /\ desk[p].current = Approval!NextLevel(Approval!Mine(p)[1])
    /\ desk[p].stage \in {"submitting", "editing"} =>
          request.status = "DRAFT" /\ desk[p].current = request.current

OneInv ==
    "race" \notin entries =>
        OneApprover /\ Draft /\ Submitted /\ Decided /\ \A p \in Session : Current(p)

\* Approvers alone, racing, and none of them needs another.
Rush ==
    /\ "race" \in entries /\ entries \cap {"reject", "submit", "edit", "approver"} = {}
    /\ Approval!Serial /\ \A i \in Approval!Level : line[i].mode # "ALL"
\* The request only goes forward, and waits for the steps of its level.
Forward ==
    /\ request.status # "REJECTED"
    /\ request.status = "SUBMITTED" /\ Len(line) > 0 =>
          request.current \in Approval!Level /\ ~Closed(request.current)
    /\ \A p, q \in Session : Approval!At(p, "submitting") /\ Approval!At(q, "submitting") => p = q
Ahead(w) ==
    /\ w.stage = "submitting" => request.status = "DRAFT"
    /\ w.stage \in OnStep => request.status # "DRAFT"
    /\ w.stage \in OnStep /\ request.status = "SUBMITTED" => w.step[1] <= request.current
    /\ w.stage \in OnLock => w.status \in {request.status, "SUBMITTED"} \ {"DRAFT"}
    /\ w.stage = "writing" /\ w.status \notin Approval!Final =>
          /\ w.outcome \in {"approve", "advance"}
          /\ w.outcome = "advance" => w.current \in Approval!Level /\ w.current > w.step[1]
RushInv == Rush => Draft /\ Forward /\ \A p \in Session : Ahead(desk[p])

-----------------------------------------------------------------------------
(* Lines, levels and steps. *)

\* A nonempty set of naturals has a least element.
LEMMA LeastNatural ==
    ASSUME NEW T, T \subseteq Nat, T # {}
    PROVE  Approval!Min(T) \in T /\ \A y \in T : Approval!Min(T) <= y
<1> DEFINE R == {xy \in Nat \X Nat : xy[1] < xy[2]}
<1>2. IsWellFoundedOn(R, Nat)
    BY NatLessThanWellFounded DEF OpToRel
<1>3. \E x \in T : \A y \in T : ~ (<<y, x>> \in R)
  <2> HIDE DEF R
  <2> QED
    BY <1>2, WFMin, Zenon
<1>4. PICK x \in T : \A y \in T : ~ (<<y, x>> \in R)
    BY <1>3
<1>5. ASSUME NEW y \in T PROVE x <= y
  <2>1. x \in Nat /\ y \in Nat /\ ~ (<<y, x>> \in R)
    BY <1>4
  <2> QED BY <2>1
<1> QED BY <1>4, <1>5 DEF Approval!Min

\* A line is a sequence of levels with one step at least.
LEMMA LineType ==
    ASSUME Approval!TypeOK
    PROVE  /\ Len(line) \in Nat /\ Approval!Level \subseteq Nat \ {0}
           /\ \A i \in Approval!Level : line[i] \in [mode: Approval!Mode, width: Nat \ {0}]
           /\ \A i \in Approval!Level : /\ <<i, 1>> \in Approval!Of(i)
                                             /\ Approval!Of(i) \subseteq Approval!Step
                                        /\ \A s \in Approval!Of(i) : s[1] = i
           /\ \A s \in Approval!Step : s[1] \in Approval!Level /\ s \in Approval!Of(s[1])
                /\ s \in Nat \X Nat
<1> DEFINE levels == [mode: Approval!Mode, width: Nat \ {0}]
<1>1. line \in Seq(levels)
  BY OfficeAssumption DEF Approval!TypeOK
<1>2. /\ Len(line) \in Nat /\ Approval!Level \subseteq Nat \ {0}
      /\ \A i \in Approval!Level : line[i] \in levels
  <2> HIDE DEF levels
  <2> QED BY <1>1 DEF Approval!Level
<1>3. ASSUME NEW i \in Approval!Level
      PROVE  <<i, 1>> \in Approval!Of(i) /\ Approval!Of(i) \subseteq Approval!Step
               /\ \A s \in Approval!Of(i) : s[1] = i
  BY <1>2 DEF Approval!Of, Approval!Step
<1>4. ASSUME NEW s \in Approval!Step PROVE s[1] \in Approval!Level /\ s \in Approval!Of(s[1])
             /\ s \in Nat \X Nat
  <2>1. PICK i \in Approval!Level : s \in Approval!Of(i)
    BY DEF Approval!Step
  <2>2. i \in Nat /\ line[i].width \in Nat
    BY <1>2
  <2>3. s[1] = i /\ s \in Nat \X Nat
    BY <2>1, <2>2 DEF Approval!Of
  <2> QED BY <2>1, <2>3
<1> QED BY <1>2, <1>3, <1>4

\* The other steps of a level with one step are none.
LEMMA LoneStep ==
    ASSUME Approval!TypeOK, NEW s \in Approval!Step, line[s[1]].width = 1
    PROVE  Approval!Siblings(s) = {}
<1>1. s[1] \in Approval!Level /\ s \in Approval!Of(s[1])
  BY LineType
<1> QED BY <1>1 DEF Approval!Siblings, Approval!Of

\* NextLevel is the first level after this one that is not closed.
LEMMA Next_Level ==
    ASSUME Approval!TypeOK, NEW i \in Approval!Level
    PROVE  /\ Approval!NextLevel(i) \in Nat
           /\ Approval!NextLevel(i) = 0 => \A j \in Approval!Level : j > i => Closed(j)
           /\ Approval!NextLevel(i) # 0 =>
                 /\ Approval!NextLevel(i) \in Approval!Level /\ Approval!NextLevel(i) > i
                      /\ ~Closed(Approval!NextLevel(i))
                 /\ \A j \in Approval!Level : j > i /\ j < Approval!NextLevel(i) => Closed(j)
<1> DEFINE later == {j \in Approval!Level : j > i /\ Approval!Pending(Approval!Of(j)) # {}}
<1>1. Approval!Level \subseteq Nat \ {0}
  BY LineType
<1>2. Approval!NextLevel(i) = IF later = {} THEN 0 ELSE Approval!Min(later)
  BY DEF Approval!NextLevel
<1>3. CASE later = {}
  BY <1>1, <1>2, <1>3 DEF Closed
<1>4. CASE later # {}
  <2>1. Approval!Min(later) \in later /\ \A y \in later : Approval!Min(later) <= y
    BY <1>1, <1>4, LeastNatural
  <2>2. /\ Approval!NextLevel(i) \in Approval!Level /\ Approval!NextLevel(i) \in Nat \ {0}
             /\ Approval!NextLevel(i) > i
        /\ Approval!Pending(Approval!Of(Approval!NextLevel(i))) # {}
    <3>1. Approval!NextLevel(i) = Approval!Min(later)
      BY <1>2, <1>4
    <3>2. \A j \in later : j \in Approval!Level /\ j \in Nat \ {0} /\ j > i
            /\ Approval!Pending(Approval!Of(j)) # {}
      BY <1>1
    <3> HIDE DEF later
    <3> QED BY <2>1, <3>1, <3>2
  <2>3. ASSUME NEW j \in Approval!Level, j > i, j < Approval!NextLevel(i)
        PROVE  Approval!Pending(Approval!Of(j)) = {}
    <3>1. j \notin later
      <4>1. Approval!NextLevel(i) = Approval!Min(later) /\ j \in Nat
              /\ Approval!Min(later) \in Nat
        BY <1>1, <1>2, <1>4, <2>1
      <4> HIDE DEF later
      <4> QED BY <2>1, <2>3, <4>1
    <3> QED BY <2>3, <3>1
  <2> QED BY <2>2, <2>3 DEF Closed
<1> QED BY <1>3, <1>4

\* What was acted on stays as it is, and so levels stay approved, closed and
\* reached.
LEMMA Settled ==
    ASSUME Approval!TypeOK, UNCHANGED <<line, entries>>,
           \A s \in Approval!Step : step[s] # "PENDING" => step'[s] = step[s]
    PROVE  /\ Approval!Step' = Approval!Step /\ Approval!Level' = Approval!Level /\ \A i :
                Approval!Of(i)' = Approval!Of(i)
           /\ \A i \in Approval!Level : (Approved(i) => Approved(i)') /\ (Closed(i) => Closed(i)')
           /\ \A n : Reach(n) => Reach(n)'
           /\ \A s \in Approval!Step : Approval!Pending(Approval!Siblings(s)) = {}
                => Approval!Pending(Approval!Siblings(s))' = {}
           /\ Approval!Serial' = Approval!Serial /\ Sound' = Sound
<1>1. Approval!Step' = Approval!Step /\ Approval!Level' = Approval!Level /\ \A i :
        Approval!Of(i)' = Approval!Of(i)
  BY DEF Approval!Step, Approval!Level, Approval!Of
<1>2. Approval!Serial' = Approval!Serial /\ Sound' = Sound
  BY DEF Approval!Serial, Sound, Approval!Level
<1>3. ASSUME NEW i \in Approval!Level
      PROVE  (Approved(i) => Approved(i)') /\ (Closed(i) => Closed(i)')
  <2>1. Approval!Of(i) \subseteq Approval!Step
    BY LineType
  <2> QED BY <1>1, <2>1 DEF Approved, Closed, Approval!Pending
<1>4. ASSUME NEW n, Reach(n) PROVE Reach(n)'
  BY <1>1, <1>2, <1>3, <1>4 DEF Reach
<1>5. ASSUME NEW s \in Approval!Step, Approval!Pending(Approval!Siblings(s)) = {}
      PROVE  Approval!Pending(Approval!Siblings(s))' = {}
  <2>1. Approval!Siblings(s)' = Approval!Siblings(s)
          /\ Approval!Siblings(s) \subseteq Approval!Step
    BY <1>1, LineType DEF Approval!Siblings
  <2> QED BY <1>5, <2>1 DEF Approval!Pending
<1> QED BY <1>1, <1>2, <1>3, <1>4, <1>5

\* So what is due stays due, and a request that has locked no step but one that
\* stays as it is keeps what it has.
LEMMA SaneStays ==
    ASSUME Approval!TypeOK, UNCHANGED <<line, entries>>,
           \A s \in Approval!Step : step[s] # "PENDING" => step'[s] = step[s],
           NEW w \in Approval!Work, Sane(w),
           w.stage \in OnLock => step'[w.step] = "PENDING"
    PROVE  Sane(w)'
<1> USE Settled
<1>1. w.stage \in OnStep => w.step \in Approval!Step /\ w.step[1] \in Approval!Level
  BY LineType DEF Sane
<1>2. Due(w)'
  <2> SUFFICES ASSUME w.stage = "writing" PROVE Due(w)'
    BY DEF Due
  <2>1. w.step \in Approval!Step /\ Due(w)
    BY <1>1 DEF Sane, OnStep
  <2> QED BY <2>1 DEF Due
<1> QED BY <1>1, <1>2 DEF Sane

-----------------------------------------------------------------------------
(* A line approves at every level. *)

LEMMA ApprovalInit == Approval!Init => LineInv
<1> SUFFICES ASSUME Approval!Init PROVE LineInv
  OBVIOUS
<1>1. Approval!TypeOK
  BY DEF Approval!Init, Approval!TypeOK, Approval!Status, Approval!Final, Approval!StepStatus,
     Approval!Work, Approval!Idle
<1>2. Reach(1)
  BY <1>1, LineType DEF Reach
<1>3. \A p \in Session : Sane(desk[p])
  BY DEF Approval!Init, Sane, Due, Approval!Idle, OnStep, OnLock, OnForm
<1>4. Apart
  BY DEF Approval!Init, Apart, Clear, Approval!Idle, OnLock
<1>5. Steps
  BY DEF Approval!Init, Steps
<1>6. Approval!EveryLevelApproved
  BY DEF Approval!Init, Approval!EveryLevelApproved
<1> QED BY <1>1, <1>2, <1>3, <1>4, <1>5, <1>6 DEF LineInv, Approval!Init

\* A request goes on to w without acting on a step; what becomes of the request
\* of approval is not an approval.
LEMMA GoesOn ==
    ASSUME LineInv, NEW p \in Session, NEW w \in Approval!Work,
           desk' = [desk EXCEPT ![p] = w], UNCHANGED <<line, step, entries>>,
           Sane(w), \A q \in Session \ {p} : Clear(w, desk[q]) /\ Clear(desk[q], w),
           request' \in [status: Approval!Status, current: Nat], Reach(request'.current),
           request'.status = "APPROVED" => request.status = "APPROVED" \/ "approver" \in entries
    PROVE  LineInv'
<1> USE DEF LineInv
<1>0. desk \in [Session -> Approval!Work]
  BY DEF Approval!TypeOK
<1>1. Approval!TypeOK'
  <2>1. Approval!Step' = Approval!Step
    BY DEF Approval!Step, Approval!Level, Approval!Of
  <2> QED BY <1>0, <2>1 DEF Approval!TypeOK
<1>2. ASSUME NEW v \in Approval!Work, Sane(v) PROVE Sane(v)'
  BY <1>2, SaneStays DEF Sane
<1>3. ASSUME NEW q \in Session PROVE Sane(desk[q])'
  <2>1. CASE q = p
    BY <1>0, <1>2, <2>1
  <2>2. CASE q # p
    BY <1>0, <1>2, <2>2
  <2> QED BY <2>1, <2>2
<1>4. Apart'
  <2>1. \A u, v \in Approval!Work : Clear(u, v) => Clear(u, v)'
    BY DEF Clear, Skipper, Approval!Siblings, Approval!Of
  <2>2. ASSUME NEW q \in Session, NEW r \in Session, q # r PROVE Clear(desk[q], desk[r])'
    BY <1>0, <2>1, <2>2 DEF Apart
  <2> QED BY <2>2 DEF Apart
<1>5. Steps'
  BY Settled DEF Steps, Approved
<1>6. Reach(request.current)'
  BY Settled
<1>7. Approval!EveryLevelApproved'
  BY Settled DEF Approval!EveryLevelApproved
<1> QED BY <1>1, <1>3, <1>4, <1>5, <1>6, <1>7

LEMMA ApprovalAsks ==
    ASSUME LineInv, NEW p \in Session, Approval!Asks(p) PROVE LineInv'
<1> USE DEF LineInv
<1>0. /\ request \in [status: Approval!Status, current: Nat] /\ Approval!TypeOK
      /\ Approval!Idle \in Approval!Work
  BY DEF Approval!TypeOK, Approval!Work, Approval!Idle, Approval!Final, Approval!Status
<1>1. ASSUME NEW s \in Approval!Step, NEW verdict \in Approval!Verdicts,
             Approval!Ask(p, s, verdict) PROVE LineInv'
  <2> DEFINE w == [Approval!Loaded("acting") EXCEPT !.step = s, !.verdict = verdict]
  <2>1. s \in Nat \X Nat /\ verdict \in Approval!Final
          /\ ("reject" \notin entries => verdict = "APPROVED")
    BY <1>0, LineType DEF Approval!Verdicts, Approval!Final
  <2>2. /\ w \in Approval!Work
        /\ w.stage = "acting" /\ w.step = s /\ w.verdict = verdict
    BY <1>0, <2>1 DEF Approval!Loaded, Approval!Idle, Approval!Work
  <2>6. /\ desk' = [desk EXCEPT ![p] = w]
        /\ UNCHANGED <<line, request, step, entries>>
        /\ s[1] = request.current
    BY <1>1 DEF Approval!Ask, Approval!Goto
  <2>4. Sane(w)
    BY <2>1, <2>2, <2>6 DEF Sane, Due, OnStep, OnLock, OnForm
  <2>5. \A q \in Session : Clear(w, desk[q]) /\ Clear(desk[q], w)
    BY <2>2 DEF Clear, OnLock
  <2> QED BY <1>0, <2>2, <2>4, <2>5, <2>6, GoesOn
<1>2. ASSUME NEW w \in Approval!Work, w.stage \in OnForm, w.current = request.current,
             w.stage \in {"submitting", "editing"} => w.status = "DRAFT",
             w.stage = "overruling" => "approver" \in entries,
             w.stage = "editing" => "edit" \in entries,
             Approval!Goto(p, w), UNCHANGED <<line, request, step, entries>>
      PROVE  LineInv'
  <2>1. Sane(w)
    BY <1>2 DEF Sane, Due, OnStep, OnLock, OnForm
  <2>2. \A q \in Session : Clear(w, desk[q]) /\ Clear(desk[q], w)
    BY <1>2 DEF Clear, OnLock, OnForm
  <2> QED BY <1>0, <1>2, <2>1, <2>2, GoesOn DEF Approval!Goto
<1>3. CASE Approval!AskSubmit(p)
  <2>1. Approval!Loaded("submitting") \in Approval!Work
          /\ Approval!Loaded("submitting").stage = "submitting"
        /\ Approval!Loaded("submitting").status = request.status
        /\ Approval!Loaded("submitting").current = request.current
    BY <1>0 DEF Approval!Loaded, Approval!Work, Approval!Idle
  <2> QED BY <1>2, <1>3, <2>1 DEF Approval!AskSubmit, OnForm
<1>4. CASE Approval!AskEdit(p)
  <2>1. Approval!Loaded("editing") \in Approval!Work
          /\ Approval!Loaded("editing").stage = "editing"
        /\ Approval!Loaded("editing").status = request.status
        /\ Approval!Loaded("editing").current = request.current
    BY <1>0 DEF Approval!Loaded, Approval!Work, Approval!Idle
  <2> QED BY <1>2, <1>4, <2>1 DEF Approval!AskEdit, OnForm
<1>5. ASSUME NEW verdict \in Approval!Final, Approval!AskOverrule(p, verdict) PROVE LineInv'
  <2> DEFINE w == [Approval!Loaded("overruling") EXCEPT !.verdict = verdict]
  <2>1. w \in Approval!Work /\ w.stage = "overruling" /\ w.current = request.current
    BY <1>0 DEF Approval!Loaded, Approval!Work, Approval!Idle
  <2> QED BY <1>2, <1>5, <2>1 DEF Approval!AskOverrule, OnForm
<1> QED BY <1>1, <1>3, <1>4, <1>5 DEF Approval!Asks

\* A step that is locked is nobody else's, nor about to be skipped.
LEMMA LocksStep ==
    ASSUME LineInv, NEW p \in Session, Approval!LockStep(p) PROVE LineInv'
<1> USE DEF LineInv
<1> DEFINE v == desk[p]
           w == [desk[p] EXCEPT !.stage = "deciding", !.status = request.status]
<1>0. /\ request \in [status: Approval!Status, current: Nat] /\ Approval!TypeOK
      /\ Approval!Idle \in Approval!Work /\ desk \in [Session -> Approval!Work]
           /\ v \in Approval!Work /\ Sane(v)
      /\ v.stage = "acting" /\ UNCHANGED <<line, request, step, entries>>
  BY DEF Approval!TypeOK, Approval!Work, Approval!Idle, Approval!Final, Approval!Status,
     Approval!LockStep, Approval!At
<1>1. CASE Approval!Done(p)
  <2>1. Sane(Approval!Idle) /\ \A q \in Session : Clear(Approval!Idle, desk[q])
          /\ Clear(desk[q], Approval!Idle)
    BY DEF Sane, Due, Clear, Approval!Idle, OnStep, OnLock, OnForm
  <2> QED BY <1>0, <1>1, <2>1, GoesOn DEF Approval!Done, Approval!Goto
<1>2. CASE step[v.step] = "PENDING" /\ Approval!Goto(p, w)
  <2>1. /\ w \in Approval!Work /\ w.stage = "deciding" /\ w.step = v.step /\ w.verdict = v.verdict
    BY <1>0 DEF Approval!Work
  <2> HIDE DEF w
  <2>2. Sane(w)
    BY <1>0, <1>2, <2>1 DEF Sane, Due, OnStep, OnLock, OnForm
  <2>3. ASSUME NEW q \in Session \ {p}
        PROVE  Clear(w, desk[q]) /\ Clear(desk[q], w)
    <3> SUFFICES ASSUME desk[q].stage \in OnLock
                 PROVE  Clear(w, desk[q]) /\ Clear(desk[q], w)
      BY DEF Clear
    <3>1. v.step \notin Approval!Locks(q)
      BY DEF Approval!LockStep, Approval!LockedByOthers, Approval!Mine
    <3>2. desk[q].step \in Approval!Locks(q)
      BY DEF Approval!Locks, Approval!At, OnLock, Approval!Mine
    <3>3. ASSUME desk[q].stage = "writing", Skipper(desk[q])
          PROVE  w.step \notin Approval!Siblings(desk[q].step)
      <4>1. Approval!Skips(q)
        BY <3>3 DEF Approval!Skips, Skipper, Approval!ModeOf, Approval!Mine
      <4>2. Approval!Pending(Approval!Siblings(desk[q].step)) \subseteq Approval!Locks(q)
        BY <3>3, <4>1 DEF Approval!Locks, Approval!At, Approval!Mine
      <4> QED BY <1>2, <2>1, <3>1, <4>2 DEF Approval!Pending
    <3> QED BY <2>1, <3>1, <3>2, <3>3 DEF Clear
  <2> QED BY <1>0, <1>2, <2>1, <2>2, <2>3, GoesOn DEF Approval!Goto
<1> QED BY <1>1, <1>2 DEF Approval!LockStep, Approval!Mine

\* A later level that is closed is approved: where levels are serial there is
\* none, and without rejections it could not be closed otherwise.
LEMMA LaterApproved ==
    ASSUME LineInv, OneInv, NEW p \in Session, Approval!At(p, "deciding"), Sound,
           NEW j \in Approval!Level, j > Approval!Mine(p)[1], Closed(j)
    PROVE  Approved(j) /\ ~Approval!Serial
<1> USE DEF LineInv
<1> DEFINE s == <<j, 1>>
           m == Approval!Mine(p)
<1>1. s \in Approval!Step /\ s[1] = j /\ step[s] \in Approval!StepStatus \ {"PENDING"}
        /\ s \in Approval!Of(j)
  BY LineType DEF Closed, Approval!Pending, Approval!TypeOK
<1>2. /\ m \in Approval!Step /\ m[1] \in Approval!Level /\ m \in Approval!Of(m[1])
           /\ step[m] = "PENDING"
  BY LineType DEF Sane, OnStep, OnLock, Approval!At, Approval!Mine
<1>3. ~Approval!Serial
  <2>1. Reach(j)
    BY <1>1 DEF Steps
  <2>2. Approval!Serial => Closed(m[1])
    BY <1>2, <2>1 DEF Reach
  <2> QED BY <1>2, <2>2 DEF Closed, Approval!Pending
<1>4. CASE "reject" \notin entries
  <2>1. step[s] \in {"APPROVED", "SKIPPED"}
    BY <1>1, <1>4 DEF Steps, Approval!StepStatus
  <2> QED BY <1>1, <1>3, <2>1 DEF Steps, Approved
<1>5. CASE "race" \notin entries
  <2>1. request.status = "SUBMITTED" /\ m[1] = request.current
    BY <1>5 DEF OneInv, Current, OnStep, Approval!At
  <2>2. step[s] = "PENDING"
    BY <1>1, <1>5, <2>1 DEF OneInv, Submitted
  <2> QED BY <1>1, <2>2
<1> QED BY <1>3, <1>4, <1>5 DEF Sound

\* What the handler finds is due.
LEMMA LooksRight ==
    ASSUME LineInv, OneInv, NEW p \in Session, Approval!Look(p) PROVE LineInv'
<1> USE DEF LineInv
<1> DEFINE v == desk[p]
           next == Approval!NextLevel(Approval!Mine(p)[1])
           w == [desk[p] EXCEPT !.stage = "writing", !.outcome = Approval!Outcome(p), !.current = next]
<1>0. /\ request \in [status: Approval!Status, current: Nat] /\ Approval!TypeOK
      /\ desk \in [Session -> Approval!Work] /\ v \in Approval!Work /\ Sane(v)
      /\ v.stage = "deciding" /\ UNCHANGED <<line, request, step, entries>>
      /\ Approval!Goto(p, w)
  BY DEF Approval!TypeOK, Approval!Look, Approval!At
<1>1. v.step \in Approval!Step /\ v.step[1] \in Approval!Level
  BY <1>0, LineType DEF Sane, OnStep
<1>2. /\ next \in Nat
      /\ next = 0 => \A j \in Approval!Level : j > v.step[1] => Closed(j)
      /\ next # 0 => \A j \in Approval!Level : j > v.step[1] /\ j < next => Closed(j)
  BY <1>0, <1>1, Next_Level DEF Approval!Mine
<1>3. /\ Approval!Outcome(p) \in {"nothing", "advance", "approve", "reject"}
      /\ Approval!Outcome(p) = "reject" => v.verdict = "REJECTED"
      /\ Approval!Outcome(p) \in {"approve", "advance"} =>
            /\ v.verdict = "APPROVED" /\ v.status \notin Approval!Final
            /\ line[v.step[1]].mode = "ALL" => Approval!Pending(Approval!Siblings(v.step)) = {}
            /\ Approval!Outcome(p) = "approve" <=> next = 0
  <2>1. v.verdict \in {"APPROVED", "REJECTED"}
    BY <1>0 DEF Approval!Work, Approval!Final
  <2>2. Approval!Passes(p)
          => (line[v.step[1]].mode = "ALL" => Approval!Pending(Approval!Siblings(v.step)) = {})
    BY DEF Approval!Passes, Approval!ModeOf, Approval!Mine
  <2> QED BY <2>1, <2>2 DEF Approval!Outcome
<1>4. w \in Approval!Work /\ w.stage = "writing" /\ w.step = v.step /\ w.verdict = v.verdict
      /\ w.status = v.status /\ w.outcome = Approval!Outcome(p) /\ w.current = next
  BY <1>0, <1>2, <1>3 DEF Approval!Work
<1> HIDE DEF w, next
<1>5. Due(w)
  <2>1. ASSUME w.outcome \in {"approve", "advance"}, Sound,
               NEW j \in Approval!Level, j > w.step[1], w.outcome = "advance" => j < w.current
        PROVE  Approved(j) /\ (Approval!Serial => Closed(j))
    <3>1. Closed(j)
      BY <1>2, <1>3, <1>4, <2>1
    <3>2. Approved(j) /\ ~Approval!Serial
      BY <1>0, <1>4, <2>1, <3>1, LaterApproved DEF Approval!At, Approval!Mine
    <3> QED BY <3>1, <3>2
  <2> QED BY <1>3, <1>4, <2>1 DEF Due
<1>6. Sane(w)
  BY <1>0, <1>4, <1>5 DEF Sane, OnStep, OnLock, OnForm
<1>7. ASSUME NEW q \in Session \ {p}
      PROVE  Clear(w, desk[q]) /\ Clear(desk[q], w)
  <2> SUFFICES ASSUME desk[q].stage \in OnLock
               PROVE  Clear(w, desk[q]) /\ Clear(desk[q], w)
    BY DEF Clear
  <2>1. Clear(v, desk[q]) /\ Clear(desk[q], v)
    BY DEF Apart
  <2>2. Clear(desk[q], w) /\ w.step # desk[q].step
    BY <1>0, <1>4, <2>1 DEF Clear, OnLock
  <2>3. ASSUME Skipper(w) PROVE desk[q].step \notin Approval!Siblings(w.step)
    <3>1. Approval!Skips(p)
      BY <1>4, <2>3 DEF Approval!Skips, Skipper, Approval!ModeOf, Approval!Mine
    <3>2. desk[q].step \in Approval!Locks(q) /\ step[desk[q].step] = "PENDING"
      BY DEF Approval!Locks, Approval!At, OnLock, Approval!Mine, Sane
    <3>3. \A s \in Approval!Pending(Approval!Siblings(v.step)) : ~Approval!LockedByOthers(p, s)
      BY <3>1 DEF Approval!Look, Approval!Mine
    <3> QED BY <1>4, <3>2, <3>3 DEF Approval!Pending, Approval!LockedByOthers
  <2> QED BY <2>2, <2>3 DEF Clear
<1> QED BY <1>0, <1>4, <1>6, <1>7, GoesOn DEF Approval!Goto

\* Forms and the approver write what they have loaded.
LEMMA WritesForm ==
    ASSUME LineInv, NEW p \in Session,
           Approval!Deadlocked(p) \/ Approval!CommitSubmit(p) \/ Approval!CommitEdit(p)
             \/ Approval!CommitOverrule(p)
    PROVE  LineInv'
<1> USE DEF LineInv
<1>0. /\ request \in [status: Approval!Status, current: Nat] /\ Approval!TypeOK
      /\ Approval!Idle \in Approval!Work /\ desk[p] \in Approval!Work /\ Sane(desk[p])
      /\ desk' = [desk EXCEPT ![p] = Approval!Idle] /\ UNCHANGED <<line, step, entries>>
  BY DEF Approval!TypeOK, Approval!Work, Approval!Idle, Approval!Final, Approval!Status,
     Approval!Deadlocked, Approval!CommitSubmit, Approval!CommitEdit, Approval!CommitOverrule,
     Approval!Done, Approval!Goto
<1>1. Sane(Approval!Idle) /\ \A q \in Session : Clear(Approval!Idle, desk[q])
        /\ Clear(desk[q], Approval!Idle)
  BY DEF Sane, Due, Clear, Approval!Idle, OnStep, OnLock, OnForm
<1>2. CASE Approval!Deadlocked(p)
  BY <1>0, <1>1, <1>2, GoesOn DEF Approval!Deadlocked
<1>3. CASE Approval!CommitSubmit(p)
  <2>1. request' = [status |-> "SUBMITTED",
                    current |-> IF Len(line) > 0 THEN 1 ELSE request.current]
    BY <1>3 DEF Approval!CommitSubmit
  <2>2. Reach(request'.current)
    <3>1. Reach(1)
      BY LineType DEF Reach
    <3> QED BY <2>1, <3>1
  <2>3. request' \in [status: Approval!Status, current: Nat] /\ request'.status = "SUBMITTED"
    BY <1>0, <2>1 DEF Approval!Status
  <2> QED BY <1>0, <1>1, <2>2, <2>3, GoesOn
<1>4. CASE Approval!CommitEdit(p)
  <2>1. /\ request' = [status |-> desk[p].status, current |-> desk[p].current]
        /\ desk[p].stage = "editing"
    BY <1>4 DEF Approval!CommitEdit, Approval!At
  <2>2. Reach(request'.current) /\ request'.status = "DRAFT"
    BY <1>0, <2>1 DEF Sane, OnForm
  <2>3. request' \in [status: Approval!Status, current: Nat]
    BY <1>0, <2>1 DEF Approval!Work
  <2> QED BY <1>0, <1>1, <2>2, <2>3, GoesOn
<1>5. CASE Approval!CommitOverrule(p)
  <2>1. /\ request' = [status |-> desk[p].verdict, current |-> desk[p].current]
        /\ desk[p].stage = "overruling"
    BY <1>5 DEF Approval!CommitOverrule, Approval!At
  <2>2. Reach(request'.current) /\ "approver" \in entries
    BY <1>0, <2>1 DEF Sane, OnForm
  <2>3. request' \in [status: Approval!Status, current: Nat]
    BY <1>0, <2>1 DEF Approval!Work, Approval!Status, Approval!Final
  <2> QED BY <1>0, <1>1, <2>2, <2>3, GoesOn
<1> QED BY <1>2, <1>3, <1>4, <1>5

\* What a commit does to the steps: one that was pending has its verdict, the
\* others of its level may be skipped, and the rest is as it was.
LEMMA CommitSteps ==
    ASSUME LineInv, NEW p \in Session, Approval!Commit(p)
    PROVE  LET m == Approval!Mine(p)
               v == desk[p]
           IN  /\ v.stage = "writing" /\ v \in Approval!Work /\ Sane(v)
                    /\ v.verdict \in Approval!Final
               /\ m = v.step /\ m \in Approval!Step /\ m[1] \in Approval!Level
                    /\ m \in Approval!Of(m[1]) /\ step[m] = "PENDING"
               /\ Approval!Skipped(p) \subseteq Approval!Pending(Approval!Siblings(m))
                    /\ Approval!Siblings(m) \subseteq Approval!Step \ {m}
               /\ Approval!Skipped(p) # {} => Skipper(v)
               /\ Skipper(v) => Approval!Skipped(p) = Approval!Pending(Approval!Siblings(m))
               /\ step' \in [Approval!Step -> Approval!StepStatus] /\ step'[m] = v.verdict
               /\ \A s \in Approval!Skipped(p) : step'[s] = "SKIPPED" /\ s[1] = m[1]
               /\ \A s \in Approval!Step : s # m /\ s \notin Approval!Skipped(p)
                    => step'[s] = step[s]
               /\ \A s \in Approval!Step : step[s] # "PENDING" => step'[s] = step[s]
               /\ desk \in [Session -> Approval!Work]
                    /\ desk' = [desk EXCEPT ![p] = Approval!Idle]
               /\ Approval!Idle \in Approval!Work /\ UNCHANGED <<line, entries>>
<1> USE DEF LineInv
<1> DEFINE m == Approval!Mine(p)
           v == desk[p]
<1>1. /\ v.stage = "writing" /\ v \in Approval!Work /\ Sane(v) /\ v.verdict \in Approval!Final
      /\ desk \in [Session -> Approval!Work] /\ desk' = [desk EXCEPT ![p] = Approval!Idle]
      /\ Approval!Idle \in Approval!Work /\ UNCHANGED <<line, entries>>
  BY DEF Approval!TypeOK, Approval!Work, Approval!Idle, Approval!Final, Approval!Status,
     Approval!Commit, Approval!At, Approval!Done, Approval!Goto
<1>2. m = v.step /\ m \in Approval!Step /\ m[1] \in Approval!Level /\ m \in Approval!Of(m[1])
        /\ step[m] = "PENDING"
  BY <1>1, LineType DEF Approval!Mine, Sane, OnStep, OnLock
<1>3. Approval!Siblings(m) \subseteq Approval!Step \ {m} /\ \A s \in Approval!Siblings(m) :
        s[1] = m[1]
  BY <1>2, LineType DEF Approval!Siblings
<1>4. /\ Approval!Skipped(p) \subseteq Approval!Pending(Approval!Siblings(m))
      /\ Approval!Skipped(p) # {} => Skipper(v)
      /\ Skipper(v) => Approval!Skipped(p) = Approval!Pending(Approval!Siblings(m))
  BY DEF Approval!Skipped, Approval!Skips, Skipper, Approval!ModeOf, Approval!Mine
<1>5. \A s \in Approval!Skipped(p) : s \in Approval!Siblings(m) /\ step[s] = "PENDING"
  BY <1>4 DEF Approval!Pending
<1>6. step' = [s \in Approval!Step |-> IF s = m THEN v.verdict
                                       ELSE IF s \in Approval!Skipped(p) THEN "SKIPPED" ELSE step[s]]
  BY DEF Approval!Commit
<1>7. step \in [Approval!Step -> Approval!StepStatus]
  BY DEF Approval!TypeOK
<1> HIDE DEF m, v
<1>8. step' \in [Approval!Step -> Approval!StepStatus]
  BY <1>1, <1>6, <1>7 DEF Approval!StepStatus, Approval!Final
<1>9. /\ step'[m] = v.verdict
      /\ \A s \in Approval!Skipped(p) : step'[s] = "SKIPPED" /\ s[1] = m[1]
      /\ \A s \in Approval!Step : s # m /\ s \notin Approval!Skipped(p) => step'[s] = step[s]
  BY <1>2, <1>3, <1>5, <1>6
<1>10. \A s \in Approval!Step : step[s] # "PENDING" => step'[s] = step[s]
  BY <1>2, <1>5, <1>9
<1> QED BY <1>1, <1>2, <1>3, <1>4, <1>8, <1>9, <1>10 DEF m, v

\* A level that is passed is approved, and closed where levels are serial.
LEMMA Passes_Level ==
    ASSUME LineInv, NEW p \in Session, Approval!Commit(p),
           desk[p].outcome \in {"approve", "advance"}, NEW i \in Approval!Level,
             i = Approval!Mine(p)[1]
    PROVE  Approved(i)' /\ (Approval!Serial \/ line[i].mode \in {"ALL", "ANY"} => Closed(i)')
<1> USE DEF LineInv
<1> DEFINE m == Approval!Mine(p)
           v == desk[p]
<1>1. /\ v.verdict = "APPROVED" /\ v.status \notin Approval!Final
      /\ line[i].mode = "ALL" => Approval!Pending(Approval!Siblings(m)) = {}
  <2>1. Due(v) /\ v.stage = "writing" /\ v.step = m
    BY CommitSteps DEF Sane
  <2> QED BY <2>1 DEF Due
<1>2. UNCHANGED <<line, entries>> /\ \A s \in Approval!Step : step[s] # "PENDING"
        => step'[s] = step[s]
  BY CommitSteps
<1>3. Approval!Of(i)' = Approval!Of(i) /\ m \in Approval!Of(i) /\ step'[m] = "APPROVED"
        /\ m \in Approval!Step
      /\ Approval!Of(i) \subseteq Approval!Step
  <2>1. Approval!Of(i)' = Approval!Of(i)
    BY <1>2, Settled
  <2>2. m \in Approval!Of(i) /\ step'[m] = "APPROVED" /\ m \in Approval!Step
    BY <1>1, CommitSteps
  <2> QED BY <2>1, <2>2, LineType
<1>4. Approved(i)'
  BY <1>3 DEF Approved
<1>5. ASSUME Approval!Serial \/ line[i].mode \in {"ALL", "ANY"} PROVE Closed(i)'
  <2>1. line[i].mode \in {"ALL", "ANY", "SEQUENTIAL"}
    BY <1>3, LineType DEF Approval!Mode
  <2>2. Approval!Pending(Approval!Siblings(m)) = Approval!Skipped(p)
          \/ Approval!Pending(Approval!Siblings(m)) = {}
    <3>1. CASE line[i].mode = "ANY"
      <4>1. Skipper(v)
        BY <1>1, <3>1, CommitSteps DEF Skipper
      <4> QED BY <4>1, CommitSteps
    <3>2. CASE line[i].mode = "ALL"
      BY <1>1, <3>2
    <3>3. CASE line[i].mode = "SEQUENTIAL"
      <4>1. Approval!Siblings(m) = {}
        BY <1>3, <1>5, <3>3, LoneStep DEF Approval!Serial
      <4> QED BY <4>1 DEF Approval!Pending
    <3> QED BY <2>1, <3>1, <3>2, <3>3
  <2>3. ASSUME NEW s \in Approval!Of(i) PROVE step'[s] # "PENDING"
    <3>1. s = m \/ s \in Approval!Siblings(m)
      BY DEF Approval!Siblings
    <3>2. s \in Approval!Siblings(m) /\ step[s] = "PENDING" => s \in Approval!Skipped(p)
      BY <2>2 DEF Approval!Pending
    <3> QED BY <1>2, <1>3, <3>1, <3>2, CommitSteps
  <2> QED BY <1>3, <2>3 DEF Closed, Approval!Pending
<1> QED BY <1>4, <1>5

LEMMA CommitsRight ==
    ASSUME LineInv, NEW p \in Session, Approval!Commit(p) PROVE LineInv'
<1> USE DEF LineInv
<1> DEFINE m == Approval!Mine(p)
           v == desk[p]
<1>0. /\ request \in [status: Approval!Status, current: Nat] /\ Approval!TypeOK
      /\ UNCHANGED <<line, entries>> /\ request' = Approval!Written(v)
      /\ \A s \in Approval!Step : step[s] # "PENDING" => step'[s] = step[s]
  BY CommitSteps DEF Approval!TypeOK, Approval!Commit
<1>1. /\ Approval!Step' = Approval!Step /\ Approval!Level' = Approval!Level /\ \A i :
           Approval!Of(i)' = Approval!Of(i)
      /\ \A i \in Approval!Level : (Approved(i) => Approved(i)') /\ (Closed(i) => Closed(i)')
      /\ \A n : Reach(n) => Reach(n)'
      /\ Approval!Serial' = Approval!Serial /\ Sound' = Sound
  BY <1>0, Settled
<1>2. v.outcome \in {"nothing", "advance", "approve", "reject"} /\ v.current \in Nat
  BY CommitSteps DEF Approval!Work
<1>3. Approval!TypeOK'
  <2>1. request' \in [status: Approval!Status, current: Nat]
    BY <1>0, <1>2 DEF Approval!Written, Approval!Status
  <2> QED BY <1>0, <1>1, <2>1, CommitSteps DEF Approval!TypeOK
<1>4. ASSUME NEW q \in Session PROVE Sane(desk[q])'
  <2>1. CASE q = p
    BY <2>1, CommitSteps DEF Sane, Due, Approval!Idle, OnStep, OnLock, OnForm
  <2>2. CASE q # p
    <3> DEFINE u == desk[q]
    <3>1. desk'[q] = u /\ u \in Approval!Work /\ Sane(u)
      BY <2>2, CommitSteps DEF Approval!TypeOK
    <3>2. ASSUME u.stage \in OnLock PROVE step'[u.step] = "PENDING"
      <4>1. Clear(v, u) /\ v.stage \in OnLock /\ v.stage = "writing"
        BY <2>2, CommitSteps DEF Apart, OnLock
      <4>2. u.step \in Approval!Step /\ step[u.step] = "PENDING"
        BY <3>1, <3>2 DEF Sane, OnStep, OnLock
      <4>3. u.step # m /\ u.step \notin Approval!Skipped(p)
        BY <3>2, <4>1, CommitSteps DEF Clear, Approval!Pending
      <4> QED BY <4>2, <4>3, CommitSteps
    <3>3. Sane(u)'
      BY <1>0, <3>1, <3>2, SaneStays
    <3> QED BY <3>1, <3>3 DEF Sane, Due
  <2> QED BY <2>1, <2>2
<1>5. Apart'
  <2>1. \A t, u \in Approval!Work : Clear(t, u) => Clear(t, u)'
    BY <1>0, <1>1 DEF Clear, Skipper, Approval!Siblings
  <2>2. ASSUME NEW q \in Session, NEW r \in Session, q # r PROVE Clear(desk[q], desk[r])'
    BY <2>1, <2>2, CommitSteps DEF Apart, Clear, Approval!Idle, OnLock
  <2> QED BY <2>2 DEF Apart
<1>6. Reach(m[1])
  BY CommitSteps DEF Sane, OnStep
<1>7. Steps'
  <2> SUFFICES ASSUME NEW s \in Approval!Step
               PROVE  /\ step'[s] # "PENDING" => Reach(s[1])'
                      /\ step'[s] = "SKIPPED" => Approved(s[1])' /\ line[s[1]].mode = "ANY"
                      /\ "reject" \notin entries => step'[s] # "REJECTED"
    BY <1>0, <1>1 DEF Steps
  <2>1. CASE s = m
    <3>1. step'[s] = v.verdict /\ v.verdict # "SKIPPED" /\ Reach(s[1])'
      BY <1>1, <1>6, <2>1, CommitSteps DEF Approval!Final
    <3>2. "reject" \notin entries => v.verdict = "APPROVED"
      BY CommitSteps DEF Sane, OnStep
    <3> QED BY <3>1, <3>2
  <2>2. CASE s \in Approval!Skipped(p)
    <3>1. step'[s] = "SKIPPED" /\ s[1] = m[1] /\ Skipper(v)
      BY <2>2, CommitSteps
    <3>2. step'[m] = "APPROVED" /\ m \in Approval!Of(s[1]) /\ line[s[1]].mode = "ANY"
      BY <3>1, CommitSteps DEF Skipper
    <3>3. Reach(s[1])' /\ Approval!Of(s[1])' = Approval!Of(s[1])
      BY <1>1, <1>6, <3>1
    <3> QED BY <3>1, <3>2, <3>3 DEF Approved
  <2>3. CASE s # m /\ s \notin Approval!Skipped(p)
    <3>1. step'[s] = step[s] /\ s[1] \in Approval!Level
      BY <2>3, CommitSteps, LineType
    <3> QED BY <1>1, <3>1 DEF Steps
  <2> QED BY <2>1, <2>2, <2>3
<1>8. Reach(request.current)'
  <2>1. CASE v.outcome # "advance"
    BY <1>0, <1>1, <1>2, <2>1 DEF Approval!Written
  <2>2. CASE v.outcome = "advance"
    <3>1. request'.current = v.current
      BY <1>0, <2>2 DEF Approval!Written
    <3> SUFFICES ASSUME Sound, NEW i \in Approval!Level, i < v.current
                 PROVE  Approved(i)' /\ (Approval!Serial => Closed(i)')
      BY <1>1, <3>1 DEF Reach
    <3>2. CASE i < m[1]
      BY <1>1, <1>6, <3>2 DEF Reach
    <3>3. CASE i = m[1]
      BY <2>2, <3>3, Passes_Level
    <3>4. CASE i > m[1]
      BY <1>1, <2>2, <3>4, CommitSteps DEF Sane, Due
    <3>5. i \in Nat /\ m[1] \in Nat
      BY <1>0, CommitSteps, LineType
    <3> QED BY <3>2, <3>3, <3>4, <3>5
  <2> QED BY <2>1, <2>2
<1>9. Approval!EveryLevelApproved'
  <2> SUFFICES ASSUME request'.status = "APPROVED", "approver" \notin entries, Sound,
                      NEW i \in Approval!Level
               PROVE  Approved(i)'
    BY <1>0, <1>1 DEF Approval!EveryLevelApproved, Approved, Sound
  <2>1. CASE v.outcome # "approve"
    <3>1. request.status = "APPROVED"
      BY <1>0, <1>2, <2>1 DEF Approval!Written
    <3> QED BY <1>1, <3>1 DEF Approval!EveryLevelApproved, Approved, Sound
  <2>2. CASE v.outcome = "approve"
    <3>2. CASE i < m[1]
      BY <1>1, <1>6, <3>2 DEF Reach
    <3>3. CASE i = m[1]
      BY <2>2, <3>3, Passes_Level
    <3>4. CASE i > m[1]
      BY <1>1, <2>2, <3>4, CommitSteps DEF Sane, Due
    <3>5. i \in Nat /\ m[1] \in Nat
      BY <1>0, CommitSteps, LineType
    <3> QED BY <3>2, <3>3, <3>4, <3>5
  <2> QED BY <2>1, <2>2
<1> QED BY <1>3, <1>4, <1>5, <1>7, <1>8, <1>9

LEMMA LineStep == LineInv /\ OneInv /\ Approval!Next => LineInv'
<1> SUFFICES ASSUME LineInv, OneInv, NEW p \in Session, Approval!Asks(p) \/ Approval!Answers(p)
             PROVE  LineInv'
  BY DEF Approval!Next
<1>1. \/ Approval!Asks(p) \/ Approval!LockStep(p) \/ Approval!Look(p) \/ Approval!Commit(p)
      \/ Approval!Deadlocked(p) \/ Approval!CommitSubmit(p) \/ Approval!CommitEdit(p)
           \/ Approval!CommitOverrule(p)
  BY DEF Approval!Answers
<1> QED BY <1>1, ApprovalAsks, LocksStep, LooksRight, WritesForm, CommitsRight

LEMMA LineStays == LineInv /\ UNCHANGED Approval!vars => LineInv'
<1> SUFFICES ASSUME LineInv, UNCHANGED Approval!vars PROVE LineInv'
  OBVIOUS
<1> USE DEF LineInv, Approval!vars
<1>1. Approval!Step' = Approval!Step
  BY DEF Approval!Step, Approval!Level, Approval!Of
<1>2. Approval!TypeOK'
  BY <1>1 DEF Approval!TypeOK
<1>3. \A w \in Approval!Work : Sane(w) => Sane(w)'
  BY SaneStays DEF Sane
<1>4. \A p \in Session : Sane(desk[p])'
  BY <1>3 DEF Approval!TypeOK
<1>5. Apart'
  BY DEF Apart, Clear, Skipper, Approval!Siblings, Approval!Of
<1>6. Steps' /\ Reach(request.current)' /\ Approval!EveryLevelApproved'
  BY Settled DEF Steps, Approved, Approval!EveryLevelApproved
<1> QED BY <1>2, <1>4, <1>5, <1>6

-----------------------------------------------------------------------------
(* One at a time, the request follows its line. *)

\* While the line and the steps are as they were, so are the levels.
LEMMA SameSteps ==
    ASSUME UNCHANGED <<line, step, entries>>
    PROVE  /\ Approval!Step' = Approval!Step /\ Approval!Level' = Approval!Level /\ \A i :
                Approval!Of(i)' = Approval!Of(i)
           /\ \A i : Approval!Passed(i)' = Approval!Passed(i) /\ Closed(i)' = Closed(i)
                /\ Approval!NextLevel(i)' = Approval!NextLevel(i)
           /\ \A s : Approval!Siblings(s)' = Approval!Siblings(s)
                /\ Approval!Pending(Approval!Siblings(s))' = Approval!Pending(Approval!Siblings(s))
<1>1. Approval!Step' = Approval!Step /\ Approval!Level' = Approval!Level /\ \A i :
        Approval!Of(i)' = Approval!Of(i)
  BY DEF Approval!Step, Approval!Level, Approval!Of
<1>2. \A i : Approval!Pending(Approval!Of(i))' = Approval!Pending(Approval!Of(i))
  BY <1>1 DEF Approval!Pending
<1>3. \A i : Approval!Passed(i)' = Approval!Passed(i) /\ Closed(i)' = Closed(i)
  BY <1>1, <1>2 DEF Approval!Passed, Closed
<1>4. ASSUME NEW i PROVE Approval!NextLevel(i)' = Approval!NextLevel(i)
  BY <1>1, <1>2 DEF Approval!NextLevel
<1>5. \A s : Approval!Siblings(s)' = Approval!Siblings(s)
        /\ Approval!Pending(Approval!Siblings(s))' = Approval!Pending(Approval!Siblings(s))
  BY <1>1 DEF Approval!Siblings, Approval!Pending
<1> QED BY <1>1, <1>3, <1>4, <1>5

LEMMA OneInit == Approval!Init => OneInv
<1> SUFFICES ASSUME Approval!Init PROVE OneInv
  OBVIOUS
<1>1. OneApprover /\ Draft /\ Submitted /\ Decided
  BY DEF Approval!Init, OneApprover, Approval!At, Approval!Idle, Draft, Submitted, Decided
<1>2. \A p \in Session : Current(p)
  BY DEF Approval!Init, Current, Approval!At, Approval!Idle, OnStep, OnLock
<1> QED BY <1>1, <1>2 DEF OneInv

\* The one request in progress goes on, and what it asks about stays as it is.
LEMMA OneGoesOn ==
    ASSUME LineInv, OneInv, "race" \notin entries, NEW p \in Session, NEW w,
           Approval!Goto(p, w), UNCHANGED <<line, request, step, entries>>,
           \A q \in Session \ {p} : Approval!At(q, "idle"), Current(p)'
    PROVE  OneInv'
<1>1. desk \in [Session -> Approval!Work] /\ desk' = [desk EXCEPT ![p] = w]
  BY DEF LineInv, Approval!TypeOK, Approval!Goto
<1>2. \A q \in Session \ {p} : desk'[q].stage = "idle"
  BY <1>1 DEF Approval!At
<1>3. OneApprover'
  BY <1>2 DEF OneApprover, Approval!At
<1>4. \A q \in Session : Current(q)'
  BY <1>2 DEF Current, Approval!At, OnStep, OnLock
<1>5. Draft' /\ Submitted' /\ Decided'
  BY SameSteps DEF OneInv, Draft, Submitted, Decided
<1> QED BY <1>3, <1>4, <1>5 DEF OneInv

LEMMA OneAsks ==
    ASSUME LineInv, OneInv, "race" \notin entries, NEW p \in Session, Approval!Asks(p)
    PROVE  OneInv'
<1>0. /\ desk \in [Session -> Approval!Work] /\ Approval!Starts(p)
      /\ UNCHANGED <<line, request, step, entries>>
  BY DEF LineInv, Approval!TypeOK, Approval!Asks, Approval!Ask, Approval!AskSubmit,
     Approval!AskEdit, Approval!AskOverrule
<1>1. \A q \in Session : Approval!At(q, "idle")
  BY <1>0 DEF Approval!Starts
<1>2. ASSUME NEW w, Approval!Goto(p, w),
             w.stage \in {"acting", "submitting", "editing", "overruling"},
             w.stage = "acting" => request.status = "SUBMITTED" /\ w.step[1] = request.current,
             w.stage \in {"submitting", "editing"} =>
                 request.status = "DRAFT" /\ w.current = request.current
      PROVE  OneInv'
  <2>1. desk'[p] = w
    BY <1>0, <1>2 DEF Approval!Goto
  <2>2. Current(p)'
    BY <1>0, <1>2, <2>1 DEF Current, Approval!At, Approval!Mine, OnStep, OnLock
  <2> QED BY <1>0, <1>1, <1>2, <2>2, OneGoesOn
<1>3. /\ Approval!Loaded("submitting").stage = "submitting"
           /\ Approval!Loaded("editing").stage = "editing"
      /\ Approval!Loaded("submitting").current = request.current
      /\ Approval!Loaded("editing").current = request.current
  BY DEF Approval!Loaded, Approval!Idle
<1>4. ASSUME NEW s \in Approval!Step, NEW verdict \in Approval!Verdicts,
             Approval!Ask(p, s, verdict) PROVE OneInv'
  <2> DEFINE w == [Approval!Loaded("acting") EXCEPT !.step = s, !.verdict = verdict]
  <2>1. w.stage = "acting" /\ w.step = s
    BY DEF Approval!Loaded, Approval!Idle
  <2>2. Approval!Goto(p, w) /\ request.status = "SUBMITTED" /\ s[1] = request.current
    BY <1>4 DEF Approval!Ask
  <2> HIDE DEF w
  <2> QED BY <1>2, <2>1, <2>2
<1>5. CASE Approval!AskSubmit(p)
  BY <1>2, <1>3, <1>5 DEF Approval!AskSubmit
<1>6. CASE Approval!AskEdit(p)
  BY <1>2, <1>3, <1>6 DEF Approval!AskEdit
<1>7. ASSUME NEW verdict \in Approval!Final, Approval!AskOverrule(p, verdict) PROVE OneInv'
  <2> DEFINE w == [Approval!Loaded("overruling") EXCEPT !.verdict = verdict]
  <2>1. w.stage = "overruling" /\ Approval!Goto(p, w)
    BY <1>7 DEF Approval!Loaded, Approval!Idle, Approval!AskOverrule
  <2> HIDE DEF w
  <2> QED BY <1>2, <2>1
<1> QED BY <1>4, <1>5, <1>6, <1>7 DEF Approval!Asks

LEMMA OneAnswers ==
    ASSUME LineInv, OneInv, "race" \notin entries, NEW p \in Session,
           Approval!LockStep(p) \/ Approval!Look(p) \/ Approval!Deadlocked(p)
    PROVE  OneInv'
<1> DEFINE v == desk[p]
<1>0. /\ desk \in [Session -> Approval!Work] /\ v \in Approval!Work
      /\ UNCHANGED <<line, request, step, entries>> /\ v.stage \in OnStep
      /\ Current(p)
  BY DEF LineInv, Approval!TypeOK, Approval!LockStep, Approval!Look, Approval!Deadlocked,
     Approval!At, OnStep, OneInv
<1>1. \A q \in Session \ {p} : Approval!At(q, "idle")
  BY <1>0 DEF OneInv, OneApprover, Approval!At, OnStep
<1>2. CASE Approval!Done(p)
  <2>1. desk'[p].stage = "idle"
    BY <1>0, <1>2 DEF Approval!Done, Approval!Goto, Approval!Idle
  <2>2. Current(p)'
    BY <2>1 DEF Current, Approval!At, OnStep, OnLock
  <2> QED BY <1>0, <1>1, <1>2, <2>2, OneGoesOn DEF Approval!Done
<1>3. CASE Approval!LockStep(p) /\ ~Approval!Done(p)
  <2> DEFINE w == [desk[p] EXCEPT !.stage = "deciding", !.status = request.status]
  <2>1. Approval!Goto(p, w) /\ w.stage = "deciding" /\ w.status = request.status
          /\ w.step = v.step
    BY <1>0, <1>3 DEF Approval!LockStep, Approval!Work
  <2> HIDE DEF w
  <2>2. desk'[p] = w
    BY <1>0, <2>1 DEF Approval!Goto
  <2>3. Current(p)'
    BY <1>0, <2>1, <2>2 DEF Current, Approval!At, Approval!Mine, OnStep, OnLock
  <2> QED BY <1>0, <1>1, <2>1, <2>3, OneGoesOn
<1>4. CASE Approval!Look(p)
  <2> DEFINE w == [desk[p] EXCEPT !.stage = "writing", !.outcome = Approval!Outcome(p),
                                  !.current = Approval!NextLevel(Approval!Mine(p)[1])]
  <2>1. /\ Approval!Goto(p, w) /\ w.stage = "writing" /\ w.status = v.status /\ w.step = v.step
        /\ w.verdict = v.verdict /\ w.outcome = Approval!Outcome(p)
             /\ w.current = Approval!NextLevel(Approval!Mine(p)[1])
        /\ v.stage = "deciding"
    BY <1>0, <1>4 DEF Approval!Look, Approval!Work, Approval!At
  <2> HIDE DEF w
  <2>2. desk'[p] = w /\ Approval!Mine(p)' = Approval!Mine(p)
    BY <1>0, <2>1 DEF Approval!Goto, Approval!Mine
  <2>3. Approval!NextLevel(Approval!Mine(p)[1])' = Approval!NextLevel(Approval!Mine(p)[1])
    BY <1>0, <2>2, SameSteps
  <2>4. Approval!Passes(p)' = Approval!Passes(p)
    BY <1>0, <2>2, SameSteps DEF Approval!Passes, Approval!ModeOf
  <2>5. Approval!Outcome(p)' = Approval!Outcome(p)
    BY <2>1, <2>2, <2>3, <2>4 DEF Approval!Outcome
  <2>6. Current(p)'
    BY <1>0, <2>1, <2>2, <2>3, <2>5 DEF Current, Approval!At, Approval!Mine, OnStep, OnLock
  <2> QED BY <1>0, <1>1, <2>1, <2>6, OneGoesOn
<1> QED BY <1>2, <1>3, <1>4 DEF Approval!Deadlocked

\* The commit of the one request in progress: it is rejected with its step, waits
\* for those beside it, goes to the next level, or is approved with the last.
LEMMA OneCommits ==
    ASSUME LineInv, OneInv, "race" \notin entries, NEW p \in Session, Approval!Commit(p)
    PROVE  OneInv'
<1> SUFFICES ASSUME NEW m, m = Approval!Mine(p), NEW v, v = desk[p],
                    NEW i, i = request.current, NEW n, n = Approval!NextLevel(i)
             PROVE  OneInv'
  OBVIOUS
<1>0. /\ Approval!TypeOK /\ request' = Approval!Written(v) /\ UNCHANGED <<line, entries>>
      /\ request \in [status: Approval!Status, current: Nat]
      /\ \A s \in Approval!Step : step[s] # "PENDING" => step'[s] = step[s]
  BY CommitSteps DEF LineInv, Approval!TypeOK, Approval!Commit
<1>1. /\ request.status = "SUBMITTED" /\ m[1] = i /\ v.status = "SUBMITTED"
      /\ v.outcome = Approval!Outcome(p) /\ v.current = n
      /\ v.stage = "writing"
  BY DEF OneInv, Current, Approval!Commit, Approval!At, OnStep, OnLock
<1>2. \A q \in Session : desk'[q].stage = "idle"
  <2>1. \A q \in Session \ {p} : Approval!At(q, "idle")
    BY <1>1 DEF OneInv, OneApprover, Approval!At
  <2> QED BY <2>1, CommitSteps DEF Approval!At, Approval!Idle
<1>3. OneApprover' /\ \A q \in Session : Current(q)'
  BY <1>2 DEF OneApprover, Current, Approval!At, OnStep, OnLock
<1>4. /\ Approval!Step' = Approval!Step /\ Approval!Level' = Approval!Level /\ \A j :
           Approval!Of(j)' = Approval!Of(j)
  BY <1>0, Settled
<1>5. /\ m \in Approval!Step /\ i \in Approval!Level /\ m \in Approval!Of(i)
           /\ Approval!Level \subseteq Nat
      /\ \A j \in Approval!Level : <<j, 1>> \in Approval!Of(j)
           /\ Approval!Of(j) \subseteq Approval!Step /\ \A s \in Approval!Of(j) : s[1] = j
      /\ \A s \in Approval!Step : s[1] \in Approval!Level
  BY <1>0, <1>1, CommitSteps, LineType
<1>6. /\ \A s \in Approval!Step : step[s] # "REJECTED" /\ (s[1] > i => step[s] = "PENDING")
      /\ \A j \in Approval!Level : j < i => Approval!Passed(j)
  BY <1>1 DEF OneInv, Submitted
<1>7. /\ n \in Nat
      /\ n = 0 => \A j \in Approval!Level : j > i => Closed(j)
      /\ n # 0 => n \in Approval!Level /\ n > i /\ ~Closed(n) /\ \A j \in Approval!Level : j > i
           /\ j < n => Closed(j)
  BY <1>0, <1>5, Next_Level
<1>8. \A s \in Approval!Step : s[1] # i => step'[s] = step[s]
  BY <1>1, CommitSteps
<1>9. \A j \in Approval!Level : j > i => ~Closed(j)
  BY <1>5, <1>6 DEF Closed, Approval!Pending
<1>10. \A j \in Approval!Level : Approval!Passed(j) => Approval!Passed(j)'
  BY <1>0, <1>4, <1>5 DEF Approval!Passed
<1>11. step'[m] = v.verdict /\ v.verdict \in {"APPROVED", "REJECTED"}
  BY CommitSteps DEF Approval!Final
<1>12. CASE v.verdict = "REJECTED"
  <2>1. Approval!Outcome(p) = "reject"
    BY <1>1, <1>12 DEF Approval!Outcome, Approval!Final
  <2>2. request'.status = "REJECTED"
    BY <1>0, <1>1, <2>1 DEF Approval!Written
  <2>3. \E s \in Approval!Step' : step'[s] = "REJECTED"
    BY <1>4, <1>5, <1>11, <1>12
  <2> QED BY <1>3, <2>2, <2>3 DEF OneInv, Draft, Submitted, Decided
<1>13. CASE v.verdict = "APPROVED"
  <2>1. \A s \in Approval!Step : step'[s] # "REJECTED"
    <3> TAKE s \in Approval!Step
    <3>1. s = m => step'[s] = "APPROVED"
      BY <1>11, <1>13
    <3>2. s \in Approval!Skipped(p) => step'[s] = "SKIPPED"
      BY CommitSteps
    <3>3. s # m /\ s \notin Approval!Skipped(p) => step'[s] = step[s]
      BY CommitSteps
    <3> QED BY <1>6, <3>1, <3>2, <3>3
  <2>2. CASE ~Approval!Passes(p)
    <3>1. request' = request
      <4>1. v.outcome = "nothing"
        BY <1>1, <1>13, <2>2 DEF Approval!Outcome, Approval!Final
      <4> QED BY <1>0, <4>1 DEF Approval!Written
    <3>2. line[i].mode = "ALL" /\ Approval!Pending(Approval!Siblings(m)) # {}
      BY <1>1, <2>2 DEF Approval!Passes, Approval!ModeOf
    <3>3. PICK t \in Approval!Siblings(m) : step[t] = "PENDING"
      BY <3>2 DEF Approval!Pending
    <3>4. t \in Approval!Of(i) /\ t # m /\ t \in Approval!Step
      BY <1>1, <1>5, <3>3 DEF Approval!Siblings
    <3>5. Approval!Skipped(p) = {}
      BY <1>1, <3>2, CommitSteps DEF Skipper
    <3>6. step'[t] = "PENDING"
      BY <3>3, <3>4, <3>5, CommitSteps
    <3>7. ~Closed(i)'
      BY <1>4, <3>4, <3>6 DEF Closed, Approval!Pending
    <3>8. Submitted'
      <4>1. \A s \in Approval!Step' : step'[s] # "REJECTED" /\ (s[1] > i => step'[s] = "PENDING")
        BY <1>4, <1>5, <1>6, <1>8, <2>1
      <4>2. \A j \in Approval!Level' : j < i => Approval!Passed(j)'
        BY <1>4, <1>6, <1>10
      <4>3. request'.current = i
        BY <3>1
      <4> QED BY <1>4, <1>5, <3>7, <4>1, <4>2, <4>3 DEF Submitted
    <3> QED BY <1>1, <1>3, <3>1, <3>8 DEF OneInv, Draft, Decided
  <2>3. CASE Approval!Passes(p)
    <3>1. Approval!Passed(i)'
      <4>1. CASE line[i].mode = "ALL"
        <5>1. Approval!Pending(Approval!Siblings(m)) = {}
          BY <1>1, <2>3, <4>1 DEF Approval!Passes, Approval!ModeOf
        <5>2. ASSUME NEW s \in Approval!Of(i) PROVE step'[s] = "APPROVED"
          <6>1. CASE s = m
            BY <1>11, <1>13, <6>1
          <6>2. CASE s # m
            <7>1. s \in Approval!Siblings(m) /\ s \in Approval!Step
              BY <1>1, <1>5, <6>2 DEF Approval!Siblings
            <7>2. step[s] # "PENDING" /\ step[s] # "REJECTED" /\ step[s] \in Approval!StepStatus
              BY <1>0, <1>6, <5>1, <7>1 DEF Approval!Pending, Approval!TypeOK
            <7>3. step[s] # "SKIPPED"
              BY <1>5, <4>1, <7>1 DEF LineInv, Steps
            <7> QED BY <1>0, <7>1, <7>2, <7>3 DEF Approval!StepStatus
          <6> QED BY <6>1, <6>2
        <5> QED BY <1>0, <1>4, <4>1, <5>2 DEF Approval!Passed
      <4>2. CASE line[i].mode # "ALL"
        BY <1>0, <1>4, <1>5, <1>11, <1>13, <4>2 DEF Approval!Passed
      <4> QED BY <4>1, <4>2
    <3>2. CASE n = 0
      <4>1. request'.status = "APPROVED"
        <5>1. v.outcome = "approve"
          BY <1>1, <1>13, <2>3, <3>2 DEF Approval!Outcome, Approval!Final
        <5> QED BY <1>0, <5>1 DEF Approval!Written
      <4>2. \A j \in Approval!Level : Approval!Passed(j)'
        BY <1>5, <1>6, <1>7, <1>9, <1>10, <3>1, <3>2
      <4> QED BY <1>3, <1>4, <2>1, <4>1, <4>2 DEF OneInv, Draft, Submitted, Decided
    <3>3. CASE n # 0
      <4>1. request'.status = "SUBMITTED" /\ request'.current = n
        <5>1. v.outcome = "advance"
          BY <1>1, <1>13, <2>3, <3>3 DEF Approval!Outcome, Approval!Final
        <5> QED BY <1>0, <1>1, <5>1 DEF Approval!Written
      <4>2. \A s \in Approval!Step' : step'[s] # "REJECTED" /\ (s[1] > n => step'[s] = "PENDING")
        BY <1>4, <1>5, <1>6, <1>7, <1>8, <2>1, <3>3
      <4>3. \A j \in Approval!Level' : j < n => Approval!Passed(j)'
        BY <1>4, <1>5, <1>6, <1>7, <1>9, <1>10, <3>1, <3>3
      <4>4. n \in Approval!Level' /\ ~Closed(n)'
        <5>1. PICK t \in Approval!Of(n) : step[t] = "PENDING"
          BY <1>7, <3>3 DEF Closed, Approval!Pending
        <5>2. step'[t] = "PENDING"
          BY <1>5, <1>7, <1>8, <3>3, <5>1
        <5>3. ~Closed(n)'
          BY <1>4, <5>1, <5>2 DEF Closed, Approval!Pending
        <5> QED BY <1>4, <1>7, <3>3, <5>3
      <4>5. Submitted'
        BY <4>1, <4>2, <4>3, <4>4 DEF Submitted
      <4> QED BY <1>3, <4>1, <4>5 DEF OneInv, Draft, Decided
    <3> QED BY <3>2, <3>3
  <2> QED BY <2>2, <2>3
<1> QED BY <1>11, <1>12, <1>13

\* A draft is submitted at its first level or saved as it is; the approver of the
\* request decides without its line.
LEMMA OneWrites ==
    ASSUME LineInv, OneInv, "race" \notin entries, NEW p \in Session,
           Approval!CommitSubmit(p) \/ Approval!CommitEdit(p) \/ Approval!CommitOverrule(p)
    PROVE  OneInv'
<1> DEFINE v == desk[p]
<1>0. /\ Approval!TypeOK /\ desk \in [Session -> Approval!Work] /\ v \in Approval!Work /\ Sane(v)
      /\ UNCHANGED <<line, step, entries>> /\ v.stage \in OnForm
      /\ desk' = [desk EXCEPT ![p] = Approval!Idle] /\ Current(p)
  BY DEF LineInv, Approval!TypeOK, Approval!CommitSubmit, Approval!CommitEdit,
     Approval!CommitOverrule, Approval!Done, Approval!Goto, Approval!At, OnForm, OneInv
<1>1. \A q \in Session : desk'[q].stage = "idle"
  BY <1>0 DEF OneInv, OneApprover, Approval!At, OnForm, Approval!Idle
<1>2. OneApprover' /\ \A q \in Session : Current(q)'
  BY <1>1 DEF OneApprover, Current, Approval!At, OnStep, OnLock
<1>3. v.stage \in {"submitting", "editing"} =>
          /\ request.status = "DRAFT" /\ v.status = "DRAFT" /\ v.current = request.current
          /\ request.current = 1 /\ \A s \in Approval!Step : step[s] = "PENDING"
  BY <1>0 DEF OneInv, Current, Draft, Sane
<1>4. CASE Approval!CommitSubmit(p)
  <2>1. request'.status = "SUBMITTED" /\ request'.current = 1
    BY <1>3, <1>4 DEF Approval!CommitSubmit, Approval!At
  <2>2. \A s \in Approval!Step : step[s] = "PENDING"
    BY <1>3, <1>4 DEF Approval!CommitSubmit, Approval!At
  <2>3. Len(line) > 0 => 1 \in Approval!Level /\ ~Closed(1)
    <3>1. Len(line) \in Nat /\ \A j \in Approval!Level : <<j, 1>> \in Approval!Of(j)
            /\ Approval!Of(j) \subseteq Approval!Step
      BY <1>0, LineType
    <3>2. Len(line) > 0 => <<1, 1>> \in Approval!Of(1) /\ <<1, 1>> \in Approval!Step
            /\ 1 \in Approval!Level
      BY <3>1 DEF Approval!Level
    <3> QED BY <2>2, <3>2 DEF Closed, Approval!Pending
  <2>4. \A j \in Approval!Level : ~ (j < 1)
    BY <1>0, LineType
  <2>5. Submitted'
    BY <1>0, <2>1, <2>2, <2>3, <2>4, SameSteps DEF Submitted
  <2> QED BY <1>2, <2>1, <2>5 DEF OneInv, Draft, Decided
<1>5. CASE Approval!CommitEdit(p)
  <2>1. request'.status = "DRAFT" /\ request'.current = 1
    BY <1>3, <1>5 DEF Approval!CommitEdit, Approval!At
  <2>2. Draft'
    BY <1>0, <1>3, <1>5, <2>1, SameSteps DEF Draft, Approval!CommitEdit, Approval!At
  <2> QED BY <1>2, <2>1, <2>2 DEF OneInv, Submitted, Decided
<1>6. CASE Approval!CommitOverrule(p)
  <2>1. request'.status \in Approval!Final /\ "approver" \in entries'
    BY <1>0, <1>6 DEF Approval!CommitOverrule, Approval!At, Sane, Approval!Work
  <2> QED BY <1>2, <2>1 DEF OneInv, Draft, Submitted, Decided, Approval!Final
<1> QED BY <1>4, <1>5, <1>6

LEMMA OneSteps == LineInv /\ OneInv /\ Approval!Next => OneInv'
<1> SUFFICES ASSUME LineInv, OneInv, NEW p \in Session, Approval!Asks(p) \/ Approval!Answers(p)
             PROVE  OneInv'
  BY DEF Approval!Next
<1>1. entries' = entries
  BY DEF Approval!Asks, Approval!Answers, Approval!Ask, Approval!AskSubmit, Approval!AskEdit,
     Approval!AskOverrule, Approval!LockStep, Approval!Look, Approval!Deadlocked, Approval!Commit,
     Approval!CommitSubmit, Approval!CommitEdit, Approval!CommitOverrule
<1>2. CASE "race" \in entries
  BY <1>1, <1>2 DEF OneInv
<1>3. CASE "race" \notin entries
  BY <1>3, OneAsks, OneAnswers, OneCommits, OneWrites DEF Approval!Answers
<1> QED BY <1>2, <1>3

LEMMA OneStays == OneInv /\ UNCHANGED Approval!vars => OneInv'
<1> SUFFICES ASSUME OneInv, UNCHANGED Approval!vars, "race" \notin entries PROVE OneInv'
  BY DEF OneInv, Approval!vars
<1>1. OneApprover' /\ Draft' /\ Submitted' /\ Decided'
  BY SameSteps DEF OneInv, Approval!vars, OneApprover, Approval!At, Draft, Submitted, Decided
<1>2. ASSUME NEW p \in Session PROVE Current(p)'
  <2>1. Approval!Mine(p)' = Approval!Mine(p)
          /\ Approval!NextLevel(Approval!Mine(p)[1])' = Approval!NextLevel(Approval!Mine(p)[1])
    BY SameSteps DEF Approval!vars, Approval!Mine
  <2>2. Approval!Passes(p)' = Approval!Passes(p)
    BY <2>1, SameSteps DEF Approval!vars, Approval!Passes, Approval!ModeOf
  <2>3. Approval!Outcome(p)' = Approval!Outcome(p)
    BY <2>1, <2>2 DEF Approval!Outcome, Approval!vars
  <2> QED BY <2>1, <2>3 DEF OneInv, Current, Approval!vars, Approval!At
<1> QED BY <1>1, <1>2 DEF OneInv

-----------------------------------------------------------------------------
(* In a race of approvers, the request waits for a step. *)

LEMMA RushInit == Approval!Init => RushInv
<1> SUFFICES ASSUME Approval!Init PROVE RushInv
  OBVIOUS
<1>1. Draft /\ Forward /\ \A p \in Session : Ahead(desk[p])
  BY DEF Approval!Init, Draft, Forward, Ahead, Approval!At, Approval!Idle, OnStep, OnLock
<1> QED BY <1>1 DEF RushInv

\* Requests go on as long as none is submitted beside another.
LEMMA RushGoesOn ==
    ASSUME LineInv, RushInv, Rush, NEW p \in Session, NEW w,
           Approval!Goto(p, w), UNCHANGED <<line, request, step, entries>>, Ahead(w),
           w.stage = "submitting" => \A q \in Session : ~Approval!At(q, "submitting")
    PROVE  RushInv'
<1>1. desk \in [Session -> Approval!Work] /\ desk' = [desk EXCEPT ![p] = w]
  BY DEF LineInv, Approval!TypeOK, Approval!Goto
<1>2. Draft'
  BY SameSteps DEF RushInv, Draft
<1>3. Forward'
  <2>1. \A q, r \in Session : Approval!At(q, "submitting")' /\ Approval!At(r, "submitting")'
          => q = r
    BY <1>1 DEF RushInv, Forward, Approval!At
  <2> QED BY <2>1, SameSteps DEF RushInv, Forward
<1>4. \A q \in Session : Ahead(desk[q])'
  <2>1. \A u : Ahead(u) => Ahead(u)'
    BY SameSteps DEF Ahead
  <2> QED BY <1>1, <2>1 DEF RushInv
<1> QED BY <1>2, <1>3, <1>4 DEF RushInv

LEMMA RushAsks ==
    ASSUME LineInv, RushInv, Rush, NEW p \in Session,
           Approval!Asks(p) \/ Approval!LockStep(p) \/ Approval!Look(p) \/ Approval!Deadlocked(p)
    PROVE  RushInv'
<1> DEFINE v == desk[p]
<1>0. /\ v \in Approval!Work /\ Sane(v) /\ Ahead(v)
           /\ request \in [status: Approval!Status, current: Nat]
      /\ Approval!TypeOK
  BY DEF LineInv, Approval!TypeOK, RushInv
<1>1. CASE Approval!Done(p) /\ UNCHANGED <<line, request, step, entries>>
  <2>1. Ahead(Approval!Idle) /\ Approval!Idle.stage = "idle"
    BY DEF Ahead, Approval!Idle, OnStep, OnLock
  <2> QED BY <1>1, <2>1, RushGoesOn DEF Approval!Done
<1>2. ASSUME NEW s \in Approval!Step, NEW verdict \in Approval!Verdicts,
             Approval!Ask(p, s, verdict) PROVE RushInv'
  <2> DEFINE w == [Approval!Loaded("acting") EXCEPT !.step = s, !.verdict = verdict]
  <2>1. w.stage = "acting" /\ w.step = s /\ Approval!Goto(p, w)
          /\ UNCHANGED <<line, request, step, entries>>
    BY <1>2 DEF Approval!Loaded, Approval!Idle, Approval!Ask
  <2>2. request.status = "SUBMITTED" /\ s[1] = request.current
    BY <1>2 DEF Approval!Ask
  <2> HIDE DEF w
  <2>3. Ahead(w)
    BY <1>0, <2>1, <2>2 DEF Ahead, OnStep, OnLock
  <2> QED BY <2>1, <2>3, RushGoesOn
<1>3. CASE Approval!AskSubmit(p)
  <2> DEFINE w == Approval!Loaded("submitting")
  <2>1. w.stage = "submitting" /\ Approval!Goto(p, w)
          /\ UNCHANGED <<line, request, step, entries>>
        /\ request.status = "DRAFT" /\ \A q \in Session : ~Approval!At(q, "submitting")
    BY <1>3 DEF Approval!Loaded, Approval!Idle, Approval!AskSubmit, Rush
  <2> HIDE DEF w
  <2>2. Ahead(w)
    BY <2>1 DEF Ahead, OnStep, OnLock
  <2> QED BY <2>1, <2>2, RushGoesOn
<1>4. ~Approval!AskEdit(p) /\ \A verdict : ~Approval!AskOverrule(p, verdict)
  BY DEF Rush, Approval!AskEdit, Approval!AskOverrule
<1>5. CASE Approval!LockStep(p) /\ ~Approval!Done(p)
  <2> DEFINE w == [desk[p] EXCEPT !.stage = "deciding", !.status = request.status]
  <2>1. /\ Approval!Goto(p, w) /\ w.stage = "deciding" /\ w.status = request.status
             /\ w.step = v.step
        /\ UNCHANGED <<line, request, step, entries>> /\ v.stage = "acting"
    BY <1>0, <1>5 DEF Approval!LockStep, Approval!Work, Approval!At
  <2> HIDE DEF w
  <2>2. Ahead(w)
    BY <1>0, <2>1 DEF Ahead, OnStep, OnLock
  <2> QED BY <2>1, <2>2, RushGoesOn
<1>6. CASE Approval!Look(p)
  <2> DEFINE next == Approval!NextLevel(Approval!Mine(p)[1])
             w == [desk[p] EXCEPT !.stage = "writing", !.outcome = Approval!Outcome(p), !.current = next]
  <2>1. /\ Approval!Goto(p, w) /\ w.stage = "writing" /\ w.status = v.status /\ w.step = v.step
        /\ w.outcome = Approval!Outcome(p) /\ w.current = next
        /\ UNCHANGED <<line, request, step, entries>> /\ v.stage = "deciding"
    BY <1>0, <1>6 DEF Approval!Look, Approval!Work, Approval!At
  <2>2. v.step \in Approval!Step /\ v.step[1] \in Approval!Level /\ v.verdict = "APPROVED"
          /\ Approval!Mine(p) = v.step
    BY <1>0, <2>1, LineType DEF Sane, OnStep, Approval!Mine, Rush
  <2>3. next # 0 => next \in Approval!Level /\ next > v.step[1]
    BY <1>0, <2>2, Next_Level
  <2> HIDE DEF w, next
  <2>4. Approval!Passes(p)
    BY <2>2 DEF Approval!Passes, Approval!ModeOf, Rush
  <2>5. v.status \notin Approval!Final
          => Approval!Outcome(p) = IF next = 0 THEN "approve" ELSE "advance"
    BY <2>2, <2>4 DEF Approval!Outcome, next
  <2>6. Ahead(w)
    BY <1>0, <2>1, <2>3, <2>5 DEF Ahead, OnStep, OnLock
  <2> QED BY <2>1, <2>6, RushGoesOn
<1> QED BY <1>1, <1>2, <1>3, <1>4, <1>5, <1>6 DEF Approval!Asks, Approval!LockStep,
   Approval!Deadlocked

\* The levels above one that has a step to decide are all to come.
LEMMA Ahead_Pending ==
    ASSUME LineInv, Rush, NEW m \in Approval!Step, step[m] = "PENDING", NEW j \in Approval!Level,
           j > m[1]
    PROVE  ~Reach(j) /\ \A s \in Approval!Of(j) : step[s] = "PENDING"
<1>1. m[1] \in Approval!Level /\ m \in Approval!Of(m[1]) /\ Approval!Serial /\ Sound
      /\ \A s \in Approval!Of(j) : s \in Approval!Step /\ s[1] = j
  BY LineType DEF Rush, Sound, LineInv
<1>2. ~Reach(j)
  BY <1>1 DEF Reach, Closed, Approval!Pending
<1> QED BY <1>1, <1>2 DEF LineInv, Steps

LEMMA RushCommits ==
    ASSUME LineInv, RushInv, Rush, NEW p \in Session, Approval!Commit(p)
    PROVE  RushInv'
<1> SUFFICES ASSUME NEW m, m = Approval!Mine(p), NEW v, v = desk[p]
             PROVE  RushInv'
  OBVIOUS
<1>0. /\ Approval!TypeOK /\ request' = Approval!Written(v) /\ UNCHANGED <<line, entries>>
      /\ request \in [status: Approval!Status, current: Nat]
      /\ \A s \in Approval!Step : step[s] # "PENDING" => step'[s] = step[s]
      /\ v \in Approval!Work /\ Sane(v) /\ Ahead(v) /\ v.stage = "writing" /\ v.step = m
      /\ m \in Approval!Step /\ m[1] \in Approval!Level /\ step[m] = "PENDING"
      /\ desk' = [desk EXCEPT ![p] = Approval!Idle] /\ desk \in [Session -> Approval!Work]
  BY CommitSteps DEF LineInv, Approval!TypeOK, Approval!Commit, RushInv
<1>1. /\ Approval!Step' = Approval!Step /\ Approval!Level' = Approval!Level /\ \A j :
           Approval!Of(j)' = Approval!Of(j)
  BY <1>0, Settled
<1>2. Approval!Level \subseteq Nat /\ \A s \in Approval!Step : s[1] \in Approval!Level
  BY <1>0, LineType
<1>3. request.status \in {"SUBMITTED", "APPROVED"}
  BY <1>0 DEF Ahead, OnStep, RushInv, Forward, Approval!Status
<1>4. \A q \in Session : desk[q].stage # "submitting" /\ Ahead(desk[q])
  BY <1>3 DEF RushInv, Ahead
<1>5. \A q \in Session : desk'[q] = desk[q] \/ desk'[q].stage = "idle"
  BY <1>0 DEF Approval!Idle
<1>6. CASE v.status \in Approval!Final
  <2>1. request.status = "APPROVED"
    BY <1>0, <1>3, <1>6 DEF Ahead, OnLock, Approval!Final
  <2>2. request' = request
    <3>1. v.outcome = "nothing"
      BY <1>0, <1>6 DEF Sane, Due, Approval!Work, OnStep, Rush
    <3> QED BY <1>0, <3>1 DEF Approval!Written
  <2>3. \A q \in Session : Ahead(desk[q])'
    BY <1>1, <1>4, <1>5, <2>1, <2>2 DEF Ahead, OnStep, OnLock
  <2>4. Draft' /\ Forward'
    BY <1>4, <1>5, <2>1, <2>2 DEF Draft, Forward, Approval!At
  <2> QED BY <2>3, <2>4 DEF RushInv
<1>7. CASE v.status \notin Approval!Final /\ v.outcome = "approve"
  <2>1. request'.status = "APPROVED" /\ request'.current = request.current
    BY <1>0, <1>7 DEF Approval!Written
  <2>2. \A q \in Session : Ahead(desk[q])'
    BY <1>1, <1>3, <1>4, <1>5, <2>1 DEF Ahead, OnStep, OnLock
  <2>3. Draft' /\ Forward'
    BY <1>4, <1>5, <2>1 DEF Draft, Forward, Approval!At
  <2> QED BY <2>2, <2>3 DEF RushInv
<1>8. CASE v.status \notin Approval!Final /\ v.outcome = "advance"
  <2> DEFINE n == v.current
  <2>1. request'.status = request.status /\ request'.current = n
    BY <1>0, <1>8 DEF Approval!Written
  <2>2. n \in Approval!Level /\ n > m[1]
    BY <1>0, <1>8 DEF Ahead
  <2>3. ~Closed(n)'
    <3>1. /\ <<n, 1>> \in Approval!Of(n) /\ Approval!Of(n) \subseteq Approval!Step
               /\ \A s \in Approval!Of(n) : s[1] = n
          /\ \A s \in Approval!Of(n) : step[s] = "PENDING"
      BY <1>0, <2>2, Ahead_Pending, LineType
    <3>2. m[1] # n
      BY <1>2, <2>2, <1>0
    <3>3. step'[<<n, 1>>] = "PENDING"
      BY <3>1, <3>2, CommitSteps
    <3> QED BY <1>1, <3>1, <3>3 DEF Closed, Approval!Pending
  <2>4. ASSUME NEW q \in Session, desk[q].stage \in OnStep PROVE desk[q].step[1] <= n
    <3>1. desk[q].step[1] \in Approval!Level /\ Reach(desk[q].step[1])
      BY <1>2, <2>4 DEF LineInv, Sane
    <3>2. ~ (desk[q].step[1] > m[1])
      BY <1>0, <3>1, Ahead_Pending
    <3>3. m[1] \in Nat /\ n \in Nat /\ desk[q].step[1] \in Nat
      BY <1>0, <1>2, <2>2, <3>1
    <3> HIDE DEF n
    <3> QED BY <2>2, <3>2, <3>3
  <2>5. \A q \in Session : Ahead(desk[q])'
    <3> SUFFICES ASSUME NEW q \in Session, desk'[q] = desk[q] PROVE Ahead(desk[q])'
      BY <1>5 DEF Ahead, OnStep, OnLock
    <3>1. Ahead(desk[q]) /\ desk[q].stage # "submitting"
      BY <1>4
    <3>2. desk[q].stage \in OnStep => desk[q].step[1] <= n
      BY <2>4
    <3> QED BY <1>1, <2>1, <3>1, <3>2 DEF Ahead
  <2>6. Draft' /\ Forward'
    <3>1. Draft' /\ \A q \in Session : ~Approval!At(q, "submitting")'
      BY <1>3, <1>4, <1>5, <2>1 DEF Draft, Approval!At
    <3> QED BY <1>1, <1>3, <2>1, <2>2, <2>3, <3>1 DEF Forward
  <2> QED BY <2>5, <2>6 DEF RushInv
<1> QED BY <1>0, <1>6, <1>7, <1>8 DEF Ahead

LEMMA RushSubmits ==
    ASSUME LineInv, RushInv, Rush, NEW p \in Session, Approval!CommitSubmit(p)
    PROVE  RushInv'
<1>0. /\ Approval!TypeOK /\ UNCHANGED <<line, step, entries>> /\ Approval!At(p, "submitting")
      /\ request.status = "DRAFT" /\ desk' = [desk EXCEPT ![p] = Approval!Idle]
      /\ desk \in [Session -> Approval!Work]
  BY DEF LineInv, Approval!TypeOK, Approval!CommitSubmit, RushInv, Ahead, Approval!At,
     Approval!Done, Approval!Goto
<1>1. request'.status = "SUBMITTED" /\ request'.current = 1
      /\ \A s \in Approval!Step : step[s] = "PENDING"
  BY <1>0 DEF Approval!CommitSubmit, RushInv, Draft
<1>2. \A q \in Session : desk'[q].stage # "submitting" /\ desk'[q].stage \notin OnStep
  <2>1. \A q \in Session : desk[q].stage \notin OnStep
    BY <1>0 DEF RushInv, Ahead
  <2>2. \A q \in Session \ {p} : desk[q].stage # "submitting"
    BY <1>0 DEF RushInv, Forward, Approval!At
  <2> QED BY <1>0, <2>1, <2>2 DEF Approval!Idle, OnStep
<1>3. \A q \in Session : Ahead(desk[q])'
  BY <1>2 DEF Ahead, OnStep, OnLock
<1>4. Forward'
  <2>1. Len(line) > 0 => 1 \in Approval!Level /\ ~Closed(1)
    <3>1. Len(line) \in Nat /\ \A j \in Approval!Level : <<j, 1>> \in Approval!Of(j)
            /\ Approval!Of(j) \subseteq Approval!Step
      BY <1>0, LineType
    <3>2. Len(line) > 0 => 1 \in Approval!Level
      BY <3>1 DEF Approval!Level
    <3>3. Len(line) > 0 => <<1, 1>> \in Approval!Of(1) /\ <<1, 1>> \in Approval!Step
      BY <3>1, <3>2
    <3> QED BY <1>1, <3>2, <3>3 DEF Closed, Approval!Pending
  <2>2. \A q \in Session : ~Approval!At(q, "submitting")'
    BY <1>2 DEF Approval!At
  <2> QED BY <1>0, <1>1, <2>1, <2>2, SameSteps DEF Forward
<1>5. Draft'
  BY <1>1 DEF Draft
<1> QED BY <1>3, <1>4, <1>5 DEF RushInv

LEMMA RushSteps == LineInv /\ RushInv /\ Approval!Next => RushInv'
<1> SUFFICES ASSUME LineInv, RushInv, NEW p \in Session, Approval!Asks(p) \/ Approval!Answers(p)
             PROVE  RushInv'
  BY DEF Approval!Next
<1>1. UNCHANGED <<line, entries>>
  BY DEF Approval!Asks, Approval!Answers, Approval!Ask, Approval!AskSubmit, Approval!AskEdit,
     Approval!AskOverrule, Approval!LockStep, Approval!Look, Approval!Deadlocked, Approval!Commit,
     Approval!CommitSubmit, Approval!CommitEdit, Approval!CommitOverrule
<1>2. CASE ~Rush
  <2>1. ~Rush'
    BY <1>1, <1>2 DEF Rush, Approval!Serial, Approval!Level
  <2> QED BY <2>1 DEF RushInv
<1>3. CASE Rush
  <2>1. ~Approval!CommitEdit(p) /\ ~Approval!CommitOverrule(p)
    BY <1>3 DEF LineInv, Sane, Rush, Approval!CommitEdit, Approval!CommitOverrule, Approval!At
  <2> QED BY <1>3, <2>1, RushAsks, RushCommits, RushSubmits DEF Approval!Answers
<1> QED BY <1>2, <1>3

LEMMA RushStays == RushInv /\ UNCHANGED Approval!vars => RushInv'
<1> SUFFICES ASSUME RushInv, UNCHANGED Approval!vars, Rush PROVE RushInv'
  BY DEF RushInv, Approval!vars, Rush, Approval!Serial, Approval!Level
<1>1. Draft' /\ Forward' /\ \A p \in Session : Ahead(desk[p])'
  BY SameSteps DEF RushInv, Approval!vars, Draft, Forward, Ahead, Approval!At
<1> QED BY <1>1 DEF RushInv

-----------------------------------------------------------------------------

ApprovalInv == LineInv /\ OneInv /\ RushInv

LEMMA ApprovalStarts == Approval!Init => ApprovalInv
BY ApprovalInit, OneInit, RushInit DEF ApprovalInv
LEMMA ApprovalStep == ApprovalInv /\ Approval!Next => ApprovalInv'
BY LineStep, OneSteps, RushSteps DEF ApprovalInv
LEMMA ApprovalStays == ApprovalInv /\ UNCHANGED Approval!vars => ApprovalInv'
BY LineStays, OneStays, RushStays DEF ApprovalInv

LEMMA ApprovalKept == ApprovalInv => Approval!EveryLevelApproved /\ Approval!FollowsLine
    /\ Approval!SomebodyDecides
<1> SUFFICES ASSUME ApprovalInv PROVE Approval!EveryLevelApproved /\ Approval!FollowsLine
                    /\ Approval!SomebodyDecides
  OBVIOUS
<1>1. Approval!EveryLevelApproved
  BY DEF ApprovalInv, LineInv
<1>2. Approval!FollowsLine
  <2> SUFFICES ASSUME "race" \notin entries, "approver" \notin entries PROVE Approval!FollowsLine
    BY DEF Approval!FollowsLine
  <2>1. Draft /\ Submitted /\ Decided
    BY DEF ApprovalInv, OneInv
  <2>2. request.status \in Approval!Status
    BY DEF ApprovalInv, LineInv, Approval!TypeOK
  <2>3. request.status = "REJECTED" <=> \E s \in Approval!Step : step[s] = "REJECTED"
    BY <2>1, <2>2 DEF Draft, Submitted, Decided, Approval!Status
  <2> QED BY <2>1, <2>3 DEF Approval!FollowsLine, Submitted, Decided
<1>3. Approval!SomebodyDecides
  <2>1. "race" \notin entries => Submitted
    BY DEF ApprovalInv, OneInv
  <2>2. Rush => Forward
    BY DEF ApprovalInv, RushInv
  <2> QED BY <2>1, <2>2 DEF Approval!SomebodyDecides, Submitted, Forward, Closed, Rush
<1> QED BY <1>1, <1>2, <1>3

\* However approvals, rejections, submissions and edits race, the request follows
\* its line.
THEOREM LineFollowed == Approval!Spec
    => [](Approval!EveryLevelApproved /\ Approval!FollowsLine /\ Approval!SomebodyDecides)
<1>1. Approval!Spec => []ApprovalInv
  BY ApprovalStarts, ApprovalStep, ApprovalStays, PTL DEF Approval!Spec
<1> QED BY <1>1, ApprovalKept, PTL

-----------------------------------------------------------------------------
(* The orders of a store. *)

-----------------------------------------------------------------------------
(* The invariant. *)

StoreRequests ==
    /\ desk \in [Session -> Marketplace!Work]
    /\ \A p \in Session :
          /\ desk[p].quotation <= Len(quotes) /\ ~desk[p].skip
          /\ desk[p].stage \in {"ordering", "converting"} => desk[p].quotation # 0
          /\ Marketplace!At(p, "ordering") /\ desk[p].converted => market.erp # 0

\* The store order's own row, beside what was made for it.
RowRight ==
    /\ market \in Marketplace!Row /\ market.quotation <= Len(quotes)
    /\ market.quotation # 0 /\ quotes[market.quotation] = "CONVERTED" => market.erp # 0
    /\ market.importing = "ORDER_DONE" => market.erp # 0

\* A request that has written the row and not yet made its quotation.
Owes(p) == desk[p].stage \in {"importing", "fetched"}
QuotationDue(entry) == entry.present /\ entry.status = "NEW" /\ entry.match = "exact"
  /\ entry.quotation = 0
QuotedOrOwed == QuotationDue(market) /\ "crash" \notin entries => \E p \in Session : Owes(p)

MarketplaceInv == Marketplace!TypeOK /\ StoreRequests /\ RowRight /\ QuotedOrOwed

LEMMA MarketplaceKept ==
    ASSUME MarketplaceInv
    PROVE  Marketplace!TypeOK /\ Marketplace!NewIsQuoted /\ Marketplace!DoneIsOrdered
<1>1. \A p \in Session : Marketplace!At(p, "idle") => ~Owes(p)
  BY DEF Marketplace!At, Owes
<1> QED BY <1>1 DEF MarketplaceInv, RowRight, QuotedOrOwed, QuotationDue, Marketplace!NewIsQuoted,
   Marketplace!DoneIsOrdered

-----------------------------------------------------------------------------
(* The steps. *)

\* n quotations more, none of them converted.
LEMMA MoreQuotes ==
    ASSUME MarketplaceInv, NEW n \in 0..2, NEW entry \in Marketplace!Row,
           Marketplace!Quote(entry, n),
           entry.quotation = market.quotation
    PROVE  /\ quotes' \in Seq({"DRAFT", "CONVERTED"}) /\ Len(quotes') = Len(quotes) + n
           /\ Len(quotes') <= MostQuotes
           /\ \A i \in 1..Len(quotes) : quotes'[i] = quotes[i]
           /\ \A i \in Len(quotes) + 1..Len(quotes') : quotes'[i] = "DRAFT"
           /\ market' \in Marketplace!Row /\ market'.quotation <= Len(quotes')
           /\ market'.quotation = IF n = 0 THEN market.quotation ELSE Len(quotes')
           /\ market'.present = entry.present /\ market'.status = entry.status
           /\ market'.match = entry.match /\ market'.erp = entry.erp
           /\ market'.importing = entry.importing
<1> DEFINE more == [i \in 1..n |-> "DRAFT"]
<1>1. quotes \in Seq({"DRAFT", "CONVERTED"}) /\ Len(quotes) \in Nat
      /\ market.quotation \in Nat /\ market.quotation <= Len(quotes)
  BY DEF MarketplaceInv, Marketplace!TypeOK, RowRight, Marketplace!Row
<1>2. more \in Seq({"DRAFT", "CONVERTED"}) /\ Len(more) = n
      /\ \A i \in 1..n : more[i] = "DRAFT"
  OBVIOUS
<1>3. quotes' = quotes \o more /\ Len(quotes) + n <= MostQuotes
  BY DEF Marketplace!Quote
<1> HIDE DEF more
<1>4. quotes' \in Seq({"DRAFT", "CONVERTED"}) /\ Len(quotes') = Len(quotes) + n
      /\ \A i \in 1..Len(quotes) : quotes'[i] = quotes[i]
  BY <1>1, <1>2, <1>3
<1>5. \A i \in Len(quotes) + 1..Len(quotes') : quotes'[i] = "DRAFT"
  <2> SUFFICES ASSUME NEW i \in Len(quotes) + 1..Len(quotes') PROVE quotes'[i] = "DRAFT"
    OBVIOUS
  <2>1. i - Len(quotes) \in 1..n /\ i \in Nat
    BY <1>1, <1>4
  <2>2. quotes'[i] = more[i - Len(quotes)]
    BY <1>1, <1>2, <1>3, <1>4, <2>1
  <2> QED BY <1>2, <2>1, <2>2
<1>6. CASE n = 0
  BY <1>1, <1>3, <1>4, <1>5, <1>6 DEF Marketplace!Quote
<1>7. CASE n # 0
  <2> DEFINE k == Len(quotes) + n
  <2>1. k \in 0..MostQuotes /\ market' = [entry EXCEPT !.quotation = k] /\ Len(quotes') = k
    BY <1>1, <1>3, <1>4, <1>7, OfficeAssumption DEF Marketplace!Quote
  <2> HIDE DEF k
  <2>2. market' \in Marketplace!Row /\ market'.quotation = k
        /\ market'.present = entry.present /\ market'.status = entry.status
        /\ market'.match = entry.match /\ market'.erp = entry.erp
        /\ market'.importing = entry.importing
    BY <2>1 DEF Marketplace!Row
  <2> QED BY <1>3, <1>4, <1>5, <1>7, <2>1, <2>2 DEF k
<1> QED BY <1>6, <1>7

\* A request becomes w while the quotations stay or grow, none of the new ones
\* converted, and the row gets one of them or keeps its own.
LEMMA RequestMoves ==
    ASSUME MarketplaceInv, NEW p \in Session, NEW w \in Marketplace!Work,
           desk' = [desk EXCEPT ![p] = w], UNCHANGED <<push, entries, erps>>,
           quotes' \in Seq({"DRAFT", "CONVERTED"}), Len(quotes) <= Len(quotes'),
           Len(quotes') <= MostQuotes,
           \A i \in 1..Len(quotes) : quotes'[i] = quotes[i],
           \A i \in Len(quotes) + 1..Len(quotes') : quotes'[i] = "DRAFT",
           market' \in Marketplace!Row, market'.quotation <= Len(quotes'),
           market'.quotation = market.quotation \/ market'.quotation > Len(quotes),
           market'.erp = market.erp, market'.importing = "ORDER_DONE" => market.erp # 0,
           w.quotation <= Len(quotes'), ~w.skip,
           w.stage \in {"ordering", "converting"} => w.quotation # 0,
           w.stage = "ordering" /\ w.converted => market.erp # 0,
           QuotedOrOwed'
    PROVE  MarketplaceInv'
<1>1. Len(quotes) \in Nat /\ Len(quotes') \in Nat /\ market.quotation \in Nat
      /\ market.quotation <= Len(quotes) /\ market'.quotation \in Nat
      /\ \A q \in Session : desk[q].quotation \in Nat
  BY DEF MarketplaceInv, Marketplace!TypeOK, RowRight, StoreRequests, Marketplace!Row,
     Marketplace!Work
<1>2. desk'[p] = w /\ \A q \in Session : q # p => desk'[q] = desk[q]
  BY DEF MarketplaceInv, Marketplace!TypeOK
<1>3. desk' \in [Session -> Marketplace!Work]
  BY DEF MarketplaceInv, Marketplace!TypeOK
<1>4. Marketplace!TypeOK'
  BY <1>3 DEF MarketplaceInv, Marketplace!TypeOK
<1>5. StoreRequests'
  <2> SUFFICES ASSUME NEW q \in Session
               PROVE  /\ desk'[q].quotation <= Len(quotes') /\ ~desk'[q].skip
                      /\ desk'[q].stage \in {"ordering", "converting"}
                         => desk'[q].quotation # 0
                      /\ desk'[q].stage = "ordering" /\ desk'[q].converted
                         => market'.erp # 0
    BY <1>3 DEF StoreRequests, Marketplace!At
  <2>1. CASE q = p
    BY <1>2, <2>1
  <2>2. CASE q # p
    <3>1. desk'[q] = desk[q]
      BY <1>2, <2>2
    <3> QED BY <1>1, <3>1 DEF MarketplaceInv, StoreRequests, Marketplace!At
  <2> QED BY <2>1, <2>2
<1>6. market'.quotation # 0 /\ quotes'[market'.quotation] = "CONVERTED" => market'.erp # 0
  <2>1. CASE market'.quotation = market.quotation
    BY <1>1, <2>1 DEF MarketplaceInv, RowRight
  <2>2. CASE market'.quotation > Len(quotes)
    <3>1. quotes'[market'.quotation] = "DRAFT"
      BY <1>1, <2>2
    <3> QED BY <3>1
  <2> QED BY <2>1, <2>2
<1>7. RowRight'
  BY <1>6 DEF RowRight
<1> QED BY <1>4, <1>5, <1>7 DEF MarketplaceInv

\* An ERP order is made of quotation q, and the row is linked where it has it.
LEMMA ErpOrdered ==
    ASSUME MarketplaceInv, NEW p \in Session, NEW q \in 1..Len(quotes), Marketplace!Order(q),
           Marketplace!Does(p, "idle"), UNCHANGED <<push, entries>>,
           market' \in Marketplace!Row, market'.quotation = market.quotation,
           market'.present = market.present, market'.status = market.status,
           market'.match = market.match,
           market'.erp # 0 \/ (market'.erp = market.erp /\ q # market.quotation),
           market.erp # 0 => market'.erp # 0,
           market'.importing = "ORDER_DONE" => market'.erp # 0,
           ~Owes(p)
    PROVE  MarketplaceInv'
<1>1. Len(quotes) \in Nat /\ market.quotation \in Nat /\ market.quotation <= Len(quotes)
      /\ quotes \in Seq({"DRAFT", "CONVERTED"}) /\ Len(quotes) <= MostQuotes
  BY DEF MarketplaceInv, Marketplace!TypeOK, RowRight, Marketplace!Row
<1>2. /\ quotes' \in Seq({"DRAFT", "CONVERTED"}) /\ Len(quotes') = Len(quotes)
      /\ \A i \in 1..Len(quotes) : i # q => quotes'[i] = quotes[i]
  BY <1>1 DEF Marketplace!Order
<1>3. q \in 1..MostQuotes
  BY <1>1, OfficeAssumption
<1>4. erps' \in Seq(1..MostQuotes) /\ Len(erps') <= MostOrders
  <2>1. erps \in Seq(1..MostQuotes) /\ Len(erps) < MostOrders /\ erps' = Append(erps, q)
    BY DEF MarketplaceInv, Marketplace!TypeOK, Marketplace!Order
  <2> QED BY <1>3, <2>1, OfficeAssumption
<1> DEFINE w == [desk[p] EXCEPT !.stage = "idle"]
<1>5. desk' = [desk EXCEPT ![p] = w] /\ desk[p] \in Marketplace!Work
  BY DEF MarketplaceInv, Marketplace!TypeOK, Marketplace!Does, Marketplace!Goto
<1>6. w \in Marketplace!Work /\ w.stage = "idle" /\ w.quotation = desk[p].quotation
      /\ w.skip = desk[p].skip
  BY <1>5 DEF Marketplace!Work
<1> HIDE DEF w
<1>7. /\ desk' \in [Session -> Marketplace!Work] /\ desk'[p] = w
      /\ \A r \in Session : r # p => desk'[r] = desk[r]
  BY <1>5, <1>6 DEF MarketplaceInv, Marketplace!TypeOK
<1>8. Marketplace!TypeOK'
  BY <1>1, <1>2, <1>4, <1>7 DEF MarketplaceInv, Marketplace!TypeOK
<1>9. StoreRequests'
  <2> SUFFICES ASSUME NEW r \in Session
               PROVE  /\ desk'[r].quotation <= Len(quotes') /\ ~desk'[r].skip
                      /\ desk'[r].stage \in {"ordering", "converting"}
                         => desk'[r].quotation # 0
                      /\ desk'[r].stage = "ordering" /\ desk'[r].converted
                         => market'.erp # 0
    BY <1>7 DEF StoreRequests, Marketplace!At
  <2>1. CASE r = p
    BY <1>2, <1>6, <1>7, <2>1 DEF MarketplaceInv, StoreRequests
  <2>2. CASE r # p
    <3>1. desk'[r] = desk[r]
      BY <1>7, <2>2
    <3> QED BY <1>2, <3>1 DEF MarketplaceInv, StoreRequests, Marketplace!At
  <2> QED BY <2>1, <2>2
<1>10. market'.quotation # 0 /\ quotes'[market'.quotation] = "CONVERTED" => market'.erp # 0
  BY <1>1, <1>2 DEF MarketplaceInv, RowRight
<1>11. RowRight'
  BY <1>1, <1>2, <1>10 DEF RowRight
<1>12. QuotedOrOwed'
  <2>1. \A r \in Session : Owes(r) => Owes(r)'
    BY <1>7 DEF Owes
  <2> QED BY <2>1 DEF MarketplaceInv, QuotedOrOwed, QuotationDue
<1> QED BY <1>8, <1>9, <1>11, <1>12 DEF MarketplaceInv

\* What a request owes it still owes, unless it was this one's to make.
LEMMA OwedStays ==
    ASSUME MarketplaceInv, NEW p \in Session, NEW w \in Marketplace!Work,
           desk' = [desk EXCEPT ![p] = w], entries' = entries,
           ~Owes(p) \/ w.stage \in {"importing", "fetched"}, QuotationDue(market')
             => QuotationDue(market)
    PROVE  QuotedOrOwed'
<1>1. desk'[p] = w /\ \A q \in Session : q # p => desk'[q] = desk[q]
  BY DEF MarketplaceInv, Marketplace!TypeOK
<1>2. \A q \in Session : Owes(q) => Owes(q)'
  BY <1>1 DEF Owes
<1> QED BY <1>2 DEF MarketplaceInv, QuotedOrOwed

\* A request moves to another stage with what it has.
LEMMA ToStage ==
    ASSUME MarketplaceInv, NEW p \in Session, NEW stage, Marketplace!Does(p, stage),
           stage \in {"idle", "importing", "fetching", "fetched", "returning"}
    PROVE  \E w \in Marketplace!Work : /\ desk' = [desk EXCEPT ![p] = w] /\ w.stage = stage
                                       /\ w.quotation <= Len(quotes) /\ ~w.skip
<1> DEFINE w == [desk[p] EXCEPT !.stage = stage]
<1>1. desk[p] \in Marketplace!Work /\ desk[p].quotation <= Len(quotes) /\ ~desk[p].skip
  BY DEF MarketplaceInv, StoreRequests
<1>2. w \in Marketplace!Work /\ w.stage = stage /\ w.quotation = desk[p].quotation
      /\ w.skip = desk[p].skip
  BY <1>1 DEF Marketplace!Work
<1>3. desk' = [desk EXCEPT ![p] = w]
  BY DEF Marketplace!Does, Marketplace!Goto
<1> HIDE DEF w
<1> QED BY <1>1, <1>2, <1>3

\* A request goes on, or is over, while the row keeps its quotation and ERP order.
LEMMA RowEdited ==
    ASSUME MarketplaceInv, NEW p \in Session, NEW stage, Marketplace!Does(p, stage),
           stage \in {"idle", "importing", "fetching", "fetched", "returning"},
           UNCHANGED <<quotes, erps, push, entries>>, market' \in Marketplace!Row,
           market'.quotation = market.quotation, market'.erp = market.erp,
           market'.importing = "ORDER_DONE" => market.importing = "ORDER_DONE",
           \/ (~Owes(p) \/ stage \in {"importing", "fetched"})
                /\ (QuotationDue(market') => QuotationDue(market))
           \/ stage \in {"importing", "fetched"}
    PROVE  MarketplaceInv'
<1>1. PICK w \in Marketplace!Work : /\ desk' = [desk EXCEPT ![p] = w] /\ w.stage = stage
                                    /\ w.quotation <= Len(quotes) /\ ~w.skip
  BY ToStage
<1>2. QuotedOrOwed'
  <2>1. CASE stage \in {"importing", "fetched"}
    <3>1. desk'[p] = w
      BY <1>1 DEF MarketplaceInv, Marketplace!TypeOK
    <3> QED BY <1>1, <2>1, <3>1 DEF QuotedOrOwed, Owes
  <2>2. CASE stage \notin {"importing", "fetched"}
    BY <1>1, <2>2, OwedStays
  <2> QED BY <2>1, <2>2
<1>3. Len(quotes) \in Nat /\ Len(quotes) <= MostQuotes
      /\ quotes \in Seq({"DRAFT", "CONVERTED"}) /\ market.quotation <= Len(quotes)
      /\ (market.importing = "ORDER_DONE" => market.erp # 0)
  BY DEF MarketplaceInv, Marketplace!TypeOK, RowRight
<1>4. /\ UNCHANGED <<push, entries, erps>> /\ quotes' \in Seq({"DRAFT", "CONVERTED"})
      /\ Len(quotes) <= Len(quotes') /\ Len(quotes') <= MostQuotes
      /\ \A i \in 1..Len(quotes) : quotes'[i] = quotes[i]
      /\ \A i \in Len(quotes) + 1..Len(quotes') : quotes'[i] = "DRAFT"
      /\ market' \in Marketplace!Row /\ market'.quotation <= Len(quotes')
      /\ market'.quotation = market.quotation \/ market'.quotation > Len(quotes)
      /\ market'.erp = market.erp /\ (market'.importing = "ORDER_DONE" => market.erp # 0)
      /\ w.quotation <= Len(quotes') /\ ~w.skip /\ w.stage \notin {"ordering", "converting"}
  BY <1>1, <1>3
<1> QED BY <1>1, <1>2, <1>4, RequestMoves

\* A request makes one quotation more, or none.
LEMMA RowQuoted ==
    ASSUME MarketplaceInv, NEW p \in Session, Marketplace!Does(p, "idle"),
           UNCHANGED <<erps, push, entries>>, NEW n \in 0..2, NEW entry \in Marketplace!Row,
             Marketplace!Quote(entry, n),
           entry.quotation = market.quotation, entry.erp = market.erp,
           entry.importing = "ORDER_DONE" => market.importing = "ORDER_DONE",
           \/ n > 0 \/ entry.match # "exact"
           \/ ~Owes(p) /\ (QuotationDue(entry) => QuotationDue(market))
    PROVE  MarketplaceInv'
<1>1. PICK w \in Marketplace!Work : /\ desk' = [desk EXCEPT ![p] = w] /\ w.stage = "idle"
                                    /\ w.quotation <= Len(quotes) /\ ~w.skip
  BY ToStage
<1>2. /\ quotes' \in Seq({"DRAFT", "CONVERTED"}) /\ Len(quotes') = Len(quotes) + n
      /\ Len(quotes') <= MostQuotes
      /\ \A i \in 1..Len(quotes) : quotes'[i] = quotes[i]
      /\ \A i \in Len(quotes) + 1..Len(quotes') : quotes'[i] = "DRAFT"
      /\ market' \in Marketplace!Row /\ market'.quotation <= Len(quotes')
      /\ market'.quotation = IF n = 0 THEN market.quotation ELSE Len(quotes')
      /\ market'.present = entry.present /\ market'.status = entry.status
      /\ market'.match = entry.match /\ market'.erp = entry.erp
      /\ market'.importing = entry.importing
  BY MoreQuotes
<1>3. Len(quotes) \in Nat /\ market.quotation \in Nat
      /\ (market.importing = "ORDER_DONE" => market.erp # 0) /\ w.quotation \in Nat
  BY DEF MarketplaceInv, Marketplace!TypeOK, RowRight, Marketplace!Row, Marketplace!Work
<1>4. QuotationDue(market') => n = 0 /\ QuotationDue(entry)
  BY <1>2, <1>3 DEF QuotationDue
<1>5. QuotedOrOwed'
  <2>1. CASE n > 0 \/ entry.match # "exact"
    BY <1>4, <2>1 DEF QuotedOrOwed, QuotationDue
  <2>2. CASE ~Owes(p) /\ (QuotationDue(entry) => QuotationDue(market))
    BY <1>1, <1>4, <2>2, OwedStays
  <2> QED BY <2>1, <2>2
<1>6. /\ UNCHANGED <<push, entries, erps>> /\ quotes' \in Seq({"DRAFT", "CONVERTED"})
      /\ Len(quotes) <= Len(quotes') /\ Len(quotes') <= MostQuotes
      /\ \A i \in 1..Len(quotes) : quotes'[i] = quotes[i]
      /\ \A i \in Len(quotes) + 1..Len(quotes') : quotes'[i] = "DRAFT"
      /\ market' \in Marketplace!Row /\ market'.quotation <= Len(quotes')
      /\ market'.quotation = market.quotation \/ market'.quotation > Len(quotes)
      /\ market'.erp = market.erp /\ (market'.importing = "ORDER_DONE" => market.erp # 0)
      /\ w.quotation <= Len(quotes') /\ ~w.skip /\ w.stage \notin {"ordering", "converting"}
  BY <1>1, <1>2, <1>3
<1> QED BY <1>1, <1>5, <1>6, RequestMoves

\* The row, written by the platform or by the wizard, keeps what was made of it.
LEMMA RowWritten ==
    ASSUME MarketplaceInv, NEW now \in Marketplace!Status, NEW tracked \in BOOLEAN
    PROVE  LET entry == [market EXCEPT !.present = TRUE, !.status = now, !.tracked = tracked]
           IN  /\ entry \in Marketplace!Row /\ entry.quotation = market.quotation
                    /\ entry.erp = market.erp
               /\ entry.importing = market.importing /\ entry.match = market.match
               /\ entry.status = now /\ entry.present
BY DEF MarketplaceInv, RowRight, Marketplace!Row

\* sync_orders
LEMMA Synced ==
    ASSUME MarketplaceInv, NEW p \in Session, NEW now \in Marketplace!Status,
           NEW tracked \in BOOLEAN, Marketplace!Sync(p, now, tracked)
    PROVE  MarketplaceInv'
<1> DEFINE entry == [market EXCEPT !.present = TRUE, !.status = now, !.tracked = tracked]
           n == IF ~Marketplace!Handled(p, entry) THEN 0 ELSE IF market.present THEN 1 ELSE 2
           w == [desk[p] EXCEPT !.skip = FALSE]
<1>1. /\ entry \in Marketplace!Row /\ entry.quotation = market.quotation /\ entry.erp = market.erp
      /\ entry.importing = market.importing /\ entry.match = market.match
  BY RowWritten
<1>2. desk[p] \in Marketplace!Work /\ ~desk[p].skip /\ desk[p].stage = "idle"
  BY DEF MarketplaceInv, StoreRequests, Marketplace!Sync, Marketplace!Starts, Marketplace!At
<1>3. w = [desk[p] EXCEPT !.stage = "idle"]
  BY <1>2 DEF Marketplace!Work
<1>4. Marketplace!Quote(entry, n) /\ Marketplace!Goto(p, w) /\ UNCHANGED <<erps, push, entries>>
  BY DEF Marketplace!Sync, Marketplace!Upsert, Marketplace!SkipAfter
<1>5. Marketplace!Does(p, "idle")
  <2> HIDE DEF w
  <2> QED BY <1>3, <1>4 DEF Marketplace!Does
<1>6. n \in 0..2 /\ (n = 0 => ~Marketplace!Handled(p, entry))
  OBVIOUS
<1> HIDE DEF entry, n, w
<1>7. ~Owes(p)
  BY <1>2 DEF Owes
<1>8. n > 0 \/ ~QuotationDue(entry)
  BY <1>2, <1>6 DEF Marketplace!Handled, QuotationDue
<1> QED BY <1>1, <1>4, <1>5, <1>6, <1>7, <1>8, RowQuoted

\* import_selected_orders: the row, then its quotation.
LEMMA Imported ==
    ASSUME MarketplaceInv, NEW p \in Session, NEW now \in Marketplace!Status,
           NEW tracked \in BOOLEAN, Marketplace!Import(p, now, tracked)
    PROVE  MarketplaceInv'
<1> DEFINE entry == [market EXCEPT !.present = TRUE, !.status = now, !.tracked = tracked]
<1>1. /\ entry \in Marketplace!Row /\ entry.quotation = market.quotation /\ entry.erp = market.erp
      /\ entry.importing = market.importing
  BY RowWritten
<1>2. desk[p] \in Marketplace!Work /\ ~desk[p].skip
  BY DEF MarketplaceInv, StoreRequests
<1>3. market' = entry /\ UNCHANGED <<quotes, erps, push, entries>>
      /\ Marketplace!Goto(p, [desk[p] EXCEPT !.stage = "importing", !.skip = FALSE])
  BY DEF Marketplace!Import, Marketplace!SkipAfter
<1>4. [desk[p] EXCEPT !.stage = "importing", !.skip = FALSE]
      = [desk[p] EXCEPT !.stage = "importing"]
  BY <1>2 DEF Marketplace!Work
<1>5. Marketplace!Does(p, "importing")
  BY <1>3, <1>4 DEF Marketplace!Does
<1> HIDE DEF entry
<1> QED BY <1>1, <1>3, <1>5, RowEdited

LEMMA ImportQuoted ==
    ASSUME MarketplaceInv, NEW p \in Session, Marketplace!ImportQuote(p)
    PROVE  MarketplaceInv'
BY RowQuoted DEF Marketplace!ImportQuote, MarketplaceInv, Marketplace!TypeOK

\* The requests that leave the row, but to say that they have begun or are over.
LEMMA Begun ==
    ASSUME MarketplaceInv, NEW p \in Session, Marketplace!AskFetch(p) \/ Marketplace!AskReturn(p)
    PROVE  MarketplaceInv'
<1>1. ~Owes(p)
  BY DEF Marketplace!AskFetch, Marketplace!AskReturn, Marketplace!Starts, Marketplace!At, Owes
<1> QED BY <1>1, RowEdited DEF Marketplace!AskFetch, Marketplace!AskReturn, MarketplaceInv,
   Marketplace!TypeOK

\* fetch_from_api and fetch_from_excel
LEMMA Fetched ==
    ASSUME MarketplaceInv, NEW p \in Session, Marketplace!CommitFetch(p)
    PROVE  MarketplaceInv'
<1>1. ~Owes(p)
  BY DEF Marketplace!CommitFetch, Marketplace!At, Owes
<1>2. CASE market.present
  BY <1>1, <1>2, RowEdited DEF Marketplace!CommitFetch, MarketplaceInv, Marketplace!TypeOK
<1>3. CASE ~market.present
  <2> DEFINE entry == [market EXCEPT !.present = TRUE, !.status = "NEW", !.tracked = FALSE,
                                     !.wizard = TRUE, !.importing = "PENDING"]
  <2>1. entry \in Marketplace!Row /\ entry.quotation = market.quotation /\ entry.erp = market.erp
        /\ entry.importing # "ORDER_DONE"
    BY DEF MarketplaceInv, Marketplace!TypeOK, Marketplace!Row, Marketplace!Status,
       Marketplace!ImportStatus
  <2>2. market' = entry /\ Marketplace!Does(p, "fetched")
          /\ UNCHANGED <<quotes, erps, push, entries>>
    BY <1>3 DEF Marketplace!CommitFetch
  <2> HIDE DEF entry
  <2> QED BY <2>1, <2>2, RowEdited
<1> QED BY <1>2, <1>3

LEMMA FetchQuoted ==
    ASSUME MarketplaceInv, NEW p \in Session, Marketplace!FetchQuote(p)
    PROVE  MarketplaceInv'
<1> DEFINE n == IF market.match = "exact" THEN 1 ELSE 0
<1>1. n \in 0..2 /\ (n > 0 \/ market.match # "exact")
  OBVIOUS
<1>2. Marketplace!Quote(market, n) /\ Marketplace!Does(p, "idle")
        /\ UNCHANGED <<erps, push, entries>>
  BY DEF Marketplace!FetchQuote
<1> HIDE DEF n
<1> QED BY <1>1, <1>2, RowQuoted DEF MarketplaceInv, Marketplace!TypeOK

\* What the wizard says of the row.
LEMMA Noted ==
    ASSUME MarketplaceInv, NEW i \in Marketplace!ImportStatus
    PROVE  LET entry == [market EXCEPT !.importing = i]
           IN  /\ entry \in Marketplace!Row /\ entry.quotation = market.quotation
                    /\ entry.erp = market.erp
               /\ entry.importing = i /\ entry.match = market.match
               /\ (QuotationDue(entry) => QuotationDue(market)) /\ entry.present = market.present
               /\ entry.status = market.status
BY DEF MarketplaceInv, Marketplace!TypeOK, Marketplace!Row, QuotationDue

\* update_selections
LEMMA Deselected ==
    ASSUME MarketplaceInv, NEW p \in Session, Marketplace!Deselect(p)
    PROVE  MarketplaceInv'
<1> DEFINE entry == [market EXCEPT !.importing = "SKIPPED"]
<1>1. /\ entry \in Marketplace!Row /\ entry.quotation = market.quotation /\ entry.erp = market.erp
      /\ entry.importing = "SKIPPED" /\ (QuotationDue(entry) => QuotationDue(market))
  BY Noted DEF Marketplace!ImportStatus
<1>2. market' = entry /\ UNCHANGED <<quotes, erps, push, desk, entries>>
  BY DEF Marketplace!Deselect
<1> HIDE DEF entry
<1>3. desk[p].stage = "idle" /\ desk \in [Session -> Marketplace!Work]
  BY DEF Marketplace!Deselect, Marketplace!Starts, Marketplace!At, MarketplaceInv, StoreRequests
<1>4. Marketplace!Does(p, "idle")
  <2>1. [desk[p] EXCEPT !.stage = "idle"] = desk[p]
    BY <1>3 DEF Marketplace!Work
  <2> QED BY <1>2, <1>3, <2>1 DEF Marketplace!Does, Marketplace!Goto
<1>5. ~Owes(p)
  BY <1>3 DEF Owes
<1> QED BY <1>1, <1>2, <1>4, <1>5, RowEdited

\* A stage that fails, that of the customers.
LEMMA StageNoted ==
    ASSUME MarketplaceInv, NEW p \in Session, Marketplace!FailStage(p)
           \/ Marketplace!CommitCustomer(p)
    PROVE  MarketplaceInv'
<1>1. PICK i \in Marketplace!ImportStatus : market' = [market EXCEPT !.importing = i]
        /\ i # "ORDER_DONE"
  BY DEF Marketplace!FailStage, Marketplace!CommitCustomer, Marketplace!ImportStatus
<1> DEFINE entry == [market EXCEPT !.importing = i]
<1>2. /\ entry \in Marketplace!Row /\ entry.quotation = market.quotation /\ entry.erp = market.erp
      /\ entry.importing = i /\ (QuotationDue(entry) => QuotationDue(market))
  BY Noted
<1>3. market' = entry
  BY <1>1
<1> HIDE DEF entry
<1>4. ~Owes(p) /\ Marketplace!Does(p, "idle") /\ UNCHANGED <<quotes, erps, push, entries>>
  BY DEF Marketplace!FailStage, Marketplace!CommitCustomer, Marketplace!At, Owes
<1> QED BY <1>1, <1>2, <1>3, <1>4, RowEdited

\* create_quotations
LEMMA StageQuoted ==
    ASSUME MarketplaceInv, NEW p \in Session, Marketplace!CommitQuotation(p)
    PROVE  MarketplaceInv'
<1> DEFINE entry == [market EXCEPT !.importing = "QUOTATION_DONE"]
<1>1. /\ entry \in Marketplace!Row /\ entry.quotation = market.quotation /\ entry.erp = market.erp
      /\ entry.importing = "QUOTATION_DONE"
  BY Noted DEF Marketplace!ImportStatus
<1>2. Marketplace!Quote(entry, 1) /\ Marketplace!Does(p, "idle")
        /\ UNCHANGED <<erps, push, entries>>
  BY DEF Marketplace!CommitQuotation
<1> HIDE DEF entry
<1> QED BY <1>1, <1>2, RowQuoted

\* A request reads what it will work on, and the row and its quotations stay.
LEMMA Reads ==
    ASSUME MarketplaceInv, NEW p \in Session, NEW w \in Marketplace!Work, Marketplace!Goto(p, w),
           ~Owes(p),
           UNCHANGED <<market, quotes, erps, push, entries>>,
           w.quotation <= Len(quotes), ~w.skip,
           w.stage \in {"ordering", "converting"} => w.quotation # 0,
           w.stage = "ordering" /\ w.converted => market.erp # 0
    PROVE  MarketplaceInv'
<1>1. QuotedOrOwed'
  BY OwedStays DEF Marketplace!Goto
<1>2. /\ UNCHANGED <<push, entries, erps>> /\ quotes' \in Seq({"DRAFT", "CONVERTED"})
      /\ Len(quotes) <= Len(quotes') /\ Len(quotes') <= MostQuotes
      /\ \A i \in 1..Len(quotes) : quotes'[i] = quotes[i]
      /\ \A i \in Len(quotes) + 1..Len(quotes') : quotes'[i] = "DRAFT"
      /\ market' \in Marketplace!Row /\ market'.quotation <= Len(quotes')
      /\ market'.quotation = market.quotation /\ market'.erp = market.erp
      /\ (market'.importing = "ORDER_DONE" => market.erp # 0)
  BY DEF MarketplaceInv, Marketplace!TypeOK, RowRight
<1>3. desk' = [desk EXCEPT ![p] = w] /\ w.quotation <= Len(quotes')
  BY DEF Marketplace!Goto
<1> QED BY <1>1, <1>2, <1>3, RequestMoves

LEMMA StageAsked ==
    ASSUME MarketplaceInv, NEW p \in Session, NEW stage, NEW ready,
           Marketplace!AskStage(p, stage, ready),
           stage \in {"customer", "quoting", "ordering"}
    PROVE  MarketplaceInv'
<1> DEFINE q == market.quotation
           c == q # 0 /\ quotes[q] = "CONVERTED"
           w == [desk[p] EXCEPT !.stage = stage, !.quotation = q, !.converted = c]
<1>1. q \in 0..MostQuotes /\ q <= Len(quotes) /\ (c => market.erp # 0) /\ c \in BOOLEAN
      /\ (stage = "ordering" => q # 0)
  BY DEF MarketplaceInv, RowRight, Marketplace!Row, Marketplace!AskStage
<1>2. Marketplace!Goto(p, w) /\ UNCHANGED <<market, quotes, erps, push, entries>> /\ ~Owes(p)
  BY DEF Marketplace!AskStage, Marketplace!Starts, Marketplace!At, Owes
<1>3. desk[p] \in Marketplace!Work /\ ~desk[p].skip
  BY DEF MarketplaceInv, StoreRequests
<1> HIDE DEF q, c
<1>4. w \in Marketplace!Work /\ w.stage = stage /\ w.quotation = q /\ w.converted = c
      /\ w.skip = desk[p].skip
  BY <1>1, <1>3 DEF Marketplace!Work
<1> HIDE DEF w
<1> QED BY <1>1, <1>2, <1>3, <1>4, Reads

LEMMA ConvertAsked ==
    ASSUME MarketplaceInv, NEW p \in Session, NEW q \in DOMAIN quotes,
           Marketplace!AskConvert(p, q)
    PROVE  MarketplaceInv'
<1> DEFINE w == [desk[p] EXCEPT !.stage = "converting", !.quotation = q]
<1>1. q \in 0..MostQuotes /\ q <= Len(quotes) /\ q # 0
  BY OfficeAssumption DEF MarketplaceInv, Marketplace!TypeOK
<1>2. Marketplace!Goto(p, w) /\ UNCHANGED <<market, quotes, erps, push, entries>> /\ ~Owes(p)
  BY DEF Marketplace!AskConvert, Marketplace!Starts, Marketplace!At, Owes
<1>3. desk[p] \in Marketplace!Work /\ ~desk[p].skip
  BY DEF MarketplaceInv, StoreRequests
<1>4. w \in Marketplace!Work /\ w.stage = "converting" /\ w.quotation = q /\ w.skip = desk[p].skip
  BY <1>1, <1>3 DEF Marketplace!Work
<1> HIDE DEF w
<1> QED BY <1>1, <1>2, <1>3, <1>4, Reads

\* convert_to_orders
LEMMA StageOrdered ==
    ASSUME MarketplaceInv, NEW p \in Session, Marketplace!CommitOrder(p)
    PROVE  MarketplaceInv'
<1>1. desk[p].stage = "ordering" /\ ~Owes(p) /\ Marketplace!Does(p, "idle")
      /\ UNCHANGED <<push, entries>>
  BY DEF Marketplace!CommitOrder, Marketplace!At, Owes
<1>2. CASE desk[p].converted
  <2> DEFINE entry == [market EXCEPT !.importing = "ORDER_DONE"]
  <2>1. entry \in Marketplace!Row /\ entry.quotation = market.quotation /\ entry.erp = market.erp
        /\ (QuotationDue(entry) => QuotationDue(market)) /\ market.erp # 0
    BY <1>1, <1>2, Noted DEF Marketplace!ImportStatus, MarketplaceInv, StoreRequests,
      Marketplace!At
  <2>2. market' = entry /\ UNCHANGED <<quotes, erps>>
    BY <1>2 DEF Marketplace!CommitOrder
  <2> HIDE DEF entry
  <2>3. PICK w \in Marketplace!Work : /\ desk' = [desk EXCEPT ![p] = w] /\ w.stage = "idle"
                                      /\ w.quotation <= Len(quotes) /\ ~w.skip
    BY <1>1, ToStage
  <2>4. QuotedOrOwed'
    BY <1>1, <2>1, <2>2, <2>3, OwedStays
  <2>5. /\ UNCHANGED <<push, entries, erps>> /\ quotes' \in Seq({"DRAFT", "CONVERTED"})
        /\ Len(quotes) <= Len(quotes') /\ Len(quotes') <= MostQuotes
        /\ \A i \in 1..Len(quotes) : quotes'[i] = quotes[i]
        /\ \A i \in Len(quotes) + 1..Len(quotes') : quotes'[i] = "DRAFT"
        /\ market' \in Marketplace!Row /\ market'.quotation <= Len(quotes')
        /\ market'.quotation = market.quotation /\ market'.erp = market.erp
        /\ w.quotation <= Len(quotes')
    BY <1>1, <2>1, <2>2, <2>3 DEF MarketplaceInv, Marketplace!TypeOK, RowRight
  <2> QED BY <2>1, <2>3, <2>4, <2>5, RequestMoves
<1>3. CASE ~desk[p].converted
  <2> DEFINE e == Len(erps) + 1
             q == desk[p].quotation
             entry == [market EXCEPT !.importing = "ORDER_DONE", !.erp = e]
  <2>1. Marketplace!Order(q) /\ market' = entry
    BY <1>3 DEF Marketplace!CommitOrder
  <2>2. q \in 1..Len(quotes) /\ e \in 0..MostOrders /\ e # 0
    BY <1>1, <2>1, OfficeAssumption DEF MarketplaceInv, Marketplace!TypeOK, StoreRequests,
       Marketplace!Work, Marketplace!Order
  <2> HIDE DEF e, q
  <2>3. entry \in Marketplace!Row /\ entry.quotation = market.quotation /\ entry.erp = e
        /\ entry.present = market.present /\ entry.status = market.status
        /\ entry.match = market.match
    BY <2>2 DEF MarketplaceInv, Marketplace!TypeOK, Marketplace!Row, Marketplace!ImportStatus
  <2> HIDE DEF entry
  <2> QED BY <1>1, <2>1, <2>2, <2>3, ErpOrdered
<1> QED BY <1>2, <1>3

\* QuotationConvertView
LEMMA QuotationConverted ==
    ASSUME MarketplaceInv, NEW p \in Session, Marketplace!CommitConvert(p)
    PROVE  MarketplaceInv'
<1> DEFINE q == desk[p].quotation
           e == Marketplace!Linked(q)
           entry == [market EXCEPT !.erp = e]
<1>1. desk[p].stage = "converting" /\ ~Owes(p) /\ Marketplace!Does(p, "idle")
      /\ UNCHANGED <<push, entries>> /\ Marketplace!Order(q) /\ market' = entry
  BY DEF Marketplace!CommitConvert, Marketplace!At, Owes
<1>2. q \in 1..Len(quotes)
  BY <1>1 DEF MarketplaceInv, Marketplace!TypeOK, StoreRequests, Marketplace!Work
<1>3. Len(erps) \in Nat /\ Len(erps) < MostOrders /\ market.erp \in 0..MostOrders
  BY <1>1 DEF Marketplace!Order, MarketplaceInv, Marketplace!TypeOK, Marketplace!Row
<1> HIDE DEF q
<1>4. e \in 0..MostOrders /\ (market.erp # 0 => e # 0)
      /\ (e # 0 \/ (e = market.erp /\ q # market.quotation))
  BY <1>3, OfficeAssumption DEF Marketplace!Linked
<1> HIDE DEF e
<1>5. entry \in Marketplace!Row /\ entry.quotation = market.quotation /\ entry.erp = e
      /\ entry.present = market.present /\ entry.status = market.status
      /\ entry.match = market.match /\ entry.importing = market.importing
  BY <1>4 DEF MarketplaceInv, Marketplace!TypeOK, Marketplace!Row
<1>6. market.importing = "ORDER_DONE" => market.erp # 0
  BY DEF MarketplaceInv, RowRight
<1> HIDE DEF entry
<1> QED BY <1>1, <1>2, <1>4, <1>5, <1>6, ErpOrdered

\* PushReturnView
LEMMA GoodsReturned ==
    ASSUME MarketplaceInv, NEW p \in Session, Marketplace!CommitReturn(p)
    PROVE  MarketplaceInv'
<1> DEFINE entry == [market EXCEPT !.status = "RETURNED"]
<1>1. entry \in Marketplace!Row /\ entry.quotation = market.quotation /\ entry.erp = market.erp
      /\ entry.importing = market.importing /\ ~QuotationDue(entry)
  BY DEF MarketplaceInv, Marketplace!TypeOK, Marketplace!Row, Marketplace!Status, QuotationDue
<1>2. market' = entry /\ Marketplace!Does(p, "idle") /\ ~Owes(p)
        /\ UNCHANGED <<quotes, erps, push, entries>>
  BY DEF Marketplace!CommitReturn, Marketplace!At, Owes
<1> HIDE DEF entry
<1> QED BY <1>1, <1>2, RowEdited

\* A request dies with what it owes.
LEMMA Died ==
    ASSUME MarketplaceInv, NEW p \in Session, Marketplace!Die(p)
    PROVE  MarketplaceInv'
<1>1. Marketplace!Idle \in Marketplace!Work /\ Marketplace!Idle.stage = "idle"
        /\ Marketplace!Idle.quotation = 0 /\ ~Marketplace!Idle.skip
  BY OfficeAssumption DEF Marketplace!Idle, Marketplace!Work
<1>2. QuotedOrOwed' /\ desk' = [desk EXCEPT ![p] = Marketplace!Idle]
  BY DEF Marketplace!Die, Marketplace!Goto, QuotedOrOwed
<1>3. /\ UNCHANGED <<push, entries, erps>> /\ quotes' \in Seq({"DRAFT", "CONVERTED"})
      /\ Len(quotes) <= Len(quotes') /\ Len(quotes') <= MostQuotes
      /\ \A i \in 1..Len(quotes) : quotes'[i] = quotes[i]
      /\ \A i \in Len(quotes) + 1..Len(quotes') : quotes'[i] = "DRAFT"
      /\ market' \in Marketplace!Row /\ market'.quotation <= Len(quotes')
      /\ market'.quotation = market.quotation /\ market'.erp = market.erp
      /\ (market'.importing = "ORDER_DONE" => market.erp # 0)
      /\ Marketplace!Idle.quotation <= Len(quotes')
  BY <1>1 DEF Marketplace!Die, MarketplaceInv, Marketplace!TypeOK, RowRight
<1> QED BY <1>1, <1>2, <1>3, RequestMoves

\* The workers: a push moves, and the status of the row at most.
LEMMA Pushed ==
    ASSUME MarketplaceInv, NEW t \in Pushes, Marketplace!Enqueue(t) \/ Marketplace!Worker(t)
           \/ Marketplace!WorkerDies(t)
    PROVE  MarketplaceInv'
<1> DEFINE States == {"free"} \cup Marketplace!Open \cup Marketplace!Ended
           PushStates == [state: States, tries: 0..Marketplace!MaxRetries]
<1>1. push \in [Pushes -> PushStates]
  BY DEF MarketplaceInv, Marketplace!TypeOK
<1>2. PICK state \in {"free"} \cup Marketplace!Open \cup Marketplace!Ended,
        tries \in 0..Marketplace!MaxRetries :
        Marketplace!PushIs(t, state, tries)
  <2>1. push[t].tries \in 0..Marketplace!MaxRetries
    BY <1>1
  <2>2. CASE Marketplace!Enqueue(t)
    BY <2>2 DEF Marketplace!Enqueue, Marketplace!Open, Marketplace!MaxRetries
  <2>3. CASE Marketplace!Fail(t)
    BY <2>1, <2>3 DEF Marketplace!Fail, Marketplace!TriesAfter, Marketplace!Open,
      Marketplace!Ended,
       Marketplace!MaxRetries
  <2>4. CASE Marketplace!StartPush(t) \/ Marketplace!Accept(t) \/ Marketplace!MarkShipped(t)
               \/ Marketplace!WorkerDies(t)
    BY <2>1, <2>4 DEF Marketplace!StartPush, Marketplace!Accept, Marketplace!MarkShipped,
       Marketplace!WorkerDies, Marketplace!Open, Marketplace!Ended
  <2> QED BY <2>2, <2>3, <2>4 DEF Marketplace!Worker
<1>3. push' \in [Pushes -> PushStates]
  BY <1>1, <1>2 DEF Marketplace!PushIs
<1>4. UNCHANGED <<quotes, erps, desk, entries>>
      /\ (market' = market \/ market' = [market EXCEPT !.status = "SHIPPED"])
  BY DEF Marketplace!Enqueue, Marketplace!Worker, Marketplace!StartPush, Marketplace!Accept,
     Marketplace!Fail, Marketplace!MarkShipped, Marketplace!WorkerDies
<1>5. /\ market' \in Marketplace!Row /\ market'.quotation = market.quotation
           /\ market'.erp = market.erp
      /\ market'.importing = market.importing /\ (QuotationDue(market') => QuotationDue(market))
  BY <1>4 DEF MarketplaceInv, Marketplace!TypeOK, Marketplace!Row, Marketplace!Status,
    QuotationDue
<1>6. Marketplace!TypeOK'
  BY <1>3, <1>4, <1>5 DEF MarketplaceInv, Marketplace!TypeOK
<1>7. StoreRequests' /\ RowRight' /\ QuotedOrOwed'
  BY <1>4, <1>5 DEF MarketplaceInv, StoreRequests, RowRight, QuotedOrOwed, Marketplace!At, Owes
<1> QED BY <1>6, <1>7 DEF MarketplaceInv

LEMMA MarketplaceStarts == Marketplace!Init => MarketplaceInv
<1> SUFFICES ASSUME Marketplace!Init PROVE MarketplaceInv
  OBVIOUS
<1>1. Marketplace!Idle \in Marketplace!Work /\ Marketplace!Idle.stage = "idle"
        /\ Marketplace!Idle.quotation = 0 /\ ~Marketplace!Idle.skip
  BY OfficeAssumption DEF Marketplace!Idle, Marketplace!Work
<1>2. market \in Marketplace!Row /\ market.quotation = 0 /\ ~market.present
        /\ market.importing = "PENDING"
  BY OfficeAssumption DEF Marketplace!Init, Marketplace!Row, Marketplace!Status,
     Marketplace!ImportStatus
<1>3. quotes \in Seq({"DRAFT", "CONVERTED"}) /\ Len(quotes) = 0
      /\ erps \in Seq(1..MostQuotes) /\ Len(erps) = 0
  BY DEF Marketplace!Init
<1>4. Marketplace!TypeOK
  BY <1>1, <1>2, <1>3, OfficeAssumption DEF Marketplace!Init, Marketplace!TypeOK,
     Marketplace!MaxRetries
<1>5. StoreRequests
  BY <1>1, <1>3 DEF Marketplace!Init, StoreRequests, Marketplace!At
<1>6. RowRight /\ QuotedOrOwed
  BY <1>2, <1>3 DEF RowRight, QuotedOrOwed, QuotationDue
<1> QED BY <1>4, <1>5, <1>6 DEF MarketplaceInv

LEMMA MarketplaceStays ==
    ASSUME MarketplaceInv, UNCHANGED Marketplace!vars
    PROVE  MarketplaceInv'
<1>1. UNCHANGED <<market, quotes, erps, push, desk, entries>>
  BY DEF Marketplace!vars
<1> QED BY <1>1 DEF MarketplaceInv, Marketplace!TypeOK, StoreRequests, RowRight, QuotedOrOwed,
   Marketplace!At, Owes

LEMMA MarketplaceStep ==
    ASSUME MarketplaceInv, Marketplace!Next
    PROVE  MarketplaceInv'
<1>1. ASSUME NEW p \in Session, Marketplace!Request(p) PROVE MarketplaceInv'
  <2>1. CASE \E now \in Reported, tracked \in BOOLEAN :
               Marketplace!Sync(p, now, tracked) \/ Marketplace!Import(p, now, tracked)
    <3>1. PICK now \in Reported, tracked \in BOOLEAN :
            Marketplace!Sync(p, now, tracked) \/ Marketplace!Import(p, now, tracked)
      BY <2>1
    <3>2. now \in Marketplace!Status
      BY OfficeAssumption
    <3> QED BY <3>1, <3>2, Synced, Imported
  <2>2. CASE Marketplace!AskFetch(p) \/ Marketplace!AskReturn(p) \/ Marketplace!Deselect(p)
    BY <2>2, Begun, Deselected
  <2>3. CASE Marketplace!AskStage(p, "customer", "PENDING")
               \/ Marketplace!AskStage(p, "quoting", "CUSTOMER_DONE")
             \/ Marketplace!AskStage(p, "ordering", "QUOTATION_DONE")
    BY <2>3, StageAsked
  <2>4. CASE \E q \in DOMAIN quotes : Marketplace!AskConvert(p, q)
    BY <2>4, ConvertAsked
  <2> QED BY <1>1, <2>1, <2>2, <2>3, <2>4 DEF Marketplace!Request
<1>2. ASSUME NEW p \in Session, Marketplace!Answer(p) PROVE MarketplaceInv'
  BY <1>2, ImportQuoted, Fetched, FetchQuoted, StageNoted, StageQuoted, StageOrdered,
     QuotationConverted, GoodsReturned, Died DEF Marketplace!Answer
<1> QED BY <1>1, <1>2, Pushed DEF Marketplace!Next

-----------------------------------------------------------------------------
(* The tickets of the helpdesk. *)

-----------------------------------------------------------------------------
(* The invariant. *)

\* One request is under way; a status about to be written may follow the one the
\* ticket has; and a job that is under way has something left to examine, and
\* raises what can be raised.
TicketsInv ==
    /\ Tickets!TypeOK
    /\ \A p, q \in Desk : Tickets!At(p, "idle") \/ Tickets!At(q, "idle") \/ p = q
    /\ \A p \in Desk :
          Tickets!At(p, "writing")
            => Tickets!Passes(ticket[desk[p].ticket].status, desk[p].status)
    /\ job.stage # "idle" => job.todo # {}
    /\ job.stage = "raising" => Tickets!Raises(job.priority[Tickets!Next1.ticket])

\* The steps of the job leave every status.
StatusStays == \A t \in Tickets!TicketId : ticket'[t].status = ticket[t].status

-----------------------------------------------------------------------------
(* The steps. *)

\* What is examined next is one of those to examine.
LEMMA NextExamined ==
    ASSUME TicketsInv, job.todo # {}
    PROVE  Tickets!Next1 \in job.todo /\ Tickets!Next1.ticket \in Tickets!TicketId
             /\ Tickets!Next1.kind \in Tickets!Kind
<1> DEFINE T == {x.ticket : x \in job.todo}
<1>1. job.todo \subseteq [ticket: Tickets!TicketId, kind: Tickets!Kind]
  BY DEF TicketsInv, Tickets!TypeOK, Tickets!Job
<1>2. T \subseteq 0..TicketCount /\ T # {}
  BY <1>1, OfficeAssumption DEF Tickets!TicketId
<1>3. PICK t \in T : \A u \in T : u <= t
  <2> HIDE DEF T
  <2> QED BY <1>2, GreatestOne, OfficeAssumption
<1>4. \A x \in job.todo : x.ticket \in Nat /\ x.ticket <= t
  BY <1>1, <1>3 DEF Tickets!TicketId
<1>5. \E x \in job.todo : \A y \in job.todo : Tickets!Before(x, y)
  <2>1. CASE \E x \in job.todo : x.ticket = t /\ x.kind = "RESPONSE"
    BY <2>1, <1>1, <1>4 DEF Tickets!Before
  <2>2. CASE \A x \in job.todo : x.ticket = t => x.kind # "RESPONSE"
    <3>1. PICK x \in job.todo : x.ticket = t
      BY <1>3
    <3>2. \A y \in job.todo : Tickets!Before(x, y)
      BY <2>2, <3>1, <1>1, <1>4 DEF Tickets!Before, Tickets!Kind
    <3> QED BY <3>2
  <2> QED BY <2>1, <2>2
<1>6. Tickets!Next1 \in job.todo
  BY <1>5 DEF Tickets!Next1
<1> QED BY <1>1, <1>6

\* A request asks, is checked, or is over, without a row being written.
LEMMA RequestMoved ==
    ASSUME TicketsInv, NEW p \in Desk, NEW w \in Tickets!Work, desk' = [desk EXCEPT ![p] = w],
           UNCHANGED <<ticket, job, entries>>,
           Tickets!At(p, "idle") => \A q \in Desk : Tickets!At(q, "idle"),
           w.stage = "writing" => Tickets!Passes(ticket[w.ticket].status, w.status)
    PROVE  TicketsInv' /\ StatusStays
<1>1. desk \in [Desk -> Tickets!Work] /\ desk'[p] = w
      /\ \A q \in Desk : q # p => desk'[q] = desk[q]
  BY DEF TicketsInv, Tickets!TypeOK
<1>2. Tickets!TypeOK'
  BY <1>1 DEF TicketsInv, Tickets!TypeOK
<1>3. \A q, r \in Desk : Tickets!At(q, "idle")' \/ Tickets!At(r, "idle")' \/ q = r
  BY <1>1 DEF TicketsInv, Tickets!At
<1>4. \A q \in Desk :
        Tickets!At(q, "writing")'
          => Tickets!Passes(ticket[desk'[q].ticket].status, desk'[q].status)
  BY <1>1 DEF TicketsInv, Tickets!At
<1> QED BY <1>2, <1>3, <1>4 DEF TicketsInv, StatusStays, Tickets!Next1, Tickets!Raises,
   Tickets!Passes

\* The priorities, the times, the rows of the breaches and the job move, and no status.
LEMMA JobMoved ==
    ASSUME TicketsInv, UNCHANGED <<desk, entries>>, StatusStays,
           ticket' \in [Tickets!TicketId -> Tickets!Ticket], job' \in Tickets!Job,
           job'.stage # "idle" => job'.todo # {},
           job'.stage = "raising" => Tickets!Raises(job'.priority[Tickets!Next1'.ticket])
    PROVE  TicketsInv'
<1>1. \A p \in Desk : desk[p].ticket \in Tickets!TicketId
  BY DEF TicketsInv, Tickets!TypeOK, Tickets!Work
<1>2. \A p \in Desk :
        Tickets!At(p, "writing")'
          => Tickets!Passes(ticket'[desk'[p].ticket].status, desk'[p].status)
  BY <1>1 DEF TicketsInv, Tickets!At, StatusStays
<1>3. Tickets!TypeOK' /\ \A p, q \in Desk : Tickets!At(p, "idle")' \/ Tickets!At(q, "idle")'
        \/ p = q
  BY DEF TicketsInv, Tickets!TypeOK, Tickets!At
<1> QED BY <1>2, <1>3 DEF TicketsInv, Tickets!Raises, Tickets!Passes

\* The views up to the save.
LEMMA Asked ==
    ASSUME TicketsInv, NEW p \in Desk, NEW t \in Tickets!TicketId,
           Tickets!AskAssign(p, t) \/ Tickets!AskResolve(p, t) \/ Tickets!AskClose(p, t)
             \/ Tickets!AskEdit(p, t)
           \/ \E s \in Patched : Tickets!AskPatch(p, t, s)
    PROVE  TicketsInv' /\ StatusStays
<1> DEFINE now == ticket[t].status
           urgency == ticket[t].priority
           Of(s, c) == [stage |-> "checking", ticket |-> t, columns |-> c, status |-> s,
                        priority |-> urgency]
<1>1. now \in Tickets!Status /\ urgency \in 0..Tickets!Urgent
  BY DEF TicketsInv, Tickets!TypeOK, Tickets!Ticket
<1>2. Tickets!Loaded(t) = Of(now, "all")
  BY DEF Tickets!Loaded
<1> HIDE DEF now, urgency
<1>3. ASSUME NEW s
      PROVE  /\ [Of(now, "all") EXCEPT !.status = s] = Of(s, "all")
             /\ [Of(now, "all") EXCEPT !.status = s, !.columns = "status"] = Of(s, "status")
  <2>1. [Of(now, "all") EXCEPT !.status = s] = Of(s, "all")
    OBVIOUS
  <2>2. [Of(s, "all") EXCEPT !.columns = "status"] = Of(s, "status")
    OBVIOUS
  <2>3. [Of(now, "all") EXCEPT !.status = s, !.columns = "status"]
        = [[Of(now, "all") EXCEPT !.status = s] EXCEPT !.columns = "status"]
    <3> HIDE DEF Of
    <3> QED OBVIOUS
  <2> QED BY <2>1, <2>2, <2>3
<1>4. [Of(now, "all") EXCEPT !.status = IF @ = "OPEN" THEN "ASSIGNED" ELSE @]
      = Of(IF now = "OPEN" THEN "ASSIGNED" ELSE now, "all")
  OBVIOUS
<1> HIDE DEF Of
<1>5. PICK s \in Tickets!Status, c \in {"status", "all"} :
        /\ desk' = [desk EXCEPT ![p] = Of(s, c)]
        /\ UNCHANGED <<ticket, job, entries>> /\ \A q \in Desk : Tickets!At(q, "idle")
  <2>1. CASE Tickets!AskAssign(p, t)
    <3> DEFINE s == IF now = "OPEN" THEN "ASSIGNED" ELSE now
    <3>1. desk' = [desk EXCEPT ![p] = Of(s, "all")]
      BY <1>2, <1>4, <2>1 DEF Tickets!AskAssign, Tickets!Goto
    <3>2. s \in Tickets!Status
      BY <1>1 DEF Tickets!Status
    <3> QED BY <2>1, <3>1, <3>2 DEF Tickets!AskAssign, Tickets!Starts
  <2>2. CASE Tickets!AskResolve(p, t)
    <3>1. desk' = [desk EXCEPT ![p] = Of("RESOLVED", "status")]
      BY <1>2, <1>3, <2>2 DEF Tickets!AskResolve, Tickets!Goto
    <3> QED BY <2>2, <3>1 DEF Tickets!AskResolve, Tickets!Starts, Tickets!Status
  <2>3. CASE Tickets!AskClose(p, t)
    <3>1. desk' = [desk EXCEPT ![p] = Of("CLOSED", "status")]
      BY <1>2, <1>3, <2>3 DEF Tickets!AskClose, Tickets!Goto
    <3> QED BY <2>3, <3>1 DEF Tickets!AskClose, Tickets!Starts, Tickets!Status
  <2>4. CASE Tickets!AskEdit(p, t)
    BY <1>1, <1>2, <2>4 DEF Tickets!AskEdit, Tickets!Goto, Tickets!Starts
  <2>5. CASE \E s \in Patched : Tickets!AskPatch(p, t, s)
    <3>1. PICK s \in Patched : Tickets!AskPatch(p, t, s)
      BY <2>5
    <3>2. desk' = [desk EXCEPT ![p] = Of(s, "all")]
      BY <1>2, <1>3, <3>1 DEF Tickets!AskPatch, Tickets!Goto
    <3> QED BY <3>1, <3>2, OfficeAssumption DEF Tickets!AskPatch, Tickets!Starts
  <2> QED BY <2>1, <2>2, <2>3, <2>4, <2>5
<1> DEFINE w == Of(s, c)
<1>6. w \in Tickets!Work /\ w.stage = "checking"
  BY <1>1, <1>5 DEF Tickets!Work, Of
<1>7. desk' = [desk EXCEPT ![p] = w]
  BY <1>5
<1> HIDE DEF w
<1> QED BY <1>5, <1>6, <1>7, RequestMoved

\* The check lets the request go on to write what it may.
LEMMA Checked ==
    ASSUME TicketsInv, NEW p \in Desk, Tickets!Check(p)
    PROVE  TicketsInv' /\ StatusStays
<1>1. desk[p] \in Tickets!Work /\ Tickets!Idle \in Tickets!Work /\ ~Tickets!At(p, "idle")
  BY OfficeAssumption DEF TicketsInv, Tickets!TypeOK, Tickets!Check, Tickets!At, Tickets!Idle,
     Tickets!Work, Tickets!TicketId, Tickets!Status, Tickets!Urgent
<1>2. CASE Tickets!Passes(ticket[desk[p].ticket].status, desk[p].status)
  <2> DEFINE w == [desk[p] EXCEPT !.stage = "writing"]
  <2>1. w \in Tickets!Work /\ w.ticket = desk[p].ticket /\ w.status = desk[p].status
    BY <1>1 DEF Tickets!Work
  <2>2. desk' = [desk EXCEPT ![p] = w] /\ UNCHANGED <<ticket, job, entries>>
    BY <1>2 DEF Tickets!Check, Tickets!Goto
  <2> HIDE DEF w
  <2> QED BY <1>1, <1>2, <2>1, <2>2, RequestMoved
<1>3. CASE ~Tickets!Passes(ticket[desk[p].ticket].status, desk[p].status)
  BY <1>1, <1>3, RequestMoved DEF Tickets!Check, Tickets!Done, Tickets!Goto, Tickets!Idle
<1> QED BY <1>2, <1>3

\* A status is written that may follow the one that is there.
LEMMA Wrote ==
    ASSUME TicketsInv, NEW p \in Desk, Tickets!Write(p)
    PROVE  TicketsInv' /\ Tickets!FollowsMap
<1> DEFINE w == desk[p]
           t == w.ticket
           old == ticket[t]
           new == [old EXCEPT !.status = w.status,
                              !.priority = IF w.columns = "all" THEN w.priority ELSE @]
<1>1. w \in Tickets!Work /\ t \in Tickets!TicketId /\ old \in Tickets!Ticket
        /\ w.stage = "writing"
  BY DEF TicketsInv, Tickets!TypeOK, Tickets!Write, Tickets!At, Tickets!Work
<1>2. new \in Tickets!Ticket /\ new.status = w.status
  BY <1>1 DEF Tickets!Ticket, Tickets!Work
<1>3. /\ ticket' = [ticket EXCEPT ![t] = new] /\ desk' = [desk EXCEPT ![p] = Tickets!Idle]
      /\ UNCHANGED <<job, entries>>
  BY DEF Tickets!Write, Tickets!Done, Tickets!Goto
<1>4. w.status = old.status \/ w.status \in Tickets!Allowed[old.status]
  BY <1>1 DEF TicketsInv, Tickets!At, Tickets!Passes
<1> HIDE DEF w, t, old, new
<1>5. ticket' \in [Tickets!TicketId -> Tickets!Ticket] /\ ticket'[t] = new
      /\ \A u \in Tickets!TicketId : u # t => ticket'[u] = ticket[u]
  BY <1>1, <1>2, <1>3 DEF TicketsInv, Tickets!TypeOK
<1>6. Tickets!FollowsMap
  BY <1>2, <1>4, <1>5 DEF Tickets!FollowsMap, old
<1>7. Tickets!Idle \in Tickets!Work /\ Tickets!Idle.stage = "idle"
  BY OfficeAssumption DEF Tickets!Idle, Tickets!Work, Tickets!TicketId, Tickets!Status,
     Tickets!Urgent
<1>8. desk'[p] = Tickets!Idle /\ \A q \in Desk : q # p => desk'[q] = desk[q]
  BY <1>3 DEF TicketsInv, Tickets!TypeOK
<1>9. \A q \in Desk : Tickets!At(q, "idle")'
  BY <1>1, <1>7, <1>8 DEF TicketsInv, Tickets!At, w
<1>10. Tickets!TypeOK'
  BY <1>3, <1>5, <1>7 DEF TicketsInv, Tickets!TypeOK
<1>11. \A q \in Desk : ~Tickets!At(q, "writing")'
  BY <1>9 DEF Tickets!At
<1> QED BY <1>3, <1>6, <1>9, <1>10, <1>11 DEF TicketsInv, Tickets!Next1, Tickets!Raises

\* Time passes for a ticket.
LEMMA TimeLapsed ==
    ASSUME TicketsInv, NEW t \in Tickets!TicketId, NEW k \in Tickets!Kind, Tickets!Lapse(t, k)
    PROVE  TicketsInv' /\ StatusStays
<1> DEFINE new == [ticket[t] EXCEPT !.past = @ \cup {k}]
<1>1. new \in Tickets!Ticket /\ new.status = ticket[t].status
  BY DEF TicketsInv, Tickets!TypeOK, Tickets!Ticket
<1>2. ticket' = [ticket EXCEPT ![t] = new] /\ UNCHANGED <<job, desk, entries>>
  BY DEF Tickets!Lapse
<1> HIDE DEF new
<1>3. ticket' \in [Tickets!TicketId -> Tickets!Ticket] /\ StatusStays
  BY <1>1, <1>2 DEF TicketsInv, Tickets!TypeOK, StatusStays
<1>4. job' \in Tickets!Job /\ Tickets!Next1' = Tickets!Next1
  BY <1>2 DEF TicketsInv, Tickets!TypeOK, Tickets!Next1
<1> QED BY <1>2, <1>3, <1>4, JobMoved DEF TicketsInv

\* The job reads the tickets.
LEMMA JobStarted ==
    ASSUME TicketsInv, Tickets!StartJob
    PROVE  TicketsInv' /\ StatusStays
<1> DEFINE j == [stage |-> "looking", todo |-> Tickets!ToExamine,
                 status |-> [t \in Tickets!TicketId |-> ticket[t].status],
                 priority |-> [t \in Tickets!TicketId |-> ticket[t].priority],
                 past |-> [t \in Tickets!TicketId |-> ticket[t].past]]
<1>1. /\ [t \in Tickets!TicketId |-> ticket[t].status] \in [Tickets!TicketId -> Tickets!Status]
      /\ [t \in Tickets!TicketId |-> ticket[t].priority] \in [Tickets!TicketId -> 0..Tickets!Urgent]
      /\ [t \in Tickets!TicketId |-> ticket[t].past] \in [Tickets!TicketId -> SUBSET Tickets!Kind]
  BY DEF TicketsInv, Tickets!TypeOK, Tickets!Ticket
<1>2. Tickets!ToExamine \subseteq [ticket: Tickets!TicketId, kind: Tickets!Kind]
        /\ Tickets!ToExamine # {}
  BY DEF Tickets!ToExamine, Tickets!StartJob
<1>3. j \in Tickets!Job /\ j.stage = "looking" /\ j.todo # {}
  BY <1>1, <1>2 DEF Tickets!Job
<1>4. job' = j /\ UNCHANGED <<ticket, desk, entries>>
  BY DEF Tickets!StartJob
<1> HIDE DEF j
<1>5. ticket' \in [Tickets!TicketId -> Tickets!Ticket] /\ StatusStays
  BY <1>4 DEF TicketsInv, Tickets!TypeOK, StatusStays
<1> QED BY <1>3, <1>4, <1>5, JobMoved

\* Where the job goes on.
LEMMA JobGoesOn ==
    ASSUME TicketsInv, job.stage # "idle"
    PROVE  /\ Tickets!GoOn \in Tickets!Job /\ Tickets!GoOn.stage \in {"idle", "looking"}
           /\ Tickets!GoOn.priority = job.priority
           /\ Tickets!GoOn.stage # "idle" => Tickets!GoOn.todo # {}
<1> DEFINE stage == IF job.todo = {Tickets!Next1} THEN "idle" ELSE "looking"
           todo == job.todo \ {Tickets!Next1}
<1>1. job \in Tickets!Job /\ Tickets!Next1 \in job.todo
  BY NextExamined DEF TicketsInv, Tickets!TypeOK
<1>2. /\ todo \subseteq [ticket: Tickets!TicketId, kind: Tickets!Kind]
      /\ stage \in {"idle", "looking"}
      /\ stage # "idle" => todo # {}
  BY <1>1 DEF Tickets!Job
<1>3. Tickets!GoOn = [job EXCEPT !.stage = stage, !.todo = todo]
  BY DEF Tickets!GoOn
<1> HIDE DEF stage, todo
<1> QED BY <1>1, <1>2, <1>3 DEF Tickets!Job

\* The job looks at a ticket and records the breach.
LEMMA Looked ==
    ASSUME TicketsInv, Tickets!Look
    PROVE  TicketsInv' /\ StatusStays
<1> DEFINE t == Tickets!Next1.ticket
           k == Tickets!Next1.kind
           new == k \in job.past[t] /\ Tickets!NewBreach(t, k)
           found == [ticket[t] EXCEPT !.breached = @ \cup {k}]
<1>1. /\ job.stage = "looking" /\ UNCHANGED <<desk, entries>>
      /\ ticket' = (IF new THEN [ticket EXCEPT ![t] = found] ELSE ticket)
      /\ job' = IF new
           /\ Tickets!Raises(job.priority[t]) THEN [job EXCEPT !.stage = "raising"] ELSE Tickets!GoOn
  BY DEF Tickets!Look, Tickets!Looking
<1>2. t \in Tickets!TicketId /\ k \in Tickets!Kind /\ job \in Tickets!Job /\ job.todo # {}
  BY <1>1, NextExamined DEF TicketsInv, Tickets!TypeOK
<1>3. found \in Tickets!Ticket /\ found.status = ticket[t].status
  BY <1>2 DEF TicketsInv, Tickets!TypeOK, Tickets!Ticket
<1> HIDE DEF new, found
<1>4. ticket' \in [Tickets!TicketId -> Tickets!Ticket] /\ StatusStays
  BY <1>1, <1>2, <1>3 DEF TicketsInv, Tickets!TypeOK, StatusStays
<1>5. CASE new /\ Tickets!Raises(job.priority[t])
  <2>1. job' \in Tickets!Job /\ job'.todo = job.todo /\ job'.priority = job.priority
    BY <1>1, <1>2, <1>5 DEF Tickets!Job
  <2>2. Tickets!Next1' = Tickets!Next1
    BY <2>1 DEF Tickets!Next1
  <2> QED BY <1>1, <1>2, <1>4, <1>5, <2>1, <2>2, JobMoved
<1>6. CASE ~(new /\ Tickets!Raises(job.priority[t]))
  BY <1>1, <1>4, <1>6, JobGoesOn, JobMoved
<1> QED BY <1>5, <1>6

\* The job raises a priority.
LEMMA Raised ==
    ASSUME TicketsInv, Tickets!Raise
    PROVE  TicketsInv' /\ StatusStays
<1> DEFINE t == Tickets!Next1.ticket
           v == job.priority[t] + 1
           found == [ticket[t] EXCEPT !.priority = v]
           f == [job.priority EXCEPT ![t] = v]
<1>1. /\ job.stage = "raising" /\ UNCHANGED <<desk, entries>>
      /\ ticket' = [ticket EXCEPT ![t] = found]
      /\ job' = [Tickets!GoOn EXCEPT !.priority[t] = @ + 1]
  BY DEF Tickets!Raise, Tickets!Looking
<1>2. t \in Tickets!TicketId /\ job \in Tickets!Job
  BY <1>1, NextExamined DEF TicketsInv, Tickets!TypeOK
<1>3. v \in 0..Tickets!Urgent
  BY <1>1, <1>2 DEF TicketsInv, Tickets!Raises, Tickets!Job, Tickets!Urgent
<1>4. found \in Tickets!Ticket /\ found.status = ticket[t].status
  BY <1>2, <1>3 DEF TicketsInv, Tickets!TypeOK, Tickets!Ticket
<1>5. /\ Tickets!GoOn \in Tickets!Job /\ Tickets!GoOn.stage \in {"idle", "looking"}
      /\ Tickets!GoOn.priority = job.priority
      /\ Tickets!GoOn.stage # "idle" => Tickets!GoOn.todo # {}
  BY <1>1, JobGoesOn
<1>6. f \in [Tickets!TicketId -> 0..Tickets!Urgent]
  BY <1>2, <1>3 DEF Tickets!Job
<1>7. job' = [Tickets!GoOn EXCEPT !.priority = f]
  BY <1>1, <1>2, <1>5 DEF Tickets!Job
<1> HIDE DEF v, found, f
<1>8. ticket' \in [Tickets!TicketId -> Tickets!Ticket] /\ StatusStays
  BY <1>1, <1>2, <1>4 DEF TicketsInv, Tickets!TypeOK, StatusStays
<1>9. job' \in Tickets!Job /\ job'.stage = Tickets!GoOn.stage /\ job'.todo = Tickets!GoOn.todo
  <2> HIDE DEF Tickets!GoOn
  <2> QED BY <1>5, <1>6, <1>7 DEF Tickets!Job
<1> QED BY <1>1, <1>5, <1>8, <1>9, JobMoved

\* The job fails.
LEMMA JobFailed ==
    ASSUME TicketsInv, Tickets!FailJob
    PROVE  TicketsInv' /\ StatusStays
<1>1. Tickets!NoJob \in Tickets!Job /\ Tickets!NoJob.stage = "idle"
  BY DEF Tickets!NoJob, Tickets!Job, Tickets!Status, Tickets!Urgent
<1>2. job' = Tickets!NoJob /\ UNCHANGED <<ticket, desk, entries>>
  BY DEF Tickets!FailJob
<1>3. ticket' \in [Tickets!TicketId -> Tickets!Ticket] /\ StatusStays
  BY <1>2 DEF TicketsInv, Tickets!TypeOK, StatusStays
<1> QED BY <1>1, <1>2, <1>3, JobMoved

LEMMA TicketsStart == Tickets!Init => TicketsInv
<1> SUFFICES ASSUME Tickets!Init PROVE TicketsInv
  OBVIOUS
<1>1. Tickets!NoJob \in Tickets!Job /\ Tickets!NoJob.stage = "idle"
  BY DEF Tickets!NoJob, Tickets!Job, Tickets!Status, Tickets!Urgent
<1>2. Tickets!New \in Tickets!Ticket /\ Tickets!Idle \in Tickets!Work
        /\ Tickets!Idle.stage = "idle"
  BY OfficeAssumption DEF Tickets!New, Tickets!Ticket, Tickets!Idle, Tickets!Work,
    Tickets!TicketId,
     Tickets!Status, Tickets!Urgent
<1>3. Tickets!TypeOK
  BY <1>1, <1>2 DEF Tickets!Init, Tickets!TypeOK
<1> QED BY <1>1, <1>2, <1>3 DEF TicketsInv, Tickets!Init, Tickets!At

LEMMA TicketsStep == TicketsInv /\ [Tickets!Next]_(Tickets!vars) => TicketsInv'
    /\ Tickets!FollowsMap
<1> SUFFICES ASSUME TicketsInv, [Tickets!Next]_(Tickets!vars) PROVE TicketsInv'
                    /\ Tickets!FollowsMap
  OBVIOUS
<1>1. StatusStays => Tickets!FollowsMap
  BY DEF StatusStays, Tickets!FollowsMap
<1>2. CASE UNCHANGED Tickets!vars
  <2>1. ticket' = ticket /\ job' = job /\ desk' = desk /\ entries' = entries
    BY <1>2 DEF Tickets!vars
  <2> QED BY <2>1 DEF TicketsInv, Tickets!TypeOK, Tickets!At, Tickets!Passes, Tickets!Raises,
     Tickets!Next1, Tickets!FollowsMap
<1>3. ASSUME NEW p \in Desk, NEW t \in Tickets!TicketId,
             Tickets!AskAssign(p, t) \/ Tickets!AskResolve(p, t) \/ Tickets!AskClose(p, t)
               \/ Tickets!AskEdit(p, t)
             \/ \E s \in Patched : Tickets!AskPatch(p, t, s)
      PROVE  TicketsInv' /\ Tickets!FollowsMap
  BY <1>1, <1>3, Asked
<1>4. ASSUME NEW p \in Desk, Tickets!Check(p) \/ Tickets!Write(p)
      PROVE  TicketsInv' /\ Tickets!FollowsMap
  BY <1>1, <1>4, Checked, Wrote
<1>5. ASSUME NEW t \in Tickets!TicketId, NEW k \in Tickets!Kind, Tickets!Lapse(t, k)
      PROVE  TicketsInv' /\ Tickets!FollowsMap
  BY <1>1, <1>5, TimeLapsed
<1>6. CASE Tickets!JobNext
  BY <1>1, <1>6, JobStarted, Looked, Raised, JobFailed DEF Tickets!JobNext
<1> QED BY <1>2, <1>3, <1>4, <1>5, <1>6 DEF Tickets!Next

-----------------------------------------------------------------------------
(* The office. *)

\* The part chosen at the start is the one that moves.
LEMMA PartStarts ==
    ASSUME OfficeInit
    PROVE  /\ part = "numbers" => Numbers!Init
           /\ part = "sourcing" => Sourcing!Init
           /\ part = "approval" => Approval!Init
           /\ part = "store" => Marketplace!Init
           /\ part = "tickets" => Tickets!Init
BY DEF OfficeInit

LEMMA PartMoves ==
    ASSUME [OfficeNext]_office
    PROVE  /\ part' = part
           /\ part = "numbers" => Numbers!Next \/ UNCHANGED Numbers!vars
           /\ part = "sourcing" => Sourcing!Next \/ UNCHANGED Sourcing!vars
           /\ part = "approval" => Approval!Next \/ UNCHANGED Approval!vars
           /\ part = "store" => Marketplace!Next \/ UNCHANGED Marketplace!vars
           /\ part = "tickets" => [Tickets!Next]_(Tickets!vars)
BY DEF OfficeNext, office, Numbers!vars, Sourcing!vars, Approval!vars, Marketplace!vars,
       Tickets!vars

OfficeInv ==
    /\ part = "numbers" => NumbersInv
    /\ part = "sourcing" => SourcingInv
    /\ part = "approval" => ApprovalInv
    /\ part = "store" => MarketplaceInv
    /\ part = "tickets" => TicketsInv

LEMMA OfficeInvariant == OfficeSpec => []OfficeInv
<1>1. OfficeInit => OfficeInv
  BY PartStarts, NumbersInit, SourcingInit, ApprovalStarts, MarketplaceStarts,
     TicketsStart DEF OfficeInv
<1>2. OfficeInv /\ [OfficeNext]_office => OfficeInv'
  <2> SUFFICES ASSUME OfficeInv, [OfficeNext]_office PROVE OfficeInv'
    OBVIOUS
  <2>1. part = "numbers" => NumbersInv'
    BY PartMoves, NumbersStep, NumbersStays DEF OfficeInv
  <2>2. part = "sourcing" => SourcingInv'
    BY PartMoves, SourcingStep, SourcingStays DEF OfficeInv
  <2>3. part = "approval" => ApprovalInv'
    BY PartMoves, ApprovalStep, ApprovalStays DEF OfficeInv
  <2>4. part = "store" => MarketplaceInv'
    BY PartMoves, MarketplaceStep, MarketplaceStays DEF OfficeInv
  <2>5. part = "tickets" => TicketsInv'
    BY PartMoves, TicketsStep DEF OfficeInv
  <2> QED BY <2>1, <2>2, <2>3, <2>4, <2>5, PartMoves DEF OfficeInv
<1> QED BY <1>1, <1>2, PTL DEF OfficeSpec

\* In the office: a request that its line approved was approved at every level,
\* one at a time it follows its line, and it always waits for somebody.
THEOREM OfficeLine == OfficeSpec => []LineKept
<1>1. OfficeInv => LineKept
  BY ApprovalKept DEF OfficeInv, LineKept, ApprovalInv, LineInv
<1> QED BY <1>1, OfficeInvariant, PTL

\* In the office: at most one response is awarded, and it is ordered.
THEOREM OfficeAward == OfficeSpec => []OneAward
<1>1. OfficeInv => OneAward
  BY DEF OfficeInv, OneAward, SourcingInv
<1> QED BY <1>1, OfficeInvariant, PTL

\* In the office: one creation at a time, no document is refused for its number.
THEOREM OfficeNumbers == OfficeSpec => NeverRefused
<1> DEFINE Step == part = "numbers" => Numbers!TypeOK' /\ Numbers!RefusedRightly
<1>1. OfficeInv /\ [OfficeNext]_office => [Step]_office
  BY PartMoves, NumbersStep, NumbersStays DEF OfficeInv, NumbersInv
<1> QED BY <1>1, OfficeInvariant, PTL DEF OfficeSpec, NeverRefused

\* In the office: where nothing dies a new order of the store has a quotation once
\* no request is in progress, and what the wizard calls ordered has an ERP order.
THEOREM OfficeStore ==
    OfficeSpec => [](part = "store" => Marketplace!TypeOK /\ Marketplace!NewIsQuoted
                                       /\ Marketplace!DoneIsOrdered)
<1>1. OfficeInv => (part = "store" => Marketplace!TypeOK /\ Marketplace!NewIsQuoted
                                      /\ Marketplace!DoneIsOrdered)
  BY MarketplaceKept DEF OfficeInv
<1> QED BY <1>1, OfficeInvariant, PTL

\* In the office: with one request at a time beside the job, every change of a
\* ticket's status is one of STATUS_TRANSITIONS.
THEOREM OfficeTickets ==
    OfficeSpec => [][part = "tickets" => Tickets!TypeOK' /\ Tickets!FollowsMap]_office
<1> DEFINE Step == part = "tickets" => Tickets!TypeOK' /\ Tickets!FollowsMap
<1>1. OfficeInv /\ [OfficeNext]_office => [Step]_office
  BY PartMoves, TicketsStep DEF OfficeInv, TicketsInv
<1> QED BY <1>1, OfficeInvariant, PTL DEF OfficeSpec
=============================================================================
