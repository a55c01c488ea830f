-------------------------- MODULE Treasury_proofs --------------------------
(***************************************************************************)
(* Claims, payments and bank accounts, for any number of each, any amounts, *)
(* requests and scenes.                                                     *)
(***************************************************************************)
EXTENDS Treasury, Sums_proofs

-----------------------------------------------------------------------------
(* Types. *)

LEMMA Numbers ==
    /\ Claims \in Nat /\ Payments \in Nat /\ Accounts \in Nat
    /\ 1 \in ClaimId /\ 1 \in PaymentId /\ 1 \in AccountId
    /\ Opening \in Int /\ MostMoved \in Nat
    /\ Kind \in [ClaimId -> {"AR", "AP"}]
    /\ \A n \in Amount : n \in Nat /\ n > 0
    /\ \A n \in Claimed : n \in Nat /\ n > 0
BY TreasuryAssumption DEF ClaimId, PaymentId, AccountId

LEMMA FirstTypes ==
    /\ Idle \in Work /\ NoPayment \in Payment
    /\ Nothing \in [AccountId -> Nat] /\ Nothing \in [AccountId -> Int]
BY Numbers DEF Idle, Work, NoPayment, Payment, Nothing

\* What a claim and a payment become is a claim and a payment.
LEMMA ClaimTypes ==
    ASSUME NEW c \in Claim, NEW n \in Int
    PROVE  /\ c.paid \in Int /\ c.amount \in Nat /\ c.status \in Status
           /\ \A s \in Status : WithPaid(c, n, s) \in Claim /\ Marked(c, s) \in Claim
           /\ StatusOf(n, c.amount) \in Status \ {"OVERDUE"}
           /\ Restored(c, n) \in Claim
<1>1. /\ c.paid \in Int /\ c.amount \in Nat /\ c.status \in Status
      /\ c.live \in BOOLEAN /\ c.due \in BOOLEAN
  BY DEF Claim
<1>2. ASSUME NEW m \in Int, NEW s \in Status PROVE WithPaid(c, m, s) \in Claim
  BY <1>1, <1>2 DEF WithPaid, Claim
<1>3. \A m \in Int : StatusOf(m, c.amount) \in Status \ {"OVERDUE"}
  BY DEF StatusOf, Status
<1>4. c.paid - n \in Int
  BY <1>1
<1> QED
  BY <1>1, <1>2, <1>3, <1>4 DEF Restored, Marked

LEMMA PaymentTypes ==
    ASSUME NEW p \in Payment
    PROVE  /\ Rowed(p, "retired") \in Payment
           /\ p.claim \in ClaimId /\ p.account \in AccountId /\ p.amount \in Nat
           /\ \A a \in AccountId, n \in Nat : [p EXCEPT !.share[a] = @ + n] \in Payment
<1>1. /\ p.claim \in ClaimId /\ p.account \in AccountId /\ p.amount \in Nat
      /\ p.share \in [AccountId -> Nat] /\ p.row \in {"absent", "active", "retired"}
  BY DEF Payment
<1>2. Rowed(p, "retired") \in Payment
  BY <1>1 DEF Rowed, Payment
<1>3. ASSUME NEW a \in AccountId, NEW n \in Nat
      PROVE  [p EXCEPT !.share[a] = @ + n] \in Payment
  <2>1. [p.share EXCEPT ![a] = @ + n] \in [AccountId -> Nat]
    BY <1>1
  <2>2. [p EXCEPT !.share = [p.share EXCEPT ![a] = @ + n]] \in Payment
    BY <2>1 DEF Payment
  <2> QED BY <2>2 DEF Payment
<1> QED BY <1>1, <1>2, <1>3

LEMMA SignedType == \A kind, n : n \in Int => Signed(kind, n) \in Int
BY DEF Signed

LEMMA CreditType ==
    ASSUME balance \in [AccountId -> Int], NEW a \in AccountId, NEW n \in Int, Credit(a, n)
    PROVE  balance' \in [AccountId -> Int]
BY DEF Credit

LEMMA GotoType ==
    ASSUME session \in [Session -> Work], NEW p \in Session,
           NEW stage \in {"idle", "undoing", "moving", "editing"},
           NEW k \in PaymentId, NEW a \in AccountId, NEW b \in AccountId,
           NEW n \in Nat, NEW copy \in Int, Goto(p, stage, k, a, b, n, copy)
    PROVE  session' \in [Session -> Work]
BY DEF Goto, Work

LEMMA DoneType ==
    ASSUME session \in [Session -> Work], NEW p \in Session, Done(p)
    PROVE  session' \in [Session -> Work]
BY FirstTypes DEF Done

LEMMA AnotherType == moves \in 0..MostMoved /\ Another => moves' \in 0..MostMoved
BY Numbers DEF Another

\* The job's rows, and what it does to the claims.
LEMMA MarkType ==
    ASSUME claim \in [ClaimId -> Claim], NEW S, MarkOverdue(S)
    PROVE  claim' \in [ClaimId -> Claim]
<1>1. \A c \in ClaimId : Marked(claim[c], "OVERDUE") \in Claim
  BY ClaimTypes DEF Status
<1> QED BY <1>1 DEF MarkOverdue

LEMMA LateType == LateClaims("AR") \in SUBSET ClaimId
BY DEF LateClaims

LEMMA PayType ==
    ASSUME TypeOK, NEW c \in ClaimId, NEW k \in PaymentId, NEW a \in AccountId,
           NEW n \in Amount, Pay(c, k, a, n)
    PROVE  TypeOK'
<1> USE DEF TypeOK
<1>0. n \in Nat /\ n \in Int /\ Kind[c] \in {"AR", "AP"} /\ claim[c] \in Claim
  BY Numbers
<1>1. balance' \in [AccountId -> Int]
  BY <1>0, CreditType, SignedType DEF Pay, Register
<1>2. payment' \in [PaymentId -> Payment]
  <2>1. [row |-> "active", claim |-> c, account |-> a, amount |-> n, share |-> Nothing]
            \in Payment
    BY <1>0, FirstTypes DEF Payment
  <2> QED BY <2>1 DEF Pay, Register
<1>3. claim' \in [ClaimId -> Claim]
  <2> DEFINE paid == claim[c].paid + n
             s == IF paid > 0 THEN StatusOf(paid, claim[c].amount) ELSE claim[c].status
  <2>1. paid \in Int /\ claim[c].status \in Status
    <3>1. claim[c].paid \in Int /\ claim[c].status \in Status
      BY <1>0, ClaimTypes
    <3> QED BY <1>0, <3>1
  <2>2. StatusOf(paid, claim[c].amount) \in Status
    BY <1>0, <2>1, ClaimTypes
  <2>3. s \in Status
    BY <2>1, <2>2
  <2>4. WithPaid(claim[c], paid, s) \in Claim
    BY <1>0, <2>1, <2>3, ClaimTypes
  <2>5. claim' = [claim EXCEPT ![c] = WithPaid(claim[c], paid, s)]
    BY DEF Pay
  <2> QED BY <2>4, <2>5
<1> QED BY <1>1, <1>2, <1>3 DEF Pay

LEMMA PaymentFormsType ==
    ASSUME TypeOK, NEW p \in Session, PaymentForms(p) PROVE TypeOK'
<1> USE DEF TypeOK
<1>0. Idle \in Work /\ 1 \in AccountId
  BY FirstTypes, Numbers
<1>1. ASSUME NEW c \in ClaimId, NEW k \in PaymentId, NEW a \in AccountId,
             NEW n \in Amount, Receive(p, c, k, a, n) \/ Disburse(p, c, k, a, n)
      PROVE  TypeOK'
  BY <1>1, PayType DEF Receive, Disburse
<1>2. ASSUME NEW k \in PaymentId, AskUndo(p, k) PROVE TypeOK'
  <2>1. session' \in [Session -> Work]
    BY <1>0, <1>2, GotoType DEF AskUndo
  <2> QED BY <1>2, <2>1 DEF AskUndo
<1>3. ASSUME CommitUndo(p) PROVE TypeOK'
  <2> DEFINE k == session[p].payment
             c == payment[k].claim
  <2>1. k \in PaymentId /\ payment[k] \in Payment
    BY DEF Work
  <2>2. c \in ClaimId /\ payment[k].account \in AccountId /\ payment[k].amount \in Nat
        /\ Rowed(payment[k], "retired") \in Payment
    BY <2>1, PaymentTypes
  <2>3. Restored(claim[c], payment[k].amount) \in Claim
    <3>1. claim[c] \in Claim /\ payment[k].amount \in Int
      BY <2>2
    <3> QED BY <3>1, ClaimTypes
  <2>4. -Signed(Kind[c], payment[k].amount) \in Int
    BY <2>2 DEF Signed
  <2>5. balance' \in [AccountId -> Int]
    BY <1>3, <2>2, <2>4, CreditType DEF CommitUndo
  <2>6. session' \in [Session -> Work]
    BY <1>3, DoneType DEF CommitUndo
  <2> QED BY <1>3, <2>2, <2>3, <2>5, <2>6 DEF CommitUndo
<1>4. ASSUME FailUndo(p) PROVE TypeOK'
  BY <1>4, DoneType DEF FailUndo
<1>5. ASSUME NEW k \in PaymentId, NEW a \in AccountId, NEW n \in Amount,
             Distribute(p, k, a, n) PROVE TypeOK'
  <2>1. payment[k] \in Payment /\ n \in Nat
    BY Numbers
  <2>2. [payment[k] EXCEPT !.share[a] = @ + n] \in Payment
    BY <2>1, PaymentTypes
  <2>3. payment' = [payment EXCEPT ![k] = [payment[k] EXCEPT !.share[a] = @ + n]]
    BY <1>5 DEF Distribute
  <2>4. Signed(Kind[payment[k].claim], n) \in Int
    BY <2>1 DEF Signed
  <2>5. balance' \in [AccountId -> Int]
    BY <1>5, <2>4, CreditType DEF Distribute
  <2>6. moves' \in 0..MostMoved
    BY <1>5, AnotherType DEF Distribute
  <2> QED BY <1>5, <2>2, <2>3, <2>5, <2>6 DEF Distribute
<1>6. ASSUME NEW c \in ClaimId, RetireClaim(p, c) PROVE TypeOK'
  <2>1. [claim[c] EXCEPT !.live = FALSE] \in Claim
    BY DEF Claim
  <2> QED BY <1>6, <2>1 DEF RetireClaim
<1> QED
  BY <1>1, <1>2, <1>3, <1>4, <1>5, <1>6 DEF PaymentForms

LEMMA AccountFormsType ==
    ASSUME TypeOK, NEW p \in Session, AccountForms(p) PROVE TypeOK'
<1> USE DEF TypeOK
<1>0. 1 \in PaymentId /\ session[p] \in Work
  BY Numbers
<1>1. ASSUME NEW a \in AccountId, NEW b \in AccountId, NEW n \in Amount,
             AskTransfer(p, a, b, n) PROVE TypeOK'
  <2>1. n \in Nat
    BY Numbers
  <2>2. moved' \in [AccountId -> Int]
    BY <1>1, <2>1 DEF AskTransfer
  <2>3. session' \in [Session -> Work]
    BY <1>0, <1>1, <2>1, GotoType DEF AskTransfer
  <2>4. moves' \in 0..MostMoved
    BY <1>1, AnotherType DEF AskTransfer
  <2> QED BY <1>1, <2>2, <2>3, <2>4 DEF AskTransfer
<1>2. ASSUME CommitTransfer(p) PROVE TypeOK'
  <2>1. session[p].from \in AccountId /\ session[p].to \in AccountId
        /\ session[p].amount \in Nat
    BY <1>0 DEF Work
  <2>2. balance' \in [AccountId -> Int]
    BY <1>2, <2>1 DEF CommitTransfer
  <2>3. session' \in [Session -> Work]
    BY <1>2, DoneType DEF CommitTransfer
  <2> QED BY <1>2, <2>2, <2>3 DEF CommitTransfer
<1>3. ASSUME NEW a \in AccountId, AskEdit(p, a) PROVE TypeOK'
  <2>1. session' \in [Session -> Work]
    BY <1>0, <1>3, GotoType DEF AskEdit
  <2>2. moves' \in 0..MostMoved
    BY <1>3, AnotherType DEF AskEdit
  <2> QED BY <1>3, <2>1, <2>2 DEF AskEdit
<1>4. ASSUME CommitEdit(p) PROVE TypeOK'
  <2>1. session[p].copy \in Int
    BY <1>0 DEF Work
  <2>2. session' \in [Session -> Work]
    BY <1>4, DoneType DEF CommitEdit
  <2> QED BY <1>4, <2>1, <2>2 DEF CommitEdit
<1>5. ASSUME Die(p) PROVE TypeOK'
  BY <1>5, DoneType DEF Die
<1> QED
  BY <1>1, <1>2, <1>3, <1>4, <1>5 DEF AccountForms

LEMMA OverdueType == TypeOK /\ Overdue => TypeOK'
<1> USE DEF TypeOK
<1> SUFFICES ASSUME TypeOK, Overdue PROVE TypeOK'
  OBVIOUS
<1>1. ASSUME NEW c \in ClaimId, FallDue(c) PROVE TypeOK'
  <2>1. [claim[c] EXCEPT !.due = TRUE] \in Claim
    BY DEF Claim
  <2> QED BY <1>1, <2>1 DEF FallDue
<1>2. ASSUME NEW p \in Session, ListReceivables(p) \/ ListPayables(p) PROVE TypeOK'
  BY <1>2, MarkType DEF ListReceivables, ListPayables
<1>3. ASSUME NightlyList PROVE TypeOK'
  BY <1>3, LateType DEF NightlyList
<1>4. ASSUME NightlyReceivables PROVE TypeOK'
  BY <1>4, MarkType DEF NightlyReceivables
<1>5. ASSUME NightlyPayables PROVE TypeOK'
  BY <1>5, MarkType DEF NightlyPayables
<1>6. ASSUME NightlyDies PROVE TypeOK'
  BY <1>6 DEF NightlyDies
<1> QED
  BY <1>1, <1>2, <1>3, <1>4, <1>5, <1>6 DEF Overdue

LEMMA InitType == Init => TypeOK
<1>1. ASSUME NEW n \in Claimed
      PROVE  [live |-> TRUE, amount |-> n, paid |-> 0, status |-> "PENDING",
              due |-> FALSE] \in Claim
  BY Numbers DEF Claim, Status
<1>2. Init => claim \in [ClaimId -> Claim]
  BY <1>1 DEF Init
<1> QED
  BY <1>2, FirstTypes, Numbers DEF Init, TypeOK

LEMMA NextType == TypeOK /\ [Next]_vars => TypeOK'
<1>1. TypeOK /\ UNCHANGED vars => TypeOK'
  BY DEF TypeOK, vars
<1> QED
  BY <1>1, PaymentFormsType, AccountFormsType, OverdueType DEF Next

\* Every row keeps its type.
THEOREM Typed == Spec => []TypeOK
BY InitType, NextType, PTL DEF Spec

-----------------------------------------------------------------------------
(* The books agree. *)

\* What the accounts hold together.
Total == SumTo(balance, Accounts)

LEMMA CreditTotal ==
    ASSUME balance \in [AccountId -> Int], NEW a \in AccountId, NEW n \in Int, Credit(a, n)
    PROVE  Total' = Total + n /\ Total \in Int
<1> DEFINE v == balance[a] + n
<1>1. v \in Int /\ balance' = [balance EXCEPT ![a] = v] /\ balance[a] \in Int
      /\ Accounts \in 0..Accounts /\ Accounts \in Nat /\ ~(Accounts < a)
      /\ balance \in [1..Accounts -> Int] /\ a \in 1..Accounts
  BY Numbers DEF Credit, AccountId
<1>2. v = balance[a] + n
  OBVIOUS
<1> HIDE DEF v
<1>3. \A i \in 0..Accounts : SumTo([balance EXCEPT ![a] = v], i)
        = IF i < a THEN SumTo(balance, i) ELSE SumTo(balance, i) - balance[a] + v
  BY <1>1, SumToUpdate
<1>4. SumTo([balance EXCEPT ![a] = v], Accounts) = SumTo(balance, Accounts) - balance[a] + v
  BY <1>1, <1>3
<1>5. SumTo(balance, Accounts) \in Int
  BY <1>1, SumToStep
<1> QED BY <1>1, <1>2, <1>4, <1>5 DEF Total

\* A claim of which another amount is paid changes what the claims say by as
\* much.
LEMMA SettledTotal ==
    ASSUME claim \in [ClaimId -> Claim], NEW c \in ClaimId, NEW w \in Claim,
           claim' = [claim EXCEPT ![c] = w]
    PROVE  SumTo(Settled', Claims)
             = SumTo(Settled, Claims) + Signed(Kind[c], w.paid - claim[c].paid)
           /\ SumTo(Settled, Claims) \in Int
<1> DEFINE v == Signed(Kind[c], w.paid)
<1>1. \A d \in ClaimId : claim[d].paid \in Int
  BY ClaimTypes
<1>2. w.paid \in Int /\ v \in Int
  <2>1. w.paid \in Int
    BY DEF Claim
  <2> QED BY <2>1, SignedType
<1>3. Settled \in [1..Claims -> Int] /\ c \in 1..Claims /\ Claims \in Nat
      /\ Claims \in 0..Claims /\ ~(Claims < c)
  BY <1>1, SignedType, Numbers DEF Settled, ClaimId
<1>4. Settled' = [Settled EXCEPT ![c] = v]
  BY <1>3 DEF Settled, ClaimId
<1>5. Settled[c] = Signed(Kind[c], claim[c].paid)
  BY DEF Settled
<1>6. v - Settled[c] = Signed(Kind[c], w.paid - claim[c].paid)
  BY <1>1, <1>2, <1>5 DEF Signed
<1> HIDE DEF v
<1>7. \A i \in 0..Claims : SumTo([Settled EXCEPT ![c] = v], i)
        = IF i < c THEN SumTo(Settled, i) ELSE SumTo(Settled, i) - Settled[c] + v
  BY <1>2, <1>3, SumToUpdate
<1>8. SumTo(Settled', Claims) = SumTo(Settled, Claims) - Settled[c] + v
  BY <1>3, <1>4, <1>7
<1>9. SumTo(Settled, Claims) \in Int /\ Settled[c] \in Int
  BY <1>3, SumToStep
<1> QED BY <1>2, <1>6, <1>8, <1>9

\* What the claims say depends on what was paid of each only.
LEMMA SettledSame ==
    ASSUME claim \in [ClaimId -> Claim], \A c \in ClaimId : claim'[c].paid = claim[c].paid
    PROVE  Settled' = Settled
BY DEF Settled

LEMMA MarkSettles ==
    ASSUME claim \in [ClaimId -> Claim], NEW S, MarkOverdue(S)
    PROVE  \A c \in ClaimId : claim'[c].paid = claim[c].paid
                               /\ claim'[c].amount = claim[c].amount
BY DEF MarkOverdue, Marked, WithPaid

\* Only the form of an account writes a balance it did not change, and it is in
\* use only in the scenes that have it; a transfer is between two accounts.
EditsInScene ==
    \A p \in Session : /\ At(p, "editing") => "edit" \in scene
                       /\ At(p, "moving") => session[p].from # session[p].to
Books == BooksAgree /\ EditsInScene

\* The same amount, signed by the kind of the claim, enters both sides.
LEMMA BothSides ==
    ASSUME TypeOK, BooksAgree, NEW c \in ClaimId, NEW w \in Claim, NEW a \in AccountId,
           claim' = [claim EXCEPT ![c] = w], scene' = scene,
           Credit(a, Signed(Kind[c], w.paid - claim[c].paid))
    PROVE  BooksAgree'
<1>1. w.paid - claim[c].paid \in Int
  <2>1. claim[c] \in Claim
    BY DEF TypeOK
  <2>2. w.paid \in Int /\ claim[c].paid \in Int
    BY <2>1 DEF Claim
  <2> QED BY <2>2
<1>2. Signed(Kind[c], w.paid - claim[c].paid) \in Int
  BY <1>1, SignedType
<1>3. Total' = Total + Signed(Kind[c], w.paid - claim[c].paid) /\ Total \in Int
  BY <1>2, CreditTotal DEF TypeOK
<1>4. SumTo(Settled', Claims)
        = SumTo(Settled, Claims) + Signed(Kind[c], w.paid - claim[c].paid)
      /\ SumTo(Settled, Claims) \in Int
  BY SettledTotal DEF TypeOK
<1> DEFINE base == SumTo([b \in AccountId |-> Opening], Accounts)
<1>5. base \in Int
  <2>1. [b \in AccountId |-> Opening] \in [1..Accounts -> Int] /\ Accounts \in 0..Accounts
        /\ Accounts \in Nat
    BY Numbers DEF AccountId
  <2> QED BY <2>1, SumToStep
<1> HIDE DEF base
<1>6. BooksAgree = (scene \cap {"distribute", "edit"} = {} =>
                       Total = base + SumTo(Settled, Claims))
  BY DEF BooksAgree, Total, base
<1>7. BooksAgree' = (scene \cap {"distribute", "edit"} = {} =>
                       Total' = base + SumTo(Settled', Claims))
  BY DEF BooksAgree, Total, base
<1> QED BY <1>2, <1>3, <1>4, <1>5, <1>6, <1>7

LEMMA FrameBooks ==
    ASSUME BooksAgree, claim \in [ClaimId -> Claim], balance' = balance, scene' = scene,
           \A c \in ClaimId : claim'[c].paid = claim[c].paid
    PROVE  BooksAgree'
<1>1. Settled' = Settled
  BY SettledSame
<1> QED BY <1>1 DEF BooksAgree

LEMMA PayBooks ==
    ASSUME TypeOK, BooksAgree, NEW c \in ClaimId, NEW k \in PaymentId, NEW a \in AccountId,
           NEW n \in Amount, Pay(c, k, a, n)
    PROVE  BooksAgree'
<1> DEFINE paid == claim[c].paid + n
           s == IF paid > 0 THEN StatusOf(paid, claim[c].amount) ELSE claim[c].status
           w == WithPaid(claim[c], paid, s)
<1>1. claim[c] \in Claim /\ n \in Int /\ claim[c].paid \in Int /\ claim[c].status \in Status
  <2>1. claim[c] \in Claim
    BY DEF TypeOK
  <2> QED BY <2>1, Numbers, ClaimTypes
<1>2. paid \in Int
  BY <1>1
<1>3. s \in Status
  BY <1>1, <1>2, ClaimTypes
<1>4. w \in Claim /\ w.paid = paid
  BY <1>1, <1>2, <1>3, ClaimTypes DEF WithPaid
<1>5. paid - claim[c].paid = n
  BY <1>1
<1>6. claim' = [claim EXCEPT ![c] = w] /\ scene' = scene /\ Credit(a, Signed(Kind[c], n))
  BY DEF Pay, Register
<1> HIDE DEF w, s, paid
<1> QED BY <1>4, <1>5, <1>6, BothSides

LEMMA UndoBooks ==
    ASSUME TypeOK, BooksAgree, NEW p \in Session, CommitUndo(p)
    PROVE  BooksAgree'
<1> DEFINE k == session[p].payment
           c == payment[k].claim
           n == payment[k].amount
           w == Restored(claim[c], n)
<1>1. payment[k] \in Payment /\ k \in PaymentId
  BY DEF TypeOK, Work
<1>2. c \in ClaimId /\ n \in Nat /\ payment[k].account \in AccountId
  BY <1>1, PaymentTypes
<1>3. claim[c] \in Claim /\ n \in Int
  BY <1>2 DEF TypeOK
<1>4. w \in Claim /\ w.paid = claim[c].paid - n /\ claim[c].paid \in Int
  BY <1>3, ClaimTypes DEF Restored, WithPaid
<1>5. Signed(Kind[c], w.paid - claim[c].paid) = -Signed(Kind[c], n)
  BY <1>3, <1>4 DEF Signed
<1>6. claim' = [claim EXCEPT ![c] = w] /\ scene' = scene
      /\ Credit(payment[k].account, -Signed(Kind[c], n))
  BY DEF CommitUndo
<1> HIDE DEF w
<1> QED BY <1>2, <1>4, <1>5, <1>6, BothSides

LEMMA TransferBooks ==
    ASSUME TypeOK, Books, NEW p \in Session, CommitTransfer(p)
    PROVE  BooksAgree'
<1> DEFINE w == session[p]
           u == balance[w.from] - w.amount
           b == [balance EXCEPT ![w.from] = u]
           v == b[w.to] + w.amount
<1>1. w.from \in 1..Accounts /\ w.to \in 1..Accounts /\ w.amount \in Int
  <2>1. w \in Work
    BY DEF TypeOK
  <2>2. w.from \in AccountId /\ w.to \in AccountId /\ w.amount \in Nat
    BY <2>1 DEF Work
  <2> QED BY <2>2 DEF AccountId
<1>2. balance \in [1..Accounts -> Int]
  BY DEF TypeOK, AccountId
<1>3. balance[w.from] \in Int /\ u \in Int
  BY <1>1, <1>2
<1>4. b \in [1..Accounts -> Int]
  BY <1>2, <1>3
<1>5. b[w.to] \in Int /\ v \in Int
  BY <1>1, <1>4
<1>6. balance' = [b EXCEPT ![w.to] = v]
  <2>1. w.from # w.to
    BY DEF Books, CommitTransfer, EditsInScene
  <2>2. b[w.to] = balance[w.to]
    BY <1>1, <1>2, <2>1
  <2> QED BY <1>1, <1>2, <2>1, <2>2 DEF CommitTransfer
<1>7. Accounts \in Nat /\ Accounts \in 0..Accounts /\ ~(Accounts < w.from) /\ ~(Accounts < w.to)
  BY <1>1, Numbers
<1>8. b = [balance EXCEPT ![w.from] = u]
  OBVIOUS
<1>a. u = balance[w.from] - w.amount /\ v = b[w.to] + w.amount
  OBVIOUS
<1> HIDE DEF w, u, v, b
<1>9. \A i \in 0..Accounts : SumTo([balance EXCEPT ![w.from] = u], i)
        = IF i < w.from THEN SumTo(balance, i) ELSE SumTo(balance, i) - balance[w.from] + u
  BY <1>1, <1>2, <1>3, <1>7, SumToUpdate
<1>10. \A i \in 0..Accounts : SumTo([b EXCEPT ![w.to] = v], i)
        = IF i < w.to THEN SumTo(b, i) ELSE SumTo(b, i) - b[w.to] + v
  BY <1>1, <1>4, <1>5, <1>7, SumToUpdate
<1>11. SumTo(b, Accounts) = SumTo(balance, Accounts) - balance[w.from] + u
  BY <1>7, <1>8, <1>9
<1>12. SumTo(balance', Accounts) = SumTo(b, Accounts) - b[w.to] + v
  BY <1>6, <1>7, <1>10
<1>13. SumTo(balance, Accounts) \in Int /\ SumTo(b, Accounts) \in Int
  BY <1>2, <1>4, <1>7, SumToStep
<1>14. SumTo(balance', Accounts) = SumTo(balance, Accounts)
  BY <1>1, <1>3, <1>5, <1>a, <1>11, <1>12, <1>13
<1>15. Settled' = Settled /\ scene' = scene
  BY DEF CommitTransfer, Settled
<1> QED BY <1>14, <1>15 DEF Books, BooksAgree

\* A request keeps the scene, and edits only in a scene that has edits.
LEMMA DoneEdits ==
    ASSUME TypeOK, EditsInScene, NEW p \in Session, scene' = scene, Done(p)
    PROVE  EditsInScene'
BY DEF TypeOK, EditsInScene, Done, Idle, At

LEMMA GotoEdits ==
    ASSUME TypeOK, EditsInScene, NEW p \in Session, scene' = scene, NEW stage,
           stage = "editing" => "edit" \in scene,
           NEW k, NEW a, NEW b, stage = "moving" => a # b, NEW n, NEW copy, Goto(p, stage, k, a, b, n, copy)
    PROVE  EditsInScene'
BY DEF TypeOK, EditsInScene, Goto, At

LEMMA SameEdits ==
    ASSUME EditsInScene, scene' = scene, session' = session
    PROVE  EditsInScene'
BY DEF EditsInScene, At

LEMMA RequestsBooks ==
    ASSUME TypeOK, Books, NEW p \in Session, PaymentForms(p) \/ AccountForms(p)
    PROVE  Books'
<1>0. BooksAgree /\ claim \in [ClaimId -> Claim]
  BY DEF Books, TypeOK
<1>1. ASSUME NEW c \in ClaimId, NEW k \in PaymentId, NEW a \in AccountId,
             NEW n \in Amount, Receive(p, c, k, a, n) \/ Disburse(p, c, k, a, n)
      PROVE  Books'
  <2>1. BooksAgree'
    BY <1>0, <1>1, PayBooks DEF Receive, Disburse
  <2>2. session' = session /\ scene' = scene
    BY <1>1 DEF Receive, Disburse, Pay
  <2> QED BY <2>1, <2>2, SameEdits DEF Books
<1>2. ASSUME NEW k \in PaymentId, AskUndo(p, k) PROVE Books'
  <2>1. BooksAgree'
    BY <1>0, <1>2, FrameBooks DEF AskUndo
  <2> QED BY <1>2, <2>1, GotoEdits DEF AskUndo, Books
<1>3. ASSUME CommitUndo(p) PROVE Books'
  <2>1. BooksAgree'
    BY <1>0, <1>3, UndoBooks
  <2> QED BY <1>3, <2>1, DoneEdits DEF CommitUndo, Books
<1>4. ASSUME FailUndo(p) PROVE Books'
  <2>1. BooksAgree'
    BY <1>0, <1>4, FrameBooks DEF FailUndo
  <2> QED BY <1>4, <2>1, DoneEdits DEF FailUndo, Books
<1>5. ASSUME NEW k \in PaymentId, NEW a \in AccountId, NEW n \in Amount,
             Distribute(p, k, a, n) PROVE Books'
  BY <1>5, SameEdits DEF Distribute, Starts, Books, BooksAgree
<1>6. ASSUME NEW c \in ClaimId, RetireClaim(p, c) PROVE Books'
  <2>1. \A d \in ClaimId : claim'[d].paid = claim[d].paid
    BY <1>0, <1>6 DEF RetireClaim, Claim
  <2>2. BooksAgree'
    BY <1>0, <1>6, <2>1, FrameBooks DEF RetireClaim
  <2> QED BY <1>6, <2>2, SameEdits DEF RetireClaim, Books
<1>7. ASSUME NEW a \in AccountId, NEW b \in AccountId, NEW n \in Amount,
             AskTransfer(p, a, b, n) PROVE Books'
  <2>1. BooksAgree'
    BY <1>0, <1>7, FrameBooks DEF AskTransfer
  <2> QED BY <1>7, <2>1, GotoEdits DEF AskTransfer, Books
<1>8. ASSUME CommitTransfer(p) PROVE Books'
  <2>1. BooksAgree'
    BY <1>8, TransferBooks
  <2> QED BY <1>8, <2>1, DoneEdits DEF CommitTransfer, Books
<1>9. ASSUME NEW a \in AccountId, AskEdit(p, a) PROVE Books'
  <2>1. BooksAgree'
    BY <1>0, <1>9, FrameBooks DEF AskEdit
  <2> QED BY <1>9, <2>1, GotoEdits DEF AskEdit, Starts, Books
<1>10. ASSUME CommitEdit(p) PROVE Books'
  <2>1. "edit" \in scene /\ scene' = scene
    BY <1>10 DEF CommitEdit, Books, EditsInScene
  <2>2. BooksAgree'
    BY <2>1 DEF BooksAgree
  <2> QED BY <1>10, <2>1, <2>2, DoneEdits DEF CommitEdit, Books
<1>11. ASSUME Die(p) PROVE Books'
  <2>1. BooksAgree'
    BY <1>0, <1>11, FrameBooks DEF Die
  <2> QED BY <1>11, <2>1, DoneEdits DEF Die, Books
<1> QED
  BY <1>1, <1>2, <1>3, <1>4, <1>5, <1>6, <1>7, <1>8, <1>9, <1>10, <1>11
     DEF PaymentForms, AccountForms

LEMMA OverdueBooks == TypeOK /\ Books /\ Overdue => Books'
<1> SUFFICES ASSUME TypeOK, Books, Overdue PROVE Books'
  OBVIOUS
<1>1. session' = session /\ balance' = balance /\ scene' = scene
  BY DEF Overdue, FallDue, ListReceivables, ListPayables, NightlyList,
         NightlyReceivables, NightlyPayables, NightlyDies
<1>2. claim \in [ClaimId -> Claim] /\ BooksAgree
  BY DEF TypeOK, Books
<1>3. \A d \in ClaimId : claim'[d].paid = claim[d].paid
  <2>1. ASSUME NEW c \in ClaimId, FallDue(c) PROVE \A d \in ClaimId : claim'[d].paid = claim[d].paid
    BY <1>2, <2>1 DEF FallDue, Claim
  <2>2. ASSUME NEW S, MarkOverdue(S) PROVE \A d \in ClaimId : claim'[d].paid = claim[d].paid
    BY <1>2, <2>2, MarkSettles
  <2>3. (NightlyList \/ NightlyDies) => claim' = claim
    BY DEF NightlyList, NightlyDies
  <2> QED
    BY <2>1, <2>2, <2>3 DEF Overdue, ListReceivables, ListPayables, NightlyReceivables,
                            NightlyPayables
<1>4. BooksAgree'
  BY <1>1, <1>2, <1>3, FrameBooks
<1> QED BY <1>1, <1>4, SameEdits DEF Books

LEMMA InitBooks == Init => Books
<1> SUFFICES ASSUME Init PROVE Books
  OBVIOUS
<1>1. balance = [a \in AccountId |-> Opening]
  BY DEF Init
<1>2. Settled \in [1..Claims -> Int] /\ \A c \in 1..Claims : Settled[c] = 0
  BY DEF Init, Settled, Signed, ClaimId
<1>3. SumTo(Settled, Claims) = 0
  BY <1>2, Numbers, SumToZero
<1>4. SumTo(balance, Accounts) \in Int
  BY <1>1, Numbers, SumToStep DEF AccountId
<1>5. BooksAgree
  BY <1>1, <1>3, <1>4 DEF BooksAgree
<1> QED BY <1>5 DEF Init, Books, EditsInScene, At, Idle

LEMMA BooksStep == TypeOK /\ Books /\ [Next]_vars => Books'
<1>1. Books /\ UNCHANGED vars => Books'
  BY DEF Books, BooksAgree, Settled, EditsInScene, At, vars
<1> QED BY <1>1, RequestsBooks, OverdueBooks DEF Next

\* Payments and their restorations, racing and dying, undone twice or not, move
\* claims and accounts by the same amounts: the accounts together hold what the
\* claims say was received and paid.
THEOREM BooksBalance == Spec => []BooksAgree
<1>1. Books => BooksAgree
  BY DEF Books
<1> QED
  BY <1>1, BooksStep, InitBooks, InitType, NextType, PTL DEF Spec

-----------------------------------------------------------------------------
(* What PAID says of a payable. *)

\* Claims ask for something, and the nightly job lists receivables only.
Payables ==
    /\ SettledExact
    /\ \A c \in ClaimId : claim[c].amount > 0
    /\ \A c \in job.rows : Kind[c] = "AR"

LEMMA PayablesKept ==
    ASSUME TypeOK, Payables, job' = job, NEW c \in ClaimId, NEW w \in Claim,
           claim' = [claim EXCEPT ![c] = w], w.amount = claim[c].amount,
           w.status = "PAID" <=> w.paid >= w.amount
    PROVE  Payables'
<1>1. \A d \in ClaimId : claim'[d] = IF d = c THEN w ELSE claim[d]
  BY DEF TypeOK
<1> QED BY <1>1 DEF Payables, SettledExact

\* The same paid amount, and PAID nowhere it was not.
LEMMA PayablesFrame ==
    ASSUME Payables, \A c \in job'.rows : Kind[c] = "AR",
           \A c \in ClaimId : /\ claim'[c].paid = claim[c].paid
                              /\ claim'[c].amount = claim[c].amount
                              /\ Kind[c] = "AP" => (claim'[c].status = "PAID"
                                                     <=> claim[c].status = "PAID")
    PROVE  Payables'
BY DEF Payables, SettledExact

LEMMA PayPayables ==
    ASSUME TypeOK, Payables, NEW c \in ClaimId, NEW k \in PaymentId,
           NEW a \in AccountId, NEW n \in Amount, Kind[c] = "AP", Pay(c, k, a, n)
    PROVE  Payables'
<1> DEFINE paid == claim[c].paid + n
           s == IF paid > 0 THEN StatusOf(paid, claim[c].amount) ELSE claim[c].status
           w == WithPaid(claim[c], paid, s)
<1>1. claim[c] \in Claim /\ n \in Nat /\ n > 0
  BY Numbers DEF TypeOK
<1>2. claim[c].paid \in Int /\ claim[c].amount \in Nat /\ claim[c].status \in Status
  BY <1>1 DEF Claim
<1>3. w \in Claim
  <2>1. paid \in Int
    BY <1>1, <1>2
  <2>2. s \in Status
    BY <1>1, <1>2, <2>1, ClaimTypes
  <2> QED BY <1>1, <2>1, <2>2, ClaimTypes
<1>4. w.amount = claim[c].amount /\ w.paid = paid /\ w.status = s
  BY DEF WithPaid
<1>5. claim[c].amount > 0 /\ (claim[c].status = "PAID" <=> claim[c].paid >= claim[c].amount)
  BY DEF Payables, SettledExact
<1>6. s = "PAID" <=> paid >= claim[c].amount
  BY <1>1, <1>2, <1>5 DEF StatusOf
<1>7. claim' = [claim EXCEPT ![c] = w] /\ job' = job
  BY DEF Pay
<1> HIDE DEF w, s, paid
<1> QED BY <1>3, <1>4, <1>6, <1>7, PayablesKept

\* A payment of a receivable, whatever its status says.
LEMMA PayReceivable ==
    ASSUME TypeOK, Payables, NEW c \in ClaimId, NEW k \in PaymentId,
           NEW a \in AccountId, NEW n \in Amount, Kind[c] = "AR", Pay(c, k, a, n)
    PROVE  Payables'
<1>1. \A d \in ClaimId : /\ claim'[d].amount = claim[d].amount
                         /\ d # c => claim'[d] = claim[d]
  BY DEF Pay, TypeOK, WithPaid
<1>2. job' = job
  BY DEF Pay
<1> QED BY <1>1, <1>2 DEF Payables, SettledExact

LEMMA UndoPayables ==
    ASSUME TypeOK, Payables, NEW p \in Session, CommitUndo(p)
    PROVE  Payables'
<1> DEFINE k == session[p].payment
           c == payment[k].claim
           n == payment[k].amount
           w == Restored(claim[c], n)
<1>1. payment[k] \in Payment /\ k \in PaymentId
  BY DEF TypeOK, Work
<1>2. c \in ClaimId /\ n \in Nat
  BY <1>1, PaymentTypes
<1>3. claim[c] \in Claim /\ n \in Int
  BY <1>2 DEF TypeOK
<1>4. claim[c].paid \in Int /\ claim[c].amount \in Nat /\ w \in Claim
  BY <1>3, ClaimTypes
<1>5. w.paid = claim[c].paid - n /\ w.amount = claim[c].amount
      /\ w.status = StatusOf(claim[c].paid - n, claim[c].amount)
  BY DEF Restored, WithPaid
<1>6. w.status = "PAID" <=> w.paid >= w.amount
  BY <1>3, <1>4, <1>5 DEF StatusOf
<1>7. claim' = [claim EXCEPT ![c] = w] /\ job' = job
  BY DEF CommitUndo
<1> HIDE DEF w
<1> QED BY <1>2, <1>4, <1>5, <1>6, <1>7, PayablesKept

\* Marking rows that are receivables or late.
LEMMA MarkPayables ==
    ASSUME TypeOK, Payables, NEW S \in SUBSET ClaimId, MarkOverdue(S),
           \A c \in S : Kind[c] = "AR" \/ claim[c].status \in {"PENDING", "PARTIAL"},
           \A c \in job'.rows : Kind[c] = "AR"
    PROVE  Payables'
<1>1. \A c \in ClaimId : claim'[c] = IF c \in S THEN Marked(claim[c], "OVERDUE") ELSE claim[c]
  BY DEF MarkOverdue
<1>2. \A c \in ClaimId : /\ claim'[c].paid = claim[c].paid
                         /\ claim'[c].amount = claim[c].amount
                         /\ c \in S => claim'[c].status = "OVERDUE"
                         /\ c \notin S => claim'[c].status = claim[c].status
  <2> TAKE c \in ClaimId
  <2>1. claim'[c] = IF c \in S THEN Marked(claim[c], "OVERDUE") ELSE claim[c]
    BY <1>1
  <2>2. CASE c \in S
    <3>1. claim'[c] = WithPaid(claim[c], claim[c].paid, "OVERDUE")
      BY <2>1, <2>2 DEF Marked
    <3> QED BY <2>2, <3>1 DEF WithPaid
  <2>3. CASE c \notin S
    BY <2>1, <2>3
  <2> QED BY <2>2, <2>3
<1>3. \A c \in ClaimId : Kind[c] = "AP" =>
        (claim'[c].status = "PAID" <=> claim[c].status = "PAID")
  BY <1>2, Numbers
<1> QED BY <1>2, <1>3, PayablesFrame

LEMMA PayablesStep == TypeOK /\ Payables /\ [Next]_vars => Payables'
<1> SUFFICES ASSUME TypeOK, Payables, [Next]_vars PROVE Payables'
  OBVIOUS
<1>0. \A c \in job.rows : Kind[c] = "AR"
  BY DEF Payables
<1>1. ASSUME claim' = claim, job' = job PROVE Payables'
  BY <1>1 DEF Payables, SettledExact
<1>2. ASSUME NEW p \in Session, PaymentForms(p) PROVE Payables'
  <2>1. ASSUME NEW c \in ClaimId, NEW k \in PaymentId, NEW a \in AccountId,
               NEW n \in Amount, Receive(p, c, k, a, n) \/ Disburse(p, c, k, a, n)
        PROVE  Payables'
    BY <2>1, PayPayables, PayReceivable DEF Receive, Disburse
  <2>2. ASSUME CommitUndo(p) PROVE Payables'
    BY <2>2, UndoPayables
  <2>3. ASSUME NEW c \in ClaimId, RetireClaim(p, c) PROVE Payables'
    <3>1. job' = job /\ \A d \in ClaimId : /\ claim'[d].paid = claim[d].paid
                                           /\ claim'[d].amount = claim[d].amount
                                           /\ claim'[d].status = claim[d].status
      BY <2>3 DEF RetireClaim, TypeOK, Claim
    <3> QED BY <1>0, <3>1, PayablesFrame
  <2>4. ASSUME NEW k \in PaymentId, AskUndo(p, k) PROVE Payables'
    BY <1>1, <2>4 DEF AskUndo
  <2>5. ASSUME FailUndo(p) PROVE Payables'
    BY <1>1, <2>5 DEF FailUndo
  <2>6. ASSUME NEW k \in PaymentId, NEW a \in AccountId, NEW n \in Amount,
               Distribute(p, k, a, n) PROVE Payables'
    BY <1>1, <2>6 DEF Distribute
  <2> QED BY <1>2, <2>1, <2>2, <2>3, <2>4, <2>5, <2>6 DEF PaymentForms
<1>3. ASSUME NEW p \in Session, AccountForms(p) PROVE Payables'
  BY <1>1, <1>3 DEF AccountForms, AskTransfer, CommitTransfer, AskEdit, CommitEdit, Die
<1>4. ASSUME Overdue PROVE Payables'
  <2>1. ASSUME NEW c \in ClaimId, FallDue(c) PROVE Payables'
    <3>1. job' = job /\ \A d \in ClaimId : /\ claim'[d].paid = claim[d].paid
                                           /\ claim'[d].amount = claim[d].amount
                                           /\ claim'[d].status = claim[d].status
      BY <2>1 DEF FallDue, TypeOK, Claim
    <3> QED BY <1>0, <3>1, PayablesFrame
  <2>2. ASSUME NEW kind, MarkOverdue(LateClaims(kind)), \A c \in job'.rows : Kind[c] = "AR"
        PROVE  Payables'
    <3>1. LateClaims(kind) \in SUBSET ClaimId
          /\ \A c \in LateClaims(kind) : claim[c].status \in {"PENDING", "PARTIAL"}
      BY DEF LateClaims, Late
    <3> QED BY <2>2, <3>1, MarkPayables
  <2>3. ASSUME NEW p \in Session, ListReceivables(p) \/ ListPayables(p) PROVE Payables'
    BY <1>0, <2>2, <2>3 DEF ListReceivables, ListPayables
  <2>4. ASSUME NightlyList PROVE Payables'
    <3>1. \A c \in job'.rows : Kind[c] = "AR"
      BY <2>4 DEF NightlyList, LateClaims
    <3> QED BY <2>4, <3>1 DEF NightlyList, Payables, SettledExact
  <2>5. ASSUME NightlyReceivables PROVE Payables'
    <3>1. job.rows \in SUBSET ClaimId /\ job'.rows = {}
      BY <2>5 DEF NightlyReceivables, TypeOK
    <3> QED BY <1>0, <2>5, <3>1, MarkPayables DEF NightlyReceivables
  <2>6. ASSUME NightlyPayables PROVE Payables'
    BY <2>2, <2>6 DEF NightlyPayables
  <2>7. ASSUME NightlyDies PROVE Payables'
    BY <2>7 DEF NightlyDies, Payables, SettledExact
  <2> QED BY <1>4, <2>1, <2>3, <2>4, <2>5, <2>6, <2>7 DEF Overdue
<1>5. CASE UNCHANGED vars
  BY <1>1, <1>5 DEF vars
<1> QED BY <1>2, <1>3, <1>4, <1>5 DEF Next

LEMMA InitPayables == Init => Payables
<1> SUFFICES ASSUME Init PROVE Payables
  OBVIOUS
<1>1. \A c \in ClaimId : claim[c].amount \in Claimed /\ claim[c].paid = 0
                          /\ claim[c].status = "PENDING"
  BY DEF Init
<1>2. \A c \in ClaimId : claim[c].amount \in Nat /\ claim[c].amount > 0
  BY <1>1, Numbers
<1> QED BY <1>1, <1>2 DEF Init, Payables, SettledExact

\* Under any race of payments, restorations, list pages and the nightly job,
\* PAID says of a payable exactly that all of it was paid.
THEOREM PayablesSettled == Spec => []SettledExact
<1>1. Payables => SettledExact
  BY DEF Payables
<1> QED
  BY <1>1, InitPayables, PayablesStep, InitType, NextType, PTL DEF Spec

-----------------------------------------------------------------------------
(* What was paid of a claim. *)

Careful == ~({"undo", "race"} \subseteq scene)
\* One request at a time, unless they may race.
Alone == \A p, q \in Session : "race" \in scene \/ At(p, "idle") \/ At(q, "idle") \/ p = q
\* The payment a request is undoing is active.
UndoesActive ==
    \A p \in Session :
        At(p, "undoing") => /\ "undo" \in scene
                            /\ Careful => payment[session[p].payment].row = "active"
Receipts == Alone /\ UndoesActive /\ PaidExact

\* One row of the payments changes what was paid of a claim by its amount.
LEMMA PaidTotal ==
    ASSUME payment \in [PaymentId -> Payment], NEW k \in PaymentId, NEW w \in Payment,
           payment' = [payment EXCEPT ![k] = w], NEW c \in ClaimId
    PROVE  /\ Paid(c)' = Paid(c) - ActiveOn(k, c) + ActiveOn(k, c)'
           /\ Paid(c) \in Int /\ ActiveOn(k, c) \in Int
<1> DEFINE f == [i \in PaymentId |-> ActiveOn(i, c)]
           v == IF w.row = "active" /\ w.claim = c THEN w.amount ELSE 0
<1>1. \A i \in PaymentId : payment[i].amount \in Int
  BY PaymentTypes
<1>2. w.amount \in Int
  BY DEF Payment
<1>3. v \in Int
  BY <1>2
<1>4. f \in [1..Payments -> Int]
  BY <1>1 DEF ActiveOn, PaymentId
<1>5. k \in 1..Payments /\ Payments \in Nat /\ Payments \in 0..Payments /\ ~(Payments < k)
  BY Numbers DEF PaymentId
<1>6. payment'[k] = w /\ \A i \in PaymentId : i # k => payment'[i] = payment[i]
  OBVIOUS
<1>7. ActiveOn(k, c)' = v
  BY <1>6 DEF ActiveOn
<1>8. \A i \in PaymentId : i # k => ActiveOn(i, c)' = ActiveOn(i, c)
  BY <1>6 DEF ActiveOn
<1>9. [i \in PaymentId |-> ActiveOn(i, c)'] = [f EXCEPT ![k] = v]
  BY <1>7, <1>8
<1>10. Paid(c) = SumTo(f, Payments) /\ f[k] = ActiveOn(k, c)
  BY DEF Paid
<1>11. Paid(c)' = SumTo([f EXCEPT ![k] = v], Payments)
  BY <1>9 DEF Paid
<1> HIDE DEF f, v
<1>12. \A n \in 0..Payments : SumTo([f EXCEPT ![k] = v], n)
         = IF n < k THEN SumTo(f, n) ELSE SumTo(f, n) - f[k] + v
  BY <1>3, <1>4, <1>5, SumToUpdate
<1>13. SumTo([f EXCEPT ![k] = v], Payments) = SumTo(f, Payments) - f[k] + v
  BY <1>5, <1>12
<1>14. SumTo(f, Payments) \in Int /\ f[k] \in Int
  BY <1>4, <1>5, SumToStep
<1> QED BY <1>7, <1>10, <1>11, <1>13, <1>14

\* A step that changes neither payments nor what was paid.
LEMMA PaidFrame ==
    ASSUME PaidExact, scene' = scene,
           \A k \in PaymentId : /\ payment'[k].row = payment[k].row
                                /\ payment'[k].claim = payment[k].claim
                                /\ payment'[k].amount = payment[k].amount,
           \A c \in ClaimId : claim'[c].paid = claim[c].paid /\ claim'[c].amount = claim[c].amount
    PROVE  PaidExact'
<1>1. ASSUME NEW c \in ClaimId PROVE Paid(c)' = Paid(c)
  <2>1. \A k \in PaymentId : ActiveOn(k, c)' = ActiveOn(k, c)
    BY DEF ActiveOn
  <2>2. [k \in PaymentId |-> ActiveOn(k, c)'] = [k \in PaymentId |-> ActiveOn(k, c)]
    BY <2>1
  <2> QED BY <2>2 DEF Paid
<1> QED BY <1>1 DEF PaidExact

\* The sessions, when a request goes on, ends, or is not concerned.
LEMMA DoneAlone ==
    ASSUME TypeOK, Alone, NEW p \in Session, scene' = scene, Done(p)
    PROVE  Alone' /\ session' \in [Session -> Work] /\ session'[p].stage = "idle"
           /\ \A q \in Session : q # p => session'[q] = session[q]
BY FirstTypes DEF TypeOK, Alone, Done, Idle, At

LEMMA GotoAlone ==
    ASSUME TypeOK, Alone, NEW p \in Session, scene' = scene, NEW entry, Starts(p, entry),
           NEW stage, NEW k, NEW a, NEW b, NEW n, NEW copy, Goto(p, stage, k, a, b, n, copy)
    PROVE  Alone' /\ session'[p].stage = stage /\ session'[p].payment = k
           /\ \A q \in Session : q # p => session'[q] = session[q]
BY DEF TypeOK, Alone, Starts, Goto, At

LEMMA PayReceipts ==
    ASSUME TypeOK, Receipts, NEW c \in ClaimId, NEW k \in PaymentId, NEW a \in AccountId,
           NEW n \in Amount, Pay(c, k, a, n)
    PROVE  Receipts'
<1> DEFINE w == [row |-> "active", claim |-> c, account |-> a, amount |-> n,
                 share |-> Nothing]
<1>1. payment \in [PaymentId -> Payment] /\ w \in Payment /\ n \in Nat
  BY FirstTypes, Numbers DEF TypeOK, Payment
<1>2. payment' = [payment EXCEPT ![k] = w] /\ payment[k].row = "absent"
      /\ session' = session /\ scene' = scene
  BY DEF Pay, Register
<1>3. w.row = "active" /\ w.claim = c /\ w.amount = n
  OBVIOUS
<1>4. payment'[k] = w /\ \A i \in PaymentId : i # k => payment'[i] = payment[i]
  BY <1>1, <1>2
<1> HIDE DEF w
<1>5. \A d \in ClaimId : /\ Paid(d)' = Paid(d) - ActiveOn(k, d) + ActiveOn(k, d)'
                         /\ Paid(d) \in Int
  BY <1>1, <1>2, PaidTotal
<1>6. \A d \in ClaimId : ActiveOn(k, d) = 0 /\ ActiveOn(k, d)' = IF d = c THEN n ELSE 0
  BY <1>2, <1>3, <1>4 DEF ActiveOn
<1>7. \A d \in ClaimId : /\ claim'[d].amount = claim[d].amount
                         /\ claim'[d].paid = IF d = c THEN claim[c].paid + n ELSE claim[d].paid
  BY DEF Pay, TypeOK, WithPaid
<1>8. n <= claim[c].amount - claim[c].paid /\ claim[c].amount \in Nat /\ claim[c].paid \in Int
  <2>1. claim[c] \in Claim
    BY DEF TypeOK
  <2> QED BY <2>1 DEF Pay, Payable, Claim
<1>9. PaidExact'
  <2> SUFFICES ASSUME Careful', NEW d \in ClaimId
               PROVE  claim'[d].paid = Paid(d)' /\ Paid(d)' <= claim'[d].amount
    BY DEF PaidExact, Careful
  <2>1. claim[d].paid = Paid(d) /\ Paid(d) <= claim[d].amount
    BY <1>2 DEF Receipts, PaidExact, Careful
  <2>2. Paid(d)' = IF d = c THEN Paid(d) + n ELSE Paid(d)
    BY <1>1, <1>5, <1>6
  <2> QED BY <1>1, <1>5, <1>7, <1>8, <2>1, <2>2
<1>10. Alone'
  BY <1>2 DEF Receipts, Alone, At
<1>11. UndoesActive'
  BY <1>2, <1>3, <1>4 DEF Receipts, UndoesActive, Careful, At, TypeOK, Work
<1> QED BY <1>9, <1>10, <1>11 DEF Receipts

LEMMA UndoReceipts ==
    ASSUME TypeOK, Receipts, NEW p \in Session, CommitUndo(p),
           NEW k \in PaymentId, k = session[p].payment
    PROVE  Receipts'
<1> DEFINE c == payment[k].claim
           n == payment[k].amount
           w == Rowed(payment[k], "retired")
<1>1. payment \in [PaymentId -> Payment] /\ payment[k] \in Payment
  BY DEF TypeOK
<1>2. c \in ClaimId /\ n \in Nat /\ w \in Payment
  BY <1>1, PaymentTypes
<1>3. payment' = [payment EXCEPT ![k] = w] /\ scene' = scene /\ Done(p) /\ At(p, "undoing")
  BY DEF CommitUndo
<1>4. payment'[k] = w /\ w.row = "retired"
  BY <1>1, <1>3 DEF Rowed
<1>5. \A d \in ClaimId : /\ claim'[d].amount = claim[d].amount
                         /\ claim'[d].paid = IF d = c THEN claim[c].paid - n ELSE claim[d].paid
  BY <1>2 DEF CommitUndo, TypeOK, Restored, WithPaid
<1>6. Alone' /\ session'[p].stage = "idle" /\ \A q \in Session : q # p => session'[q] = session[q]
  BY <1>3, DoneAlone DEF Receipts
<1>7. "undo" \in scene
  BY <1>3 DEF Receipts, UndoesActive
<1>8. Careful => \A q \in Session : session'[q].stage = "idle"
  BY <1>3, <1>6, <1>7 DEF Receipts, Alone, Careful, At
<1>9. UndoesActive'
  BY <1>3, <1>6, <1>7, <1>8 DEF UndoesActive, Careful, At
<1>10. \A d \in ClaimId : ActiveOn(k, d)' = 0
  BY <1>4 DEF ActiveOn
<1> HIDE DEF w
<1>11. \A d \in ClaimId : /\ Paid(d)' = Paid(d) - ActiveOn(k, d) + ActiveOn(k, d)'
                          /\ Paid(d) \in Int
  BY <1>1, <1>2, <1>3, PaidTotal
<1>12. PaidExact'
  <2> SUFFICES ASSUME Careful', NEW d \in ClaimId
               PROVE  claim'[d].paid = Paid(d)' /\ Paid(d)' <= claim'[d].amount
    BY DEF PaidExact, Careful
  <2>1. Careful
    BY <1>3 DEF Careful
  <2>2. claim[d].paid = Paid(d) /\ Paid(d) <= claim[d].amount
    BY <2>1 DEF Receipts, PaidExact, Careful
  <2>3. payment[k].row = "active"
    BY <1>3, <2>1 DEF Receipts, UndoesActive
  <2>4. ActiveOn(k, d) = IF d = c THEN n ELSE 0
    BY <2>3 DEF ActiveOn
  <2>5. Paid(d)' = IF d = c THEN Paid(d) - n ELSE Paid(d)
    BY <1>2, <1>10, <1>11, <2>4
  <2>6. claim[d].amount \in Nat
    <3>1. claim[d] \in Claim
      BY DEF TypeOK
    <3> QED BY <3>1 DEF Claim
  <2> QED BY <1>2, <1>5, <1>11, <2>2, <2>5, <2>6
<1> QED BY <1>6, <1>9, <1>12 DEF Receipts

\* The claims and payments keep what counts, and no request starts or stops.
LEMMA SameReceipts ==
    ASSUME Receipts, scene' = scene, session' = session,
           \A k \in PaymentId : /\ payment'[k].row = payment[k].row
                                /\ payment'[k].claim = payment[k].claim
                                /\ payment'[k].amount = payment[k].amount,
           \A c \in ClaimId : claim'[c].paid = claim[c].paid /\ claim'[c].amount = claim[c].amount,
           TypeOK
    PROVE  Receipts'
<1>1. PaidExact'
  BY PaidFrame DEF Receipts
<1>2. \A p \in Session : session[p].payment \in PaymentId
  BY DEF TypeOK, Work
<1> QED BY <1>1, <1>2 DEF Receipts, Alone, UndoesActive, Careful, At

\* A request ends.
LEMMA DoneReceipts ==
    ASSUME TypeOK, Receipts, NEW p \in Session, Done(p),
           UNCHANGED <<scene, payment, claim>>
    PROVE  Receipts'
<1>1. PaidExact'
  BY PaidFrame DEF Receipts
<1>2. Alone' /\ session'[p].stage = "idle" /\ \A q \in Session : q # p => session'[q] = session[q]
  BY DoneAlone DEF Receipts
<1> QED BY <1>1, <1>2 DEF Receipts, UndoesActive, Careful, At

\* A request starts; if it is to undo a payment, the payment is active.
LEMMA GotoReceipts ==
    ASSUME TypeOK, Receipts, NEW p \in Session, NEW entry, Starts(p, entry),
           NEW stage, NEW k \in PaymentId, NEW a, NEW b, NEW n, NEW copy,
           Goto(p, stage, k, a, b, n, copy),
           stage = "undoing" => entry = "undo" /\ payment[k].row = "active",
           UNCHANGED <<scene, payment, claim>>
    PROVE  Receipts'
<1>1. PaidExact'
  BY PaidFrame DEF Receipts
<1>2. Alone' /\ session'[p].stage = stage /\ session'[p].payment = k
      /\ \A q \in Session : q # p => session'[q] = session[q]
  BY GotoAlone DEF Receipts
<1> QED BY <1>1, <1>2 DEF Receipts, UndoesActive, Careful, At, Starts

LEMMA ReceiptsStep == TypeOK /\ Receipts /\ [Next]_vars => Receipts'
<1> SUFFICES ASSUME TypeOK, Receipts, [Next]_vars PROVE Receipts'
  OBVIOUS
<1>0. 1 \in PaymentId /\ claim \in [ClaimId -> Claim] /\ payment \in [PaymentId -> Payment]
  BY Numbers DEF TypeOK
<1>1. ASSUME NEW p \in Session, PaymentForms(p) PROVE Receipts'
  <2>1. ASSUME NEW c \in ClaimId, NEW k \in PaymentId, NEW a \in AccountId,
               NEW n \in Amount, Receive(p, c, k, a, n) \/ Disburse(p, c, k, a, n)
        PROVE  Receipts'
    BY <2>1, PayReceipts DEF Receive, Disburse
  <2>2. ASSUME NEW k \in PaymentId, AskUndo(p, k) PROVE Receipts'
    BY <2>2, GotoReceipts DEF AskUndo
  <2>3. ASSUME CommitUndo(p) PROVE Receipts'
    <3>1. session[p].payment \in PaymentId
      BY DEF TypeOK, Work
    <3> QED BY <2>3, <3>1, UndoReceipts
  <2>4. ASSUME FailUndo(p) PROVE Receipts'
    BY <2>4, DoneReceipts DEF FailUndo
  <2>5. ASSUME NEW k \in PaymentId, NEW a \in AccountId, NEW n \in Amount,
               Distribute(p, k, a, n) PROVE Receipts'
    <3>1. \A i \in PaymentId : /\ payment'[i].row = payment[i].row
                               /\ payment'[i].claim = payment[i].claim
                               /\ payment'[i].amount = payment[i].amount
      <4>1. payment' = [payment EXCEPT ![k] = [payment[k] EXCEPT !.share[a] = @ + n]]
        BY <2>5 DEF Distribute
      <4> QED BY <1>0, <4>1 DEF Payment
    <3> QED BY <2>5, <3>1, SameReceipts DEF Distribute
  <2>6. ASSUME NEW c \in ClaimId, RetireClaim(p, c) PROVE Receipts'
    <3>1. \A d \in ClaimId : claim'[d].paid = claim[d].paid /\ claim'[d].amount = claim[d].amount
      BY <1>0, <2>6 DEF RetireClaim, Claim
    <3> QED BY <2>6, <3>1, SameReceipts DEF RetireClaim
  <2> QED BY <1>1, <2>1, <2>2, <2>3, <2>4, <2>5, <2>6 DEF PaymentForms
<1>2. ASSUME NEW p \in Session, AccountForms(p) PROVE Receipts'
  <2>1. ASSUME NEW a \in AccountId, NEW b \in AccountId, NEW n \in Amount,
               AskTransfer(p, a, b, n) PROVE Receipts'
    BY <1>0, <2>1, GotoReceipts DEF AskTransfer
  <2>2. ASSUME NEW a \in AccountId, AskEdit(p, a) PROVE Receipts'
    BY <1>0, <2>2, GotoReceipts DEF AskEdit
  <2>3. ASSUME CommitTransfer(p) \/ CommitEdit(p) \/ Die(p) PROVE Receipts'
    BY <2>3, DoneReceipts DEF CommitTransfer, CommitEdit, Die
  <2> QED BY <1>2, <2>1, <2>2, <2>3 DEF AccountForms
<1>3. ASSUME Overdue PROVE Receipts'
  <2>1. session' = session /\ payment' = payment /\ scene' = scene
    BY <1>3 DEF Overdue, FallDue, ListReceivables, ListPayables, NightlyList,
                NightlyReceivables, NightlyPayables, NightlyDies
  <2>2. \A d \in ClaimId : claim'[d].paid = claim[d].paid /\ claim'[d].amount = claim[d].amount
    <3>1. ASSUME NEW c \in ClaimId, FallDue(c)
          PROVE  \A d \in ClaimId : claim'[d].paid = claim[d].paid /\ claim'[d].amount = claim[d].amount
      BY <1>0, <3>1 DEF FallDue, Claim
    <3>2. ASSUME NEW S, MarkOverdue(S)
          PROVE  \A d \in ClaimId : claim'[d].paid = claim[d].paid /\ claim'[d].amount = claim[d].amount
      BY <1>0, <3>2, MarkSettles
    <3>3. (NightlyList \/ NightlyDies) => claim' = claim
      BY DEF NightlyList, NightlyDies
    <3> QED
      BY <1>3, <3>1, <3>2, <3>3 DEF Overdue, ListReceivables, ListPayables,
                                    NightlyReceivables, NightlyPayables
  <2> QED BY <2>1, <2>2, SameReceipts
<1>4. CASE UNCHANGED vars
  BY <1>4, SameReceipts DEF vars
<1> QED BY <1>1, <1>2, <1>3, <1>4 DEF Next

LEMMA InitReceipts == Init => Receipts
<1> SUFFICES ASSUME Init PROVE Receipts
  OBVIOUS
<1>1. ASSUME NEW c \in ClaimId
      PROVE  claim[c].paid = 0 /\ Paid(c) = 0 /\ claim[c].amount \in Nat
  <2>1. claim[c].paid = 0 /\ claim[c].amount \in Nat
    <3>1. claim[c].amount \in Claimed /\ claim[c].paid = 0
      BY DEF Init
    <3> QED BY <3>1, Numbers
  <2>2. \A k \in PaymentId : ActiveOn(k, c) = 0
    BY DEF Init, NoPayment, ActiveOn
  <2>3. [k \in PaymentId |-> ActiveOn(k, c)] \in [1..Payments -> Int]
        /\ \A k \in 1..Payments : [i \in PaymentId |-> ActiveOn(i, c)][k] = 0
    BY <2>2 DEF PaymentId
  <2>4. Paid(c) = 0
    BY <2>3, Numbers, SumToZero DEF Paid
  <2> QED BY <2>1, <2>4
<1>2. PaidExact
  BY <1>1 DEF PaidExact
<1>3. Alone /\ UndoesActive
  BY DEF Init, Alone, UndoesActive, At, Idle
<1> QED BY <1>2, <1>3 DEF Receipts

\* Payments may race, requests may die, claims may be deleted: paid_amount is
\* the total of the active payments and never exceeds the claim, as long as no
\* two requests undo a payment at once.
THEOREM PaymentsExact == Spec => []PaidExact
<1>1. Receipts => PaidExact
  BY DEF Receipts
<1> QED
  BY <1>1, InitReceipts, ReceiptsStep, InitType, NextType, PTL DEF Spec

-----------------------------------------------------------------------------
(* What a bank account holds. *)

\* One request at a time, none dying, and no payment shared out.
Solo == scene \cap {"race", "crash", "distribute"} = {}

\* What the rows say an account holds.
Held(a) == SumTo([k \in PaymentId |-> Counted(k, a)], Payments)
Expected(a) == Opening + moved[a] + Held(a)

\* What a transfer still has to add to an account, or to take from it.
OnItsWay(w, a) == IF a = w.from THEN -w.amount ELSE IF a = w.to THEN w.amount ELSE 0

\* A balance is what the rows say, less what the transfer in progress is yet to
\* move, and a form saves the balance it finds.
Banked ==
    Solo =>
        /\ (\A p \in Session : ~At(p, "moving")) => \A a \in AccountId : balance[a] = Expected(a)
        /\ \A p \in Session : At(p, "moving") =>
              \A a \in AccountId : balance[a] + OnItsWay(session[p], a) = Expected(a)
        /\ \A p \in Session : At(p, "editing") => session[p].copy = balance[session[p].from]

\* One row of the payments changes what an account holds by its signed amount.
LEMMA HeldMoves ==
    ASSUME payment \in [PaymentId -> Payment], NEW k \in PaymentId, NEW w \in Payment,
           payment' = [payment EXCEPT ![k] = w], NEW a \in AccountId
    PROVE  /\ Held(a)' = Held(a) - Counted(k, a) + Counted(k, a)'
           /\ Held(a) \in Int /\ Counted(k, a) \in Int /\ Counted(k, a)' \in Int
<1> DEFINE f == [i \in PaymentId |-> Counted(i, a)]
           v == IF w.row # "active" \/ w.account # a THEN 0 ELSE Signed(Kind[w.claim], w.amount)
<1>1. \A i \in PaymentId : payment[i].amount \in Int
  BY PaymentTypes
<1>2. w.amount \in Int
  BY DEF Payment
<1>3. v \in Int
  BY <1>2, SignedType
<1>4. f \in [1..Payments -> Int]
  BY <1>1, SignedType DEF Counted, PaymentId
<1>5. k \in 1..Payments /\ Payments \in Nat /\ Payments \in 0..Payments /\ ~(Payments < k)
  BY Numbers DEF PaymentId
<1>6. payment'[k] = w /\ \A i \in PaymentId : i # k => payment'[i] = payment[i]
  OBVIOUS
<1>7. Counted(k, a)' = v
  BY <1>6 DEF Counted
<1>8. \A i \in PaymentId : i # k => Counted(i, a)' = Counted(i, a)
  BY <1>6 DEF Counted
<1>9. [i \in PaymentId |-> Counted(i, a)'] = [f EXCEPT ![k] = v]
  BY <1>7, <1>8
<1>10. Held(a) = SumTo(f, Payments) /\ f[k] = Counted(k, a)
  BY DEF Held
<1>11. Held(a)' = SumTo([f EXCEPT ![k] = v], Payments)
  BY <1>9 DEF Held
<1> HIDE DEF f, v
<1>12. \A n \in 0..Payments : SumTo([f EXCEPT ![k] = v], n)
         = IF n < k THEN SumTo(f, n) ELSE SumTo(f, n) - f[k] + v
  BY <1>3, <1>4, <1>5, SumToUpdate
<1>13. SumTo([f EXCEPT ![k] = v], Payments) = SumTo(f, Payments) - f[k] + v
  BY <1>5, <1>12
<1>14. SumTo(f, Payments) \in Int /\ f[k] \in Int
  BY <1>4, <1>5, SumToStep
<1> QED BY <1>3, <1>7, <1>10, <1>11, <1>13, <1>14

LEMMA HeldType == TypeOK => \A a \in AccountId : Held(a) \in Int /\ Expected(a) \in Int
<1> SUFFICES ASSUME TypeOK, NEW a \in AccountId PROVE Held(a) \in Int /\ Expected(a) \in Int
  OBVIOUS
<1> DEFINE f == [i \in PaymentId |-> Counted(i, a)]
<1>1. \A i \in PaymentId : payment[i].amount \in Int
  BY PaymentTypes DEF TypeOK
<1>2. f \in [1..Payments -> Int] /\ Payments \in Nat /\ Payments \in 0..Payments
  BY <1>1, SignedType, Numbers DEF Counted, PaymentId
<1>3. Held(a) = SumTo(f, Payments)
  BY DEF Held
<1> HIDE DEF f
<1>4. Held(a) \in Int
  BY <1>2, <1>3, SumToStep
<1>5. Opening \in Int /\ moved[a] \in Int
  BY Numbers DEF TypeOK
<1> QED BY <1>4, <1>5 DEF Expected

\* A request that is alone.
Only(p) == \A q \in Session \ {p} : At(q, "idle")

\* With one request at a time it is enough to look at the one that moves.
LEMMA OneBanked ==
    ASSUME session \in [Session -> Work], NEW p \in Session, NEW w, Only(p),
           session' = [session EXCEPT ![p] = w],
           w.stage # "moving" => \A a \in AccountId : balance'[a] = Expected(a)',
           w.stage = "moving" =>
               \A a \in AccountId : balance'[a] + OnItsWay(w, a) = Expected(a)',
           w.stage = "editing" => w.copy = balance'[w.from]
    PROVE  Banked'
<1>1. session'[p] = w /\ \A q \in Session \ {p} : session'[q] = session[q]
  OBVIOUS
<1>2. \A q \in Session : ~At(q, "idle")' => q = p
  BY <1>1 DEF Only, At
<1>3. ASSUME \A q \in Session : ~At(q, "moving")'
      PROVE  \A a \in AccountId : balance'[a] = Expected(a)'
  BY <1>1, <1>3 DEF At
<1>4. ASSUME NEW q \in Session, At(q, "moving")'
      PROVE  \A a \in AccountId : balance'[a] + OnItsWay(session'[q], a) = Expected(a)'
  <2>1. q = p
    BY <1>2, <1>4 DEF At
  <2> QED BY <1>1, <1>4, <2>1 DEF At
<1>5. ASSUME NEW q \in Session, At(q, "editing")'
      PROVE  session'[q].copy = balance'[session'[q].from]
  <2>1. q = p
    BY <1>2, <1>5 DEF At
  <2> QED BY <1>1, <1>5, <2>1 DEF At
<1>6. \A q \in Session : At(q, "moving")' =>
         \A a \in AccountId : balance'[a] + OnItsWay(session[q], a)' = Expected(a)'
  BY <1>4 DEF OnItsWay
<1> QED BY <1>3, <1>5, <1>6 DEF Banked

\* Nothing an account's figures are made of changes.
LEMMA SameExpected ==
    ASSUME moved' = moved, NEW a \in AccountId,
           \A k \in PaymentId : Counted(k, a)' = Counted(k, a)
    PROVE  Expected(a)' = Expected(a)
BY DEF Expected, Held

LEMMA PayBanked ==
    ASSUME TypeOK, \A a \in AccountId : balance[a] = Expected(a),
           NEW c \in ClaimId, NEW k \in PaymentId, NEW a \in AccountId,
           NEW n \in Amount, Pay(c, k, a, n)
    PROVE  \A b \in AccountId : balance'[b] = Expected(b)'
<1> DEFINE w == [row |-> "active", claim |-> c, account |-> a, amount |-> n,
                 share |-> Nothing]
<1>1. payment \in [PaymentId -> Payment] /\ w \in Payment /\ n \in Nat
  BY FirstTypes, Numbers DEF TypeOK, Payment
<1>2. payment' = [payment EXCEPT ![k] = w] /\ payment[k].row = "absent" /\ moved' = moved
      /\ Credit(a, Signed(Kind[c], n))
  BY DEF Pay, Register
<1>3. payment'[k] = w
  BY <1>1, <1>2
<1> SUFFICES ASSUME NEW b \in AccountId PROVE balance'[b] = Expected(b)'
  OBVIOUS
<1>4. Counted(k, b) = 0 /\ Counted(k, b)' = IF b = a THEN Signed(Kind[c], n) ELSE 0
  BY <1>2, <1>3 DEF Counted
<1> HIDE DEF w
<1>5. /\ Held(b)' = Held(b) - Counted(k, b) + Counted(k, b)'
      /\ Held(b) \in Int /\ Counted(k, b)' \in Int
  BY <1>1, <1>2, HeldMoves
<1>6. balance'[b] = balance[b] + (IF b = a THEN Signed(Kind[c], n) ELSE 0)
      /\ balance[b] \in Int
  <2>1. balance \in [AccountId -> Int]
    BY DEF TypeOK
  <2>2. CASE b = a
    BY <1>2, <2>1, <2>2 DEF Credit
  <2>3. CASE b # a
    BY <1>2, <2>1, <2>3 DEF Credit
  <2> QED BY <2>2, <2>3
<1>7. balance[b] = Expected(b) /\ moved[b] \in Int /\ Opening \in Int
  BY Numbers DEF TypeOK
<1> DEFINE d == IF b = a THEN Signed(Kind[c], n) ELSE 0
<1>8. d \in Int /\ Held(b)' = Held(b) + d /\ balance'[b] = balance[b] + d
  <2>1. Signed(Kind[c], n) \in Int
    BY <1>1, SignedType
  <2>2. d \in Int /\ Counted(k, b)' = d
    BY <1>4, <2>1
  <2> HIDE DEF d
  <2>3. Held(b)' = Held(b) + d
    BY <1>4, <1>5, <2>2
  <2> QED BY <1>6, <2>2, <2>3 DEF d
<1> HIDE DEF d
<1> QED BY <1>2, <1>5, <1>7, <1>8 DEF Expected

LEMMA UndoBanked ==
    ASSUME TypeOK, \A a \in AccountId : balance[a] = Expected(a),
           NEW p \in Session, CommitUndo(p), NEW k \in PaymentId, k = session[p].payment,
           payment[k].row = "active"
    PROVE  \A b \in AccountId : balance'[b] = Expected(b)'
<1> DEFINE w == Rowed(payment[k], "retired")
           n == Signed(Kind[payment[k].claim], payment[k].amount)
           a == payment[k].account
<1>1. payment \in [PaymentId -> Payment] /\ w \in Payment /\ n \in Int /\ a \in AccountId
  <2>1. payment[k] \in Payment
    BY DEF TypeOK
  <2>2. payment[k].amount \in Nat /\ w \in Payment /\ a \in AccountId
    BY <2>1, PaymentTypes
  <2>3. n \in Int
    BY <2>2, SignedType
  <2> QED BY <2>2, <2>3 DEF TypeOK
<1>2. payment' = [payment EXCEPT ![k] = w] /\ moved' = moved /\ Credit(a, -n)
  BY DEF CommitUndo
<1>3. payment'[k] = w /\ w.row = "retired"
  BY <1>1, <1>2 DEF Rowed
<1> SUFFICES ASSUME NEW b \in AccountId PROVE balance'[b] = Expected(b)'
  OBVIOUS
<1>4. Counted(k, b)' = 0 /\ Counted(k, b) = IF b = a THEN n ELSE 0
  BY <1>3 DEF Counted
<1> HIDE DEF w
<1>5. Held(b)' = Held(b) - Counted(k, b) + Counted(k, b)' /\ Held(b) \in Int
  BY <1>1, <1>2, HeldMoves
<1> DEFINE d == IF b = a THEN n ELSE 0
<1>6. balance'[b] = balance[b] - d /\ balance[b] \in Int
  <2>1. balance \in [AccountId -> Int]
    BY DEF TypeOK
  <2> HIDE DEF n, a
  <2>2. CASE b = a
    BY <1>1, <1>2, <2>1, <2>2 DEF Credit
  <2>3. CASE b # a
    <3>1. balance'[b] = balance[b]
      BY <1>2, <2>1, <2>3 DEF Credit
    <3> QED BY <2>1, <2>3, <3>1
  <2> QED BY <2>2, <2>3
<1>7. balance[b] = Expected(b) /\ moved[b] \in Int /\ Opening \in Int
  BY Numbers DEF TypeOK
<1>8. d \in Int /\ Counted(k, b) = d
  BY <1>1, <1>4
<1> HIDE DEF n, a, d
<1>9. Held(b)' = Held(b) - d
  BY <1>4, <1>5, <1>8
<1> QED BY <1>2, <1>5, <1>6, <1>7, <1>8, <1>9 DEF Expected

\* The row of a transfer is ahead of the balances by what is on its way.
LEMMA TransferAsked ==
    ASSUME TypeOK, \A a \in AccountId : balance[a] = Expected(a),
           NEW p \in Session, NEW x \in AccountId, NEW y \in AccountId,
           NEW n \in Amount, AskTransfer(p, x, y, n)
    PROVE  \A w : w.from = x /\ w.to = y /\ w.amount = n =>
              \A a \in AccountId : balance'[a] + OnItsWay(w, a) = Expected(a)'
<1> SUFFICES ASSUME NEW w, w.from = x, w.to = y, w.amount = n, NEW a \in AccountId
             PROVE  balance'[a] + OnItsWay(w, a) = Expected(a)'
  OBVIOUS
<1>1. Held(a)' = Held(a) /\ balance' = balance
  BY DEF AskTransfer, Held, Counted
<1>2. n \in Int /\ moved[a] \in Int /\ Opening \in Int /\ Held(a) \in Int
  BY Numbers, HeldType DEF TypeOK
<1>3. moved'[a] = moved[a] + OnItsWay(w, a) /\ OnItsWay(w, a) \in Int
  <2>1. moved \in [AccountId -> Int] /\ x # y
        /\ moved' = [moved EXCEPT ![x] = @ - n, ![y] = @ + n]
    BY DEF TypeOK, AskTransfer
  <2>2. CASE a = x
    <3>1. moved'[a] = moved[a] - n
      BY <2>1, <2>2
    <3> QED BY <1>2, <2>2, <3>1 DEF OnItsWay
  <2>3. CASE a = y
    <3>1. moved'[a] = moved[a] + n
      BY <2>1, <2>3
    <3> QED BY <1>2, <2>1, <2>3, <3>1 DEF OnItsWay
  <2>4. CASE a # x /\ a # y
    <3>1. moved'[a] = moved[a]
      BY <2>1, <2>4
    <3> QED BY <1>2, <2>4, <3>1 DEF OnItsWay
  <2> QED BY <2>2, <2>3, <2>4
<1>4. balance[a] = Opening + moved[a] + Held(a)
  BY DEF Expected
<1>5. Expected(a)' = Opening + moved'[a] + Held(a)
  BY <1>1 DEF Expected
<1> QED BY <1>1, <1>2, <1>3, <1>4, <1>5

LEMMA TransferBanked ==
    ASSUME TypeOK, EditsInScene, NEW p \in Session, CommitTransfer(p),
           \A a \in AccountId : balance[a] + OnItsWay(session[p], a) = Expected(a)
    PROVE  \A a \in AccountId : balance'[a] = Expected(a)'
<1> DEFINE w == session[p]
<1>1. /\ w.from \in AccountId /\ w.to \in AccountId /\ w.amount \in Int /\ w.from # w.to
      /\ balance \in [AccountId -> Int]
  BY DEF TypeOK, Work, EditsInScene, CommitTransfer
<1>2. balance' = [balance EXCEPT ![w.from] = @ - w.amount, ![w.to] = @ + w.amount]
  BY DEF CommitTransfer
<1> SUFFICES ASSUME NEW a \in AccountId PROVE balance'[a] = Expected(a)'
  OBVIOUS
<1>3. Expected(a)' = Expected(a)
  BY DEF CommitTransfer, Expected, Held, Counted
<1>4. balance[a] + OnItsWay(w, a) = Expected(a)
  OBVIOUS
<1> HIDE DEF w
<1>5. balance'[a] = balance[a] + OnItsWay(w, a)
  <2>1. CASE a = w.from
    <3>1. balance'[a] = balance[a] - w.amount
      BY <1>1, <1>2, <2>1
    <3> QED BY <1>1, <2>1, <3>1 DEF OnItsWay
  <2>2. CASE a = w.to
    BY <1>1, <1>2, <2>2 DEF OnItsWay
  <2>3. CASE a # w.from /\ a # w.to
    <3>1. balance'[a] = balance[a]
      BY <1>1, <1>2, <2>3
    <3> QED BY <1>1, <2>3, <3>1 DEF OnItsWay
  <2> QED BY <2>1, <2>2, <2>3
<1> QED BY <1>3, <1>4, <1>5

\* A request in progress is the only one, and so is one that starts.
LEMMA RequestsBanked ==
    ASSUME TypeOK, Books, Receipts, Banked, Solo, NEW p \in Session,
           PaymentForms(p) \/ AccountForms(p)
    PROVE  Banked'
<1>0. /\ session \in [Session -> Work] /\ session[p] \in Work /\ "race" \notin scene
      /\ balance \in [AccountId -> Int]
  BY DEF TypeOK, Solo
<1>1. ASSUME ~At(p, "idle") PROVE Only(p)
  BY <1>0, <1>1 DEF Receipts, Alone, Only
<1>2. ASSUME NEW entry, Starts(p, entry) PROVE Only(p) /\ At(p, "idle")
  BY <1>0, <1>2 DEF Starts, Only
<1>3. ASSUME Only(p), ~At(p, "moving") PROVE \A a \in AccountId : balance[a] = Expected(a)
  <2>1. \A q \in Session : ~At(q, "moving")
    BY <1>3 DEF Only, At
  <2> QED BY <2>1 DEF Banked
<1>4. ASSUME Done(p) PROVE session' = [session EXCEPT ![p] = Idle] /\ Idle.stage = "idle"
  BY <1>4 DEF Done, Idle
<1>a. session' = session => session' = [session EXCEPT ![p] = session[p]]
  BY <1>0
<1>b. ASSUME payment' = payment, moved' = moved PROVE \A a \in AccountId : Expected(a)' = Expected(a)
  BY <1>b DEF Expected, Held, Counted
<1>5. ASSUME NEW c \in ClaimId, NEW k \in PaymentId, NEW a \in AccountId,
             NEW n \in Amount, Receive(p, c, k, a, n) \/ Disburse(p, c, k, a, n)
      PROVE  Banked'
  <2>1. Pay(c, k, a, n) /\ Only(p) /\ At(p, "idle") /\ session' = session
    BY <1>2, <1>5 DEF Receive, Disburse, Pay
  <2>2. \A b \in AccountId : balance[b] = Expected(b)
    BY <1>3, <2>1 DEF At
  <2>3. \A b \in AccountId : balance'[b] = Expected(b)'
    BY <2>1, <2>2, PayBanked
  <2> QED BY <1>0, <1>a, <2>1, <2>3, OneBanked DEF At
<1>6. ASSUME NEW k \in PaymentId, AskUndo(p, k) PROVE Banked'
  <2> DEFINE w == [stage |-> "undoing", payment |-> k, from |-> 1, to |-> 1, amount |-> 0,
                   copy |-> 0]
  <2>1. session' = [session EXCEPT ![p] = w] /\ w.stage = "undoing"
    BY <1>6 DEF AskUndo, Goto
  <2> HIDE DEF w
  <2>2. Only(p) /\ At(p, "idle") /\ balance' = balance /\ payment' = payment /\ moved' = moved
    BY <1>2, <1>6 DEF AskUndo
  <2>3. \A b \in AccountId : balance'[b] = Expected(b)'
    BY <1>3, <1>b, <2>2 DEF At
  <2> QED BY <1>0, <2>1, <2>2, <2>3, OneBanked
<1>7. ASSUME CommitUndo(p) PROVE Banked'
  <2>1. Only(p) /\ ~At(p, "moving") /\ Done(p) /\ At(p, "undoing")
    BY <1>1, <1>7 DEF CommitUndo, At
  <2>2. PICK k \in PaymentId : k = session[p].payment
    BY <1>0 DEF Work
  <2>3. payment[k].row = "active"
    BY <1>0, <2>1, <2>2 DEF Receipts, UndoesActive, Careful
  <2>4. \A b \in AccountId : balance'[b] = Expected(b)'
    BY <1>3, <1>7, <2>1, <2>2, <2>3, UndoBanked
  <2> QED BY <1>0, <1>4, <2>1, <2>4, OneBanked
<1>8. ASSUME FailUndo(p) PROVE Banked'
  <2>1. Only(p) /\ ~At(p, "moving") /\ Done(p)
        /\ balance' = balance /\ payment' = payment /\ moved' = moved
    BY <1>1, <1>8 DEF FailUndo, At
  <2>2. \A b \in AccountId : balance'[b] = Expected(b)'
    BY <1>3, <1>b, <2>1
  <2> QED BY <1>0, <1>4, <2>1, <2>2, OneBanked
<1>9. ASSUME NEW k \in PaymentId, NEW a \in AccountId, NEW n \in Amount,
             Distribute(p, k, a, n) PROVE FALSE
  BY <1>9 DEF Distribute, Starts, Solo
<1>10. ASSUME NEW c \in ClaimId, RetireClaim(p, c) PROVE Banked'
  <2>1. Only(p) /\ At(p, "idle") /\ session' = session
        /\ balance' = balance /\ payment' = payment /\ moved' = moved
    BY <1>2, <1>10 DEF RetireClaim
  <2>2. \A b \in AccountId : balance'[b] = Expected(b)'
    BY <1>3, <1>b, <2>1 DEF At
  <2> QED BY <1>0, <1>a, <2>1, <2>2, OneBanked DEF At
<1>11. ASSUME NEW x \in AccountId, NEW y \in AccountId, NEW n \in Amount,
              AskTransfer(p, x, y, n) PROVE Banked'
  <2> DEFINE w == [stage |-> "moving", payment |-> 1, from |-> x, to |-> y, amount |-> n,
                   copy |-> 0]
  <2>1. /\ session' = [session EXCEPT ![p] = w]
        /\ w.stage = "moving" /\ w.from = x /\ w.to = y /\ w.amount = n
    BY <1>11 DEF AskTransfer, Goto
  <2> HIDE DEF w
  <2>2. Only(p) /\ At(p, "idle")
    BY <1>2, <1>11 DEF AskTransfer
  <2>3. \A a \in AccountId : balance[a] = Expected(a)
    BY <1>3, <2>2 DEF At
  <2>4. \A a \in AccountId : balance'[a] + OnItsWay(w, a) = Expected(a)'
    BY <1>11, <2>1, <2>3, TransferAsked
  <2> QED BY <1>0, <2>1, <2>2, <2>4, OneBanked
<1>12. ASSUME CommitTransfer(p) PROVE Banked'
  <2>1. Only(p) /\ At(p, "moving") /\ Done(p)
    BY <1>1, <1>12 DEF CommitTransfer, At
  <2>2. \A a \in AccountId : balance[a] + OnItsWay(session[p], a) = Expected(a)
    BY <2>1 DEF Banked
  <2>3. \A a \in AccountId : balance'[a] = Expected(a)'
    BY <1>12, <2>2, TransferBanked DEF Books
  <2> QED BY <1>0, <1>4, <2>1, <2>3, OneBanked
<1>13. ASSUME NEW a \in AccountId, AskEdit(p, a) PROVE Banked'
  <2> DEFINE w == [stage |-> "editing", payment |-> 1, from |-> a, to |-> a, amount |-> 0,
                   copy |-> balance[a]]
  <2>1. session' = [session EXCEPT ![p] = w] /\ w.stage = "editing" /\ w.from = a
        /\ w.copy = balance[a]
    BY <1>13 DEF AskEdit, Goto
  <2> HIDE DEF w
  <2>2. Only(p) /\ At(p, "idle") /\ balance' = balance /\ payment' = payment /\ moved' = moved
    BY <1>2, <1>13 DEF AskEdit
  <2>3. \A b \in AccountId : balance'[b] = Expected(b)'
    BY <1>3, <1>b, <2>2 DEF At
  <2> QED BY <1>0, <2>1, <2>2, <2>3, OneBanked
<1>14. ASSUME CommitEdit(p) PROVE Banked'
  <2>1. Only(p) /\ At(p, "editing") /\ Done(p) /\ payment' = payment /\ moved' = moved
    BY <1>1, <1>14 DEF CommitEdit, At
  <2>2. balance' = balance
    BY <1>0, <1>14, <2>1 DEF CommitEdit, Banked
  <2>3. \A b \in AccountId : balance'[b] = Expected(b)'
    BY <1>3, <1>b, <2>1, <2>2 DEF At
  <2> QED BY <1>0, <1>4, <2>1, <2>3, OneBanked
<1>15. ASSUME Die(p) PROVE FALSE
  BY <1>15 DEF Die, Solo
<1> QED
  BY <1>5, <1>6, <1>7, <1>8, <1>9, <1>10, <1>11, <1>12, <1>13, <1>14, <1>15
     DEF PaymentForms, AccountForms

LEMMA BankedStep == TypeOK /\ Books /\ Receipts /\ Banked /\ [Next]_vars => Banked'
<1> SUFFICES ASSUME TypeOK, Books, Receipts, Banked, [Next]_vars, Solo' PROVE Banked'
  BY DEF Banked
<1>1. ASSUME NEW p \in Session, PaymentForms(p) \/ AccountForms(p) PROVE Banked'
  <2>1. scene' = scene
    BY <1>1 DEF PaymentForms, AccountForms, Receive, Disburse, Pay, AskUndo, CommitUndo,
                FailUndo, Distribute, RetireClaim, AskTransfer, CommitTransfer, AskEdit,
                CommitEdit, Die
  <2> QED BY <1>1, <2>1, RequestsBanked DEF Solo
<1>2. CASE UNCHANGED <<scene, session, balance, moved, payment>>
  BY <1>2 DEF Banked, Solo, At, Expected, Held, Counted, OnItsWay
<1>3. Overdue \/ UNCHANGED vars => UNCHANGED <<scene, session, balance, moved, payment>>
  BY DEF Overdue, FallDue, ListReceivables, ListPayables, NightlyList, NightlyReceivables,
         NightlyPayables, NightlyDies, vars
<1> QED BY <1>1, <1>2, <1>3 DEF Next

LEMMA InitBanked == Init => Banked
<1> SUFFICES ASSUME Init PROVE Banked
  OBVIOUS
<1>1. \A p \in Session : session[p].stage = "idle"
  BY DEF Init, Idle
<1>2. ASSUME NEW a \in AccountId PROVE balance[a] = Expected(a)
  <2> DEFINE f == [k \in PaymentId |-> Counted(k, a)]
  <2>1. f \in [1..Payments -> Int] /\ (\A k \in 1..Payments : f[k] = 0)
        /\ Payments \in Nat /\ Payments \in 0..Payments
    BY Numbers DEF Init, NoPayment, Counted, PaymentId
  <2>2. Held(a) = SumTo(f, Payments)
    BY DEF Held
  <2> HIDE DEF f
  <2>3. Held(a) = 0
    BY <2>1, <2>2, SumToZero
  <2>4. balance[a] = Opening /\ moved[a] = 0 /\ Opening \in Int
    BY Numbers DEF Init, Nothing
  <2> QED BY <2>3, <2>4 DEF Expected
<1> QED BY <1>1, <1>2 DEF Banked, At

\* One request at a time and none dying, with the nightly job and the list pages
\* beside it: the balance of every account is its opening balance, the active
\* payments and the transfers of that account, whatever was undone or edited.
THEOREM BalancesExact == Spec => []BankExact
<1>1. Banked => BankExact
  <2>1. ASSUME Banked, Solo, AtRest PROVE \A a \in AccountId : balance[a] = Expected(a)
    BY <2>1 DEF Banked, AtRest, At
  <2> QED BY <2>1 DEF BankExact, Solo, Expected, Held
<1> QED
  BY <1>1, InitBanked, BankedStep, InitBooks, BooksStep,
     InitReceipts, ReceiptsStep, InitType, NextType, PTL DEF Spec
=============================================================================
