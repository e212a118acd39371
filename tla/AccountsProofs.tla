---------------------------- MODULE AccountsProofs ----------------------------
(* Machine-checked: what the components about accounts promise, for any number *)
(* of owners, requests, clients, people, stores, products and pictures.       *)
EXTENDS MCAccounts, FiniteSetTheorems, WellFoundedInduction, TLAPS

-----------------------------------------------------------------------------
(* Registration: types.                                                      *)

\* What a request in flight carries.
WithOwner == {"captcha", "signup", "resend", "wrong", "conflict", "limit", "send", "right", "check", "claim",
              "commit"}

RequestRows ==
    /\ DOMAIN request = Requests
    /\ \A r \in Requests :
          /\ request[r].at \in WithOwner => request[r].owner \in Owners
          /\ In(r, "send") => request[r].cred \in 1..sent
          /\ In(r, "right") => request[r].cred \in 0..MaxCredentials
          /\ In(r, "commit") => request[r].slug \in Slugs

RegistrationTyped == RegistrationTypeOK /\ admitted \in [Keys -> Nat] /\ RequestRows

RegRow == [status : {"NONE", "EMAIL_PENDING", "EMAIL_VERIFIED", "CONSUMED"},
           cred : 0..MaxCredentials, until : 0..(MaxWindows + 1), fails : 0..OtpMax,
           token : 0..MaxCredentials, tokenUntil : 0..(MaxWindows + 1)]

\* A set of natural numbers has a least one.
LEMMA LeastExists ==
    ASSUME NEW T \in SUBSET Nat, T # {}
    PROVE  \E n \in T : \A m \in T : n <= m
<1> DEFINE F == {0..n : n \in T}
<1>1. F \subseteq FiniteSubsetsOf(Nat) /\ F # {}
  <2>1. \A n \in T : IsFiniteSet(0..n) /\ 0..n \in SUBSET Nat
    BY FS_Interval
  <2>2. QED
    BY <2>1 DEF FiniteSubsetsOf
<1>2. IsWellFoundedOn(StrictSubsetOrdering(Nat), FiniteSubsetsOf(Nat))
  BY FS_StrictSubsetOrderingWellFounded
<1> HIDE DEF F
<1>3. PICK x \in F : \A y \in F : ~(<<y, x>> \in StrictSubsetOrdering(Nat))
  BY <1>1, <1>2, WFMin
<1>4. PICK n \in T : x = 0..n
  BY DEF F
<1>5. ASSUME NEW m \in T, m < n PROVE FALSE
  <2>1. 0..m \in F
    BY DEF F
  <2>2. 0..m \subseteq 0..n /\ 0..m # 0..n /\ 0..m \subseteq Nat /\ 0..n \subseteq Nat
    <3>1. n \in 0..n /\ n \notin 0..m
      BY <1>5
    <3>2. QED
      BY <1>5, <3>1
  <2>3. QED
    BY <1>3, <1>4, <2>1, <2>2 DEF StrictSubsetOrdering
<1>6. QED
  BY <1>4, <1>5

\* There is a free number for every name: there are more of them than tenants.
LEMMA SlugIsFree ==
    ASSUME RegistrationTypeOK, NEW o \in Owners
    PROVE  /\ FreeSlug(o) \in Slugs
           /\ \A p \in Owners : trial[p] # FreeSlug(o)
<1> DEFINE N == Cardinality(Owners)
           T == {n \in Nat : n >= Name[o] /\ \A p \in Owners : trial[p] # n}
<1>1. N \in Nat /\ Name[o] \in 1..N
  BY RegistrationAssumption, FS_CardinalityType
<1>2. \E n \in Name[o]..(2 * N) : \A p \in Owners : trial[p] # n
  <2>1. SUFFICES ASSUME \A n \in Name[o]..(2 * N) : \E p \in Owners : trial[p] = n
                 PROVE  FALSE
    OBVIOUS
  <2> DEFINE I == Name[o]..(2 * N)
             f == [n \in I |-> CHOOSE p \in Owners : trial[p] = n]
  <2>2. IsFiniteSet(I) /\ Cardinality(I) = 2 * N - Name[o] + 1
    <3>1. Name[o] \in Int /\ 2 * N \in Int /\ ~(Name[o] > 2 * N)
      BY <1>1
    <3>2. QED
      BY <3>1, FS_Interval
  <2>3. \A n \in I : f[n] \in Owners /\ trial[f[n]] = n
    BY <2>1
  <2>4. f \in [I -> Owners]
    BY <2>3
  <2>5. Cardinality(Owners) < Cardinality(I)
    BY <1>1, <2>2
  <2> HIDE DEF f, I
  <2>6. \E x, y \in I : x # y /\ f[x] = f[y]
    BY <2>2, <2>4, <2>5, RegistrationAssumption, FS_PigeonHole
  <2>7. QED
    BY <2>3, <2>6
<1>3. T # {} /\ T \subseteq Nat
  BY <1>1, <1>2
<1>4. PICK n \in T : \A m \in T : n <= m
  BY <1>3, LeastExists
<1>5. n \in 1..(2 * N)
  BY <1>1, <1>2, <1>4
<1>6. \A m \in Name[o]..(n - 1) : \E p \in Owners : trial[p] = m
  BY <1>1, <1>4
<1>7. \E x \in Slugs : /\ x >= Name[o] /\ \A p \in Owners : trial[p] # x
                       /\ \A m \in Name[o]..(x - 1) : \E p \in Owners : trial[p] = m
  BY <1>4, <1>5, <1>6 DEF Slugs
<1>8. QED
  BY <1>7 DEF FreeSlug

LEMMA BoundsAreNat ==
    /\ EmailLimit \in Nat /\ DeviceLimit \in Nat /\ OtpMax \in Nat
    /\ MaxCredentials \in Nat /\ MaxWindows \in Nat
  BY RegistrationAssumption

\* A row of OwnerRegistration, by its columns.
LEMMA RegRows ==
    ASSUME NEW row \in RegRow
    PROVE  /\ \A c \in 0..MaxCredentials, u \in 0..(MaxWindows + 1) :
                 [row EXCEPT !.cred = c, !.until = u] \in RegRow
           /\ \A c \in 0..MaxCredentials, u \in 0..(MaxWindows + 1) :
                 [row EXCEPT !.cred = c, !.until = u, !.fails = 0] \in RegRow
           /\ \A n \in 0..OtpMax : [row EXCEPT !.fails = n] \in RegRow
           /\ [row EXCEPT !.status = "CONSUMED"] \in RegRow
<1>1. 0 \in 0..OtpMax
  BY BoundsAreNat
<1>2. \A c \in 0..MaxCredentials, u \in 0..(MaxWindows + 1) :
         /\ [row EXCEPT !.cred = c, !.until = u] \in RegRow
         /\ [row EXCEPT !.cred = c, !.until = u, !.fails = 0] \in RegRow
  BY <1>1 DEF RegRow
<1>3. \A n \in 0..OtpMax : [row EXCEPT !.fails = n] \in RegRow
  BY DEF RegRow
<1>4. [row EXCEPT !.status = "CONSUMED"] \in RegRow
  BY DEF RegRow
<1>5. QED
  BY <1>2, <1>3, <1>4

LEMMA RowFields ==
    ASSUME NEW row \in RegRow
    PROVE  /\ row.cred \in Nat /\ row.until \in Nat /\ row.fails \in Nat /\ row.token \in Nat
           /\ row.cred \in 0..MaxCredentials /\ row.token \in 0..MaxCredentials /\ row.fails <= OtpMax
  BY BoundsAreNat DEF RegRow

\* A new credential keeps the types.
LEMMA RenewTyped ==
    ASSUME RegistrationTyped, NEW r \in Requests, NEW o \in Owners, NEW row \in RegRow,
           Renew(r, o, row), UNCHANGED <<window, users, invited, trial, bucket, admitted>>
    PROVE  RegistrationTyped'
<1>1. sent + 1 \in 0..MaxCredentials /\ window + 1 \in 0..(MaxWindows + 1)
  BY RegistrationAssumption DEF Renew, RegistrationTyped, RegistrationTypeOK, Windows
<1>2. Renewed(row, sent + 1) \in RegRow
  BY <1>1, RegRows DEF Renewed
<1>3. reg' \in [Owners -> RegRow]
  BY <1>2 DEF Renew, RegistrationTyped, RegistrationTypeOK, RegRow
<1>4. RequestRows'
  <2>1. \A q \in Requests \ {r} : request'[q] = request[q]
    BY DEF Renew, RegistrationTyped, RequestRows
  <2>2. request'[r] = [at |-> "send", owner |-> o, cred |-> sent + 1] /\ DOMAIN request' = Requests
    BY DEF Renew, RegistrationTyped, RequestRows
  <2>3. sent' = sent + 1 /\ sent \in Nat
    BY RegistrationAssumption DEF Renew, RegistrationTyped, RegistrationTypeOK
  <2>4. ASSUME NEW q \in Requests \ {r}
        PROVE  /\ request'[q].at \in WithOwner => request'[q].owner \in Owners
               /\ In(q, "send")' => request'[q].cred \in 1..sent'
               /\ In(q, "right")' => request'[q].cred \in 0..MaxCredentials
               /\ In(q, "commit")' => request'[q].slug \in Slugs
    BY <2>1, <2>3 DEF RegistrationTyped, RequestRows, In
  <2>5. /\ request'[r].owner \in Owners /\ request'[r].cred \in 1..sent'
        /\ ~In(r, "right")' /\ ~In(r, "commit")'
    BY <2>2, <2>3 DEF In
  <2>6. QED
    BY <2>2, <2>4, <2>5 DEF RequestRows
<1>5. QED
  BY <1>1, <1>3, <1>4 DEF Renew, RegistrationTyped, RegistrationTypeOK, RegRow

\* A request that goes on, or ends, leaves the others alone.
LEMMA RequestsTyped ==
    ASSUME RegistrationTyped, NEW r \in Requests, NEW row, UNCHANGED sent,
           request' = [request EXCEPT ![r] = row],
           row.at \in WithOwner => row.owner \in Owners,
           row.at # "send", row.at = "right" => row.cred \in 0..MaxCredentials,
           row.at = "commit" => row.slug \in Slugs
    PROVE  RequestRows'
<1>1. DOMAIN request' = Requests /\ request'[r] = row /\ \A q \in Requests \ {r} : request'[q] = request[q]
  BY DEF RegistrationTyped, RequestRows
<1>2. ASSUME NEW q \in Requests \ {r}
      PROVE  /\ request'[q].at \in WithOwner => request'[q].owner \in Owners
             /\ In(q, "send")' => request'[q].cred \in 1..sent'
             /\ In(q, "right")' => request'[q].cred \in 0..MaxCredentials
             /\ In(q, "commit")' => request'[q].slug \in Slugs
  BY <1>1 DEF RegistrationTyped, RequestRows, In
<1>3. QED
  BY <1>1, <1>2 DEF RequestRows, In

LEMMA AnswerTyped ==
    ASSUME RegistrationTyped, NEW r \in Requests, UNCHANGED sent, Answer(r)
    PROVE  RequestRows'
<1>1. NoRequest.at = "idle" /\ "idle" \notin WithOwner
  BY DEF NoRequest, WithOwner
<1>2. QED
  BY <1>1, RequestsTyped DEF Answer

LEMMA GotoTyped ==
    ASSUME RegistrationTyped, NEW r \in Requests, NEW o \in Owners, UNCHANGED sent,
           NEW step \in {"captcha", "signup", "resend", "wrong", "conflict", "limit"}, Goto(r, step, o)
    PROVE  RequestRows'
<1>1. [at |-> step, owner |-> o].at = step /\ [at |-> step, owner |-> o].owner = o
  OBVIOUS
<1>2. QED
  BY <1>1, RequestsTyped DEF Goto

LEMMA ReadTyped ==
    ASSUME RegistrationTyped, NEW r \in Requests, NEW o \in Owners, NEW x, UNCHANGED sent,
           \/ /\ request' = [request EXCEPT ![r] = [at |-> "right", owner |-> o, cred |-> x]]
              /\ x \in 0..MaxCredentials
           \/ request' = [request EXCEPT ![r] = [at |-> "check", owner |-> o, token |-> x]]
           \/ request' = [request EXCEPT ![r] = [at |-> "claim", owner |-> o, token |-> x]]
           \/ /\ request' = [request EXCEPT ![r] = [at |-> "commit", owner |-> o, slug |-> x]]
              /\ x \in Slugs
    PROVE  RequestRows'
<1> DEFINE right == [at |-> "right", owner |-> o, cred |-> x]
           check == [at |-> "check", owner |-> o, token |-> x]
           claim == [at |-> "claim", owner |-> o, token |-> x]
           commit == [at |-> "commit", owner |-> o, slug |-> x]
<1>1. /\ right.at = "right" /\ right.owner = o /\ right.cred = x
      /\ check.at = "check" /\ check.owner = o
      /\ claim.at = "claim" /\ claim.owner = o
      /\ commit.at = "commit" /\ commit.owner = o /\ commit.slug = x
  OBVIOUS
<1>2. \E row \in {right, check, claim, commit} :
         /\ request' = [request EXCEPT ![r] = row]
         /\ row.owner = o /\ row.at # "send"
         /\ row.at = "right" => row.cred \in 0..MaxCredentials
         /\ row.at = "commit" => row.slug \in Slugs
  BY <1>1
<1> HIDE DEF right, check, claim, commit
<1>3. PICK row :
         /\ request' = [request EXCEPT ![r] = row]
         /\ row.owner = o /\ row.at # "send"
         /\ row.at = "right" => row.cred \in 0..MaxCredentials
         /\ row.at = "commit" => row.slug \in Slugs
  BY <1>2
<1>4. QED
  BY <1>3, RequestsTyped

LEMMA SameRegistration ==
    ASSUME RegistrationTyped, UNCHANGED registrationVars
    PROVE  RegistrationTyped'
  BY DEF RegistrationTyped, RegistrationTypeOK, registrationVars, RequestRows, In, Windows

LEMMA SameRequestRows ==
    ASSUME RegistrationTyped, UNCHANGED <<request, sent>>
    PROVE  RequestRows'
  BY DEF RegistrationTyped, RequestRows, In

LEMMA RegistrationStepTyped ==
    ASSUME RegistrationTyped, RegistrationNext
    PROVE  RegistrationTyped'
<1> USE DEF RegistrationTyped
<1>1. CASE NextWindow
  <2>1. window' \in Windows
    BY <1>1, BoundsAreNat DEF NextWindow, RegistrationTypeOK, Windows
  <2>2. RequestRows'
    BY <1>1, SameRequestRows DEF NextWindow
  <2>3. QED
    BY <1>1, <2>1, <2>2 DEF NextWindow, RegistrationTypeOK
<1>2. ASSUME NEW o \in Owners, ReviewRejection(o) \/ BecomeUser(o)
      PROVE  RegistrationTyped'
  <2>1. RequestRows'
    BY <1>2, SameRequestRows DEF ReviewRejection, BecomeUser
  <2>2. QED
    BY <1>2, <2>1 DEF ReviewRejection, BecomeUser, RegistrationTypeOK
<1>3. ASSUME NEW o \in Owners, NEW r \in Requests, ConsumeLimits(r, o)
      PROVE  RegistrationTyped'
  <2>1. bucket' \in [Keys -> Nat]
    BY <1>3 DEF ConsumeLimits, RegistrationTypeOK
  <2>2. admitted' \in [Keys -> Nat]
    <3>1. [k \in Keys |-> IF k \in KeysOf(o) THEN admitted[k] + 1 ELSE admitted[k]] \in [Keys -> Nat]
      OBVIOUS
    <3>2. QED
      BY <1>3, <3>1 DEF ConsumeLimits
  <2>3. RequestRows'
    <3>1. CASE UNCHANGED request
      BY <1>3, <3>1, SameRequestRows DEF ConsumeLimits
    <3>2. CASE Goto(r, "captcha", o)
      BY <1>3, <3>2, GotoTyped DEF ConsumeLimits
    <3>3. QED
      BY <1>3, <3>1, <3>2 DEF ConsumeLimits
  <2>4. QED
    BY <1>3, <2>1, <2>2, <2>3 DEF ConsumeLimits, RegistrationTypeOK
<1>4. ASSUME NEW o \in Owners, NEW r \in Requests, ResendRead(r, o)
      PROVE  RegistrationTyped'
  <2>1. RequestRows'
    BY <1>4, GotoTyped DEF ResendRead
  <2>2. QED
    BY <1>4, <2>1 DEF ResendRead, RegistrationTypeOK
<1>5. ASSUME NEW o \in Owners, NEW r \in Requests, VerifyRead(r, o)
      PROVE  RegistrationTyped'
  <2>1. reg[o].cred \in 0..MaxCredentials
    BY RowFields DEF RegistrationTypeOK, RegRow
  <2>2. CASE Goto(r, "wrong", o)
    <3>1. RequestRows'
      BY <1>5, <2>2, GotoTyped DEF VerifyRead
    <3>2. QED
      BY <1>5, <3>1 DEF VerifyRead, RegistrationTypeOK
  <2>3. CASE request' = [request EXCEPT ![r] = [at |-> "right", owner |-> o, cred |-> reg[o].cred]]
    <3>1. RequestRows'
      BY <1>5, <2>1, <2>3, ReadTyped DEF VerifyRead
    <3>2. QED
      BY <1>5, <3>1 DEF VerifyRead, RegistrationTypeOK
  <2>4. QED
    BY <1>5, <2>2, <2>3 DEF VerifyRead
<1>6. ASSUME NEW o \in Owners, NEW r \in Requests, ProvisionRead(r, o)
      PROVE  RegistrationTyped'
  <2>1. RequestRows'
    BY <1>6, ReadTyped DEF ProvisionRead
  <2>2. QED
    BY <1>6, <2>1 DEF ProvisionRead, RegistrationTypeOK
<1>7. ASSUME NEW r \in Requests, CaptchaAnswers(r)
      PROVE  RegistrationTyped'
  <2>1. request[r].owner \in Owners
    BY <1>7 DEF CaptchaAnswers, RequestRows, In, WithOwner
  <2>2. RequestRows'
    BY <1>7, <2>1, AnswerTyped, GotoTyped DEF CaptchaAnswers
  <2>3. QED
    BY <1>7, <2>2 DEF CaptchaAnswers, RegistrationTypeOK
<1>8. ASSUME NEW r \in Requests, SignupCommit(r)
      PROVE  RegistrationTyped'
  <2>1. PICK o \in Owners : o = request[r].owner
    BY <1>8 DEF SignupCommit, RequestRows, In, WithOwner
  <2>2. UNCHANGED <<window, users, invited, trial, bucket, admitted>>
    BY <1>8 DEF SignupCommit
  <2>3. CASE Renew(r, o, [NoRow EXCEPT !.status = "EMAIL_PENDING"])
    <3>1. [NoRow EXCEPT !.status = "EMAIL_PENDING"] \in RegRow
      BY BoundsAreNat DEF NoRow, RegRow
    <3>2. QED
      BY <2>2, <2>3, <3>1, RenewTyped
  <2>4. CASE Renew(r, o, reg[o])
    <3>1. reg[o] \in RegRow
      BY DEF RegistrationTypeOK, RegRow
    <3>2. QED
      BY <2>2, <2>4, <3>1, RenewTyped
  <2>5. CASE Answer(r) /\ UNCHANGED <<reg, sent, mailed>>
    <3>1. RequestRows'
      BY <2>5, AnswerTyped
    <3>2. QED
      BY <2>2, <2>5, <3>1 DEF RegistrationTypeOK
  <2>6. QED
    BY <1>8, <2>1, <2>3, <2>4, <2>5 DEF SignupCommit
<1>9. ASSUME NEW r \in Requests, ResendRenew(r)
      PROVE  RegistrationTyped'
  <2>1. PICK o \in Owners : o = request[r].owner
    BY <1>9 DEF ResendRenew, RequestRows, In, WithOwner
  <2>2. UNCHANGED <<window, users, invited, trial, bucket, admitted>>
    BY <1>9 DEF ResendRenew
  <2>3. CASE Renew(r, o, reg[o])
    <3>1. reg[o] \in RegRow
      BY DEF RegistrationTypeOK, RegRow
    <3>2. QED
      BY <2>2, <2>3, <3>1, RenewTyped
  <2>4. CASE Answer(r) /\ UNCHANGED <<reg, sent, mailed>>
    <3>1. RequestRows'
      BY <2>4, AnswerTyped
    <3>2. QED
      BY <2>2, <2>4, <3>1 DEF RegistrationTypeOK
  <2>5. QED
    BY <1>9, <2>1, <2>3, <2>4 DEF ResendRenew
<1>10. ASSUME NEW r \in Requests, Delivered(r) \/ DeliveryFails(r) \/ VerifyWrong(r) \/ VerifyAccept(r)
      PROVE  RegistrationTyped'
  <2>1. PICK o \in Owners : o = request[r].owner
    BY <1>10 DEF Delivered, DeliveryFails, VerifyWrong, VerifyAccept, RequestRows, In, WithOwner
  <2>2. RequestRows'
    BY <1>10, AnswerTyped DEF Delivered, DeliveryFails, VerifyWrong, VerifyAccept
  <2>3. mailed' \subseteq Owners
    BY <1>10, <2>1 DEF Delivered, DeliveryFails, VerifyWrong, VerifyAccept, RegistrationTypeOK
  <2>4. reg[o] \in RegRow /\ reg \in [Owners -> RegRow]
    BY DEF RegistrationTypeOK, RegRow
  <2>5. reg' \in [Owners -> RegRow]
    <3>1. CASE UNCHANGED reg
      BY <2>4, <3>1
    <3>2. CASE reg' = [reg EXCEPT ![o].cred = 0, ![o].until = 0]
      <4>1. 0 \in 0..MaxCredentials /\ 0 \in 0..(MaxWindows + 1)
        BY BoundsAreNat
      <4>2. [reg[o] EXCEPT !.cred = 0, !.until = 0] \in RegRow
        BY <2>4, <4>1, RegRows
      <4>3. QED
        BY <2>4, <3>2, <4>2
    <3>3. CASE Counts(reg[o]) /\ reg' = [reg EXCEPT ![o].fails = @ + 1]
      <4>1. reg[o].fails + 1 \in 0..OtpMax
        BY <2>4, <3>3, RowFields, BoundsAreNat DEF Counts
      <4>2. [reg[o] EXCEPT !.fails = reg[o].fails + 1] \in RegRow
        BY <2>4, <4>1, RegRows
      <4>3. QED
        BY <2>4, <3>3, <4>2
    <3>4. CASE VerifyAccept(r)
      <4>1. request[r].cred \in 0..MaxCredentials
        BY <3>4 DEF VerifyAccept, RequestRows
      <4>2. window + 1 \in 0..(MaxWindows + 1)
        BY BoundsAreNat DEF RegistrationTypeOK, Windows
      <4>3. [status |-> "EMAIL_VERIFIED", cred |-> 0, until |-> 0, fails |-> 0,
             token |-> request[r].cred, tokenUntil |-> window + 1] \in RegRow
        BY <4>1, <4>2, BoundsAreNat DEF RegRow
      <4>4. QED
        BY <2>1, <2>4, <3>4, <4>3 DEF VerifyAccept
    <3>5. QED
      BY <1>10, <2>1, <3>1, <3>2, <3>3, <3>4 DEF Delivered, DeliveryFails, VerifyWrong
  <2>6. QED
    BY <1>10, <2>2, <2>3, <2>5
       DEF Delivered, DeliveryFails, VerifyWrong, VerifyAccept, RegistrationTypeOK, RegRow
<1>11. ASSUME NEW r \in Requests, ProvisionClaim(r)
      PROVE  RegistrationTyped'
  <2>1. PICK o \in Owners : o = request[r].owner
    BY <1>11 DEF ProvisionClaim, RequestRows, In, WithOwner
  <2>2. FreeSlug(o) \in Slugs
    BY SlugIsFree
  <2>3. CASE request' = [request EXCEPT ![r] = [at |-> "commit", owner |-> o, slug |-> FreeSlug(o)]]
    <3>1. RequestRows'
      BY <1>11, <2>2, <2>3, ReadTyped DEF ProvisionClaim
    <3>2. QED
      BY <1>11, <3>1 DEF ProvisionClaim, RegistrationTypeOK
  <2>4. CASE Answer(r) \/ Goto(r, "conflict", o)
    <3>1. RequestRows'
      BY <1>11, <2>4, AnswerTyped, GotoTyped DEF ProvisionClaim
    <3>2. QED
      BY <1>11, <3>1 DEF ProvisionClaim, RegistrationTypeOK
  <2>5. QED
    BY <1>11, <2>1, <2>3, <2>4 DEF ProvisionClaim
<1>12. ASSUME NEW r \in Requests, ProvisionCommit(r)
      PROVE  RegistrationTyped'
  <2>1. PICK o \in Owners : o = request[r].owner
    BY <1>12 DEF ProvisionCommit, RequestRows, In, WithOwner
  <2>2. request[r].slug \in Slugs
    BY <1>12 DEF ProvisionCommit, RequestRows
  <2>3. RequestRows'
    BY <1>12, <2>1, AnswerTyped, GotoTyped DEF ProvisionCommit
  <2>4. [reg[o] EXCEPT !.status = "CONSUMED"] \in RegRow /\ reg \in [Owners -> RegRow]
    BY RegRows DEF RegistrationTypeOK, RegRow
  <2>5. reg' \in [Owners -> RegRow]
    BY <1>12, <2>1, <2>4 DEF ProvisionCommit
  <2>6. QED
    BY <1>12, <2>1, <2>2, <2>3, <2>5 DEF ProvisionCommit, RegistrationTypeOK, RegRow
<1>13. ASSUME NEW r \in Requests, ProvisionAbort(r)
      PROVE  RegistrationTyped'
  <2>1. RequestRows'
    BY <1>13, AnswerTyped DEF ProvisionAbort
  <2>2. QED
    BY <1>13, <2>1 DEF ProvisionAbort, RegistrationTypeOK
<1>14. ASSUME NEW r \in Requests, ProvisionCheck(r)
      PROVE  RegistrationTyped'
  <2>1. PICK o \in Owners : o = request[r].owner
    BY <1>14 DEF ProvisionCheck, RequestRows, In, WithOwner
  <2>2. RequestRows'
    BY <1>14, <2>1, GotoTyped, ReadTyped DEF ProvisionCheck
  <2>3. QED
    BY <1>14, <2>2 DEF ProvisionCheck, RegistrationTypeOK
<1>15. QED
  BY <1>1, <1>2, <1>3, <1>4, <1>5, <1>6, <1>7, <1>8, <1>9, <1>10, <1>11, <1>12, <1>13, <1>14
     DEF RegistrationNext

LEMMA InitRegistrationTyped ==
    ASSUME RegistrationInit
    PROVE  RegistrationTyped
<1>1. NoRow \in RegRow
  BY BoundsAreNat DEF NoRow, RegRow
<1>2. 0 \in Windows /\ 0 \in 0..MaxCredentials
  BY BoundsAreNat DEF Windows
<1>3. RequestRows
  BY DEF RegistrationInit, RequestRows, NoRequest, In, WithOwner
<1>4. QED
  BY <1>1, <1>2, <1>3 DEF RegistrationInit, RegistrationTyped, RegistrationTypeOK, RegRow

-----------------------------------------------------------------------------
(* Registration: the limits.  Who is let through is counted in the bucket of   *)
(* the same window, so the bucket bounds what was let through.                 *)

Bucketed == \A k \in Keys : admitted[k] <= bucket[k]

LEMMA LimitsKept ==
    ASSUME RegistrationTyped, LimitsHold, Bucketed, RegistrationNext
    PROVE  LimitsHold' /\ Bucketed'
<1> USE DEF RegistrationTyped
<1>1. CASE NextWindow
  <2>1. \A k \in Keys : LimitOf(k) \in Nat
    BY BoundsAreNat DEF LimitOf
  <2>2. QED
    BY <1>1, <2>1 DEF NextWindow, LimitsHold, Bucketed, LimitOf
<1>2. ASSUME NEW o \in Owners, NEW r \in Requests, ConsumeLimits(r, o)
      PROVE  LimitsHold' /\ Bucketed'
  <2>1. ASSUME NEW k \in Keys
        PROVE  /\ admitted[k] \in Nat /\ bucket[k] \in Nat /\ LimitOf(k) \in Nat
               /\ admitted[k] <= bucket[k] /\ admitted[k] <= LimitOf(k)
               /\ bucket'[k] = IF k \in KeysOf(o) THEN bucket[k] + 1 ELSE bucket[k]
    BY <1>2, BoundsAreNat DEF ConsumeLimits, LimitsHold, Bucketed, RegistrationTypeOK, LimitOf
  <2>2. CASE UNCHANGED admitted
    BY <2>1, <2>2 DEF LimitsHold, Bucketed, LimitOf
  <2>3. CASE /\ ~(\E k \in KeysOf(o) : Exceeds(bucket'[k], k))
             /\ admitted' = [k \in Keys |-> IF k \in KeysOf(o) THEN admitted[k] + 1 ELSE admitted[k]]
    <3>1. ASSUME NEW k \in Keys
          PROVE  admitted'[k] <= bucket'[k] /\ admitted'[k] <= LimitOf(k)
      <4>1. admitted'[k] = IF k \in KeysOf(o) THEN admitted[k] + 1 ELSE admitted[k]
        BY <2>3
      <4>2. admitted'[k] <= bucket'[k]
        BY <2>1, <4>1
      <4>3. CASE k \in KeysOf(o)
        <5>1. ~(bucket'[k] > LimitOf(k))
          BY <2>3, <4>3 DEF Exceeds
        <5>2. QED
          BY <2>1, <4>1, <4>2, <4>3, <5>1
      <4>4. QED
        BY <2>1, <4>1, <4>2, <4>3
    <3>2. QED
      BY <3>1 DEF LimitsHold, Bucketed, LimitOf
  <2>4. QED
    BY <1>2, <2>2, <2>3 DEF ConsumeLimits
<1>3. CASE UNCHANGED <<bucket, admitted>>
  BY <1>3 DEF LimitsHold, Bucketed, LimitOf
<1>4. QED
  BY <1>1, <1>2, <1>3
     DEF RegistrationNext, ReviewRejection, BecomeUser, ResendRead, VerifyRead, ProvisionRead,
         CaptchaAnswers, SignupCommit, ResendRenew, Delivered, DeliveryFails, VerifyWrong,
         VerifyAccept, ProvisionCheck, ProvisionClaim, ProvisionCommit, ProvisionAbort

-----------------------------------------------------------------------------
(* Registration: the credentials.  A credential has one number and one request *)
(* that sends it; who has received one holds the one in force.                 *)

CredentialsTold ==
    /\ \A o \in Owners : /\ reg[o].cred <= sent
                         /\ reg[o].status = "NONE" => reg[o].token = 0 /\ reg[o].cred = 0
                         /\ o \in mailed => reg[o].cred # 0
    /\ \A r \in Requests : In(r, "send") /\ reg[request[r].owner].cred = request[r].cred
                               => request[r].owner \notin mailed
    /\ \A r, q \in Requests : In(r, "send") /\ In(q, "send") /\ request[r].cred = request[q].cred
                                  => r = q

\* A new credential has a number that nothing else has.
LEMMA RenewTold ==
    ASSUME RegistrationTyped, CredentialsTold, NEW r \in Requests, NEW o \in Owners, NEW row \in RegRow,
           Renew(r, o, row), row.status # "NONE"
    PROVE  CredentialsTold'
<1>1. /\ sent \in Nat /\ sent' = sent + 1 /\ mailed' = mailed \ {o}
      /\ request'[r] = [at |-> "send", owner |-> o, cred |-> sent + 1]
      /\ \A q \in Requests \ {r} : request'[q] = request[q]
      /\ \A p \in Owners \ {o} : reg'[p] = reg[p]
      /\ reg'[o] = Renewed(row, sent + 1)
  BY BoundsAreNat DEF Renew, RegistrationTyped, RegistrationTypeOK, RequestRows
<1>2. reg'[o].cred = sent + 1 /\ reg'[o].status = row.status
  BY <1>1 DEF Renewed, RegRow
<1>3. ASSUME NEW p \in Owners
      PROVE  /\ reg'[p].cred <= sent'
             /\ reg'[p].status = "NONE" => reg'[p].token = 0 /\ reg'[p].cred = 0
             /\ p \in mailed' => reg'[p].cred # 0
  <2>1. CASE p = o
    BY <1>1, <1>2, <2>1
  <2>2. CASE p # o
    <3>1. reg[p].cred \in Nat
      BY RowFields DEF RegistrationTyped, RegistrationTypeOK, RegRow
    <3>2. QED
      BY <1>1, <2>2, <3>1 DEF CredentialsTold
  <2>3. QED
    BY <2>1, <2>2
<1>4. ASSUME NEW q \in Requests, In(q, "send")', reg'[request'[q].owner].cred = request'[q].cred
      PROVE  request'[q].owner \notin mailed'
  <2>1. CASE q = r
    BY <1>1, <2>1
  <2>2. CASE q # r
    <3>1. In(q, "send") /\ request'[q] = request[q] /\ request[q].owner \in Owners /\ request[q].cred <= sent
      BY <1>1, <1>4, <2>2 DEF In, RegistrationTyped, RequestRows, WithOwner
    <3>2. CASE request[q].owner = o
      BY <1>1, <3>1, <3>2
    <3>3. CASE request[q].owner # o
      BY <1>1, <1>4, <3>1, <3>3 DEF CredentialsTold
    <3>4. QED
      BY <3>2, <3>3
  <2>3. QED
    BY <2>1, <2>2
<1>5. ASSUME NEW p \in Requests, NEW q \in Requests, In(p, "send")', In(q, "send")',
             request'[p].cred = request'[q].cred
      PROVE  p = q
  <2>1. \A x \in Requests \ {r} : In(x, "send")' => In(x, "send") /\ request'[x].cred \in 1..sent
    BY <1>1 DEF In, RegistrationTyped, RequestRows
  <2>2. request'[r].cred = sent + 1
    BY <1>1
  <2>3. CASE p # r /\ q # r
    BY <1>1, <1>5, <2>1, <2>3 DEF CredentialsTold
  <2>4. QED
    BY <1>1, <1>5, <2>1, <2>2, <2>3
<1>6. QED
  BY <1>3, <1>4, <1>5 DEF CredentialsTold

\* A step in which no credential is sent: fewer are on their way, fewer owners
\* hold one, and a row that changes is one whose owner holds none any more.
LEMMA LessTold ==
    ASSUME RegistrationTyped, CredentialsTold, NEW r \in Requests, NEW o \in Owners, UNCHANGED sent,
           \A q \in Requests \ {r} : request'[q] = request[q],
           ~In(r, "send")',
           \A p \in Owners \ {o} : reg'[p] = reg[p] /\ (p \in mailed' => p \in mailed),
           \/ reg'[o].cred = reg[o].cred /\ (o \in mailed' => o \in mailed)
           \/ reg'[o].cred = 0 /\ o \notin mailed',
           reg'[o].status = "NONE" => reg'[o].token = 0 /\ reg'[o].cred = 0
    PROVE  CredentialsTold'
<1>1. \A p \in Owners : reg[p].cred \in Nat /\ sent \in Nat
  BY RowFields, BoundsAreNat DEF RegistrationTyped, RegistrationTypeOK, RegRow
<1>2. ASSUME NEW p \in Owners
      PROVE  /\ reg'[p].cred <= sent'
             /\ reg'[p].status = "NONE" => reg'[p].token = 0 /\ reg'[p].cred = 0
             /\ p \in mailed' => reg'[p].cred # 0
  BY <1>1 DEF CredentialsTold
<1>3. ASSUME NEW q \in Requests, In(q, "send")', reg'[request'[q].owner].cred = request'[q].cred
      PROVE  request'[q].owner \notin mailed'
  <2>1. q # r /\ In(q, "send") /\ request'[q] = request[q] /\ request[q].owner \in Owners
    BY <1>3 DEF In, RegistrationTyped, RequestRows, WithOwner
  <2>2. QED
    BY <1>3, <2>1 DEF CredentialsTold
<1>4. ASSUME NEW p \in Requests, NEW q \in Requests, In(p, "send")', In(q, "send")',
             request'[p].cred = request'[q].cred
      PROVE  p = q
  <2>1. p # r /\ q # r /\ In(p, "send") /\ In(q, "send")
    BY <1>4 DEF In
  <2>2. QED
    BY <1>4, <2>1 DEF CredentialsTold
<1>5. QED
  BY <1>2, <1>3, <1>4 DEF CredentialsTold

\* Only the request r moves, and it has nothing to send.
Moves(r) ==
    /\ \A q \in Requests \ {r} : request'[q] = request[q]
    /\ ~In(r, "send")'

LEMMA MovesOn ==
    ASSUME RegistrationTyped, NEW r \in Requests
    PROVE  /\ Answer(r) => Moves(r)
           /\ \A o, step : Goto(r, step, o) /\ step # "send" => Moves(r)
           /\ \A o, c : request' = [request EXCEPT ![r] = [at |-> "right", owner |-> o, cred |-> c]]
                         => Moves(r)
           /\ \A o, t : request' = [request EXCEPT ![r] = [at |-> "check", owner |-> o, token |-> t]]
                         => Moves(r)
           /\ \A o, t : request' = [request EXCEPT ![r] = [at |-> "claim", owner |-> o, token |-> t]]
                         => Moves(r)
           /\ \A o, n : request' = [request EXCEPT ![r] = [at |-> "commit", owner |-> o, slug |-> n]]
                         => Moves(r)
<1>1. DOMAIN request = Requests
  BY DEF RegistrationTyped, RequestRows
<1>2. ASSUME Answer(r) PROVE Moves(r)
  BY <1>1, <1>2 DEF Answer, NoRequest, Moves, In
<1>3. ASSUME NEW o, NEW step, Goto(r, step, o), step # "send" PROVE Moves(r)
  BY <1>1, <1>3 DEF Goto, Moves, In
<1>4. ASSUME NEW o, NEW c, request' = [request EXCEPT ![r] = [at |-> "right", owner |-> o, cred |-> c]]
      PROVE Moves(r)
  BY <1>1, <1>4 DEF Moves, In
<1>5. ASSUME NEW o, NEW t, request' = [request EXCEPT ![r] = [at |-> "claim", owner |-> o, token |-> t]]
      PROVE Moves(r)
  BY <1>1, <1>5 DEF Moves, In
<1>6. ASSUME NEW o, NEW n, request' = [request EXCEPT ![r] = [at |-> "commit", owner |-> o, slug |-> n]]
      PROVE Moves(r)
  BY <1>1, <1>6 DEF Moves, In
<1>7. ASSUME NEW o, NEW t, request' = [request EXCEPT ![r] = [at |-> "check", owner |-> o, token |-> t]]
      PROVE Moves(r)
  BY <1>1, <1>7 DEF Moves, In
<1>8. QED
  BY <1>2, <1>3, <1>4, <1>5, <1>6, <1>7

LEMMA StillTold ==
    ASSUME CredentialsTold, UNCHANGED <<reg, sent, mailed>>,
           UNCHANGED request \/ \E r \in Requests : Moves(r)
    PROVE  CredentialsTold'
<1>1. \A q \in Requests : In(q, "send")' => In(q, "send") /\ request'[q] = request[q]
  BY DEF In, Moves
<1>2. QED
  BY <1>1 DEF CredentialsTold

LEMMA ToldKept ==
    ASSUME RegistrationTyped, CredentialsTold, RegistrationNext
    PROVE  CredentialsTold'
<1>1. CASE UNCHANGED <<reg, sent, mailed, request>>
  BY <1>1, StillTold
<1>2. ASSUME NEW o \in Owners, NEW r \in Requests,
             ConsumeLimits(r, o) \/ ResendRead(r, o) \/ VerifyRead(r, o) \/ ProvisionRead(r, o)
      PROVE  CredentialsTold'
  <2>1. UNCHANGED request \/ Moves(r)
    BY <1>2, MovesOn DEF ConsumeLimits, ResendRead, VerifyRead, ProvisionRead
  <2>2. QED
    BY <1>2, <2>1, StillTold DEF ConsumeLimits, ResendRead, VerifyRead, ProvisionRead
<1>3. ASSUME NEW r \in Requests,
             CaptchaAnswers(r) \/ ProvisionCheck(r) \/ ProvisionClaim(r) \/ ProvisionAbort(r)
      PROVE  CredentialsTold'
  <2>1. Moves(r)
    BY <1>3, MovesOn DEF CaptchaAnswers, ProvisionCheck, ProvisionClaim, ProvisionAbort
  <2>2. QED
    BY <1>3, <2>1, StillTold DEF CaptchaAnswers, ProvisionCheck, ProvisionClaim, ProvisionAbort
<1>4. ASSUME NEW r \in Requests, SignupCommit(r) \/ ResendRenew(r)
      PROVE  CredentialsTold'
  <2>1. PICK o \in Owners : o = request[r].owner
    BY <1>4 DEF SignupCommit, ResendRenew, RegistrationTyped, RequestRows, In, WithOwner
  <2>2. CASE Renew(r, o, [NoRow EXCEPT !.status = "EMAIL_PENDING"])
    <3>1. /\ [NoRow EXCEPT !.status = "EMAIL_PENDING"] \in RegRow
          /\ [NoRow EXCEPT !.status = "EMAIL_PENDING"].status = "EMAIL_PENDING"
      BY BoundsAreNat DEF NoRow, RegRow
    <3>2. QED
      BY <2>2, <3>1, RenewTold
  <2>3. CASE Renew(r, o, reg[o]) /\ reg[o].status # "NONE"
    <3>1. reg[o] \in RegRow
      BY DEF RegistrationTyped, RegistrationTypeOK, RegRow
    <3>2. QED
      BY <2>3, <3>1, RenewTold
  <2>4. CASE Answer(r) /\ UNCHANGED <<reg, sent, mailed>>
    BY <2>4, MovesOn, StillTold
  <2>5. QED
    BY <1>4, <2>1, <2>2, <2>3, <2>4 DEF SignupCommit, ResendRenew, MayRenew, Verifiable
<1>5. ASSUME NEW r \in Requests, Delivered(r)
      PROVE  CredentialsTold'
  <2>1. PICK o \in Owners : o = request[r].owner
    BY <1>5 DEF Delivered, RegistrationTyped, RequestRows, In, WithOwner
  <2>2. Moves(r) /\ UNCHANGED <<reg, sent>>
    BY <1>5, MovesOn DEF Delivered
  <2>3. CASE UNCHANGED mailed
    BY <2>2, <2>3, StillTold
  <2>4. CASE reg[o].cred = request[r].cred /\ mailed' = mailed \union {o}
    <3>1. In(r, "send") /\ request[r].cred # 0
      BY <1>5 DEF Delivered, RegistrationTyped, RequestRows
    <3>2. ASSUME NEW q \in Requests, In(q, "send")', reg'[request'[q].owner].cred = request'[q].cred
          PROVE  request'[q].owner \notin mailed'
      <4>1. q # r /\ In(q, "send") /\ request'[q] = request[q]
        BY <2>2, <3>2 DEF Moves, In
      <4>2. request[q].owner # o
        BY <2>2, <2>4, <3>1, <3>2, <4>1 DEF CredentialsTold
      <4>3. QED
        BY <2>2, <2>4, <3>2, <4>1, <4>2 DEF CredentialsTold
    <3>3. \A q \in Requests : In(q, "send")' => In(q, "send") /\ request'[q] = request[q]
      BY <2>2 DEF Moves, In
    <3>4. QED
      BY <2>2, <2>4, <3>1, <3>2, <3>3 DEF CredentialsTold
  <2>5. QED
    BY <1>5, <2>1, <2>3, <2>4 DEF Delivered
<1>6. ASSUME NEW r \in Requests, DeliveryFails(r) \/ VerifyWrong(r) \/ VerifyAccept(r) \/ ProvisionCommit(r)
      PROVE  CredentialsTold'
  <2>1. PICK o \in Owners : o = request[r].owner
    BY <1>6 DEF DeliveryFails, VerifyWrong, VerifyAccept, ProvisionCommit, RegistrationTyped,
                RequestRows, In, WithOwner
  <2>2. Moves(r) /\ UNCHANGED sent
    BY <1>6, MovesOn DEF DeliveryFails, VerifyWrong, VerifyAccept, ProvisionCommit
  <2>3. reg[o] \in RegRow /\ DOMAIN reg = Owners /\ (reg[o].status = "NONE" => reg[o].token = 0 /\ reg[o].cred = 0)
    BY DEF RegistrationTyped, RegistrationTypeOK, RegRow, CredentialsTold
  <2>4. CASE UNCHANGED <<reg, mailed>>
    BY <2>2, <2>4, StillTold
  <2>5. CASE DeliveryFails(r) /\ reg' = [reg EXCEPT ![o].cred = 0, ![o].until = 0] /\ mailed' = mailed \ {o}
    <3>1. /\ reg'[o].cred = 0 /\ reg'[o].status = reg[o].status /\ reg'[o].token = reg[o].token
          /\ \A p \in Owners \ {o} : reg'[p] = reg[p]
      BY <2>3, <2>5 DEF RegRow
    <3>2. QED
      BY <2>2, <2>3, <2>5, <3>1, LessTold DEF Moves
  <2>6. CASE UNCHANGED mailed /\ reg' = [reg EXCEPT ![o].fails = @ + 1]
    <3>1. /\ reg'[o].cred = reg[o].cred /\ reg'[o].status = reg[o].status /\ reg'[o].token = reg[o].token
          /\ \A p \in Owners \ {o} : reg'[p] = reg[p]
      BY <2>3, <2>6 DEF RegRow
    <3>2. QED
      BY <2>2, <2>3, <2>6, <3>1, LessTold DEF Moves
  <2>7. CASE /\ reg' = [reg EXCEPT ![o] = [status |-> "EMAIL_VERIFIED", cred |-> 0, until |-> 0,
                                           fails |-> 0, token |-> request[r].cred,
                                           tokenUntil |-> window + 1]]
             /\ mailed' = mailed \ {o}
    <3>1. /\ reg'[o].cred = 0 /\ reg'[o].status = "EMAIL_VERIFIED"
          /\ \A p \in Owners \ {o} : reg'[p] = reg[p]
      BY <2>3, <2>7
    <3>2. QED
      BY <2>2, <2>7, <3>1, LessTold DEF Moves
  <2>8. CASE UNCHANGED mailed /\ reg' = [reg EXCEPT ![o].status = "CONSUMED"]
    <3>1. /\ reg'[o].cred = reg[o].cred /\ reg'[o].status = "CONSUMED"
          /\ \A p \in Owners \ {o} : reg'[p] = reg[p]
      BY <2>3, <2>8 DEF RegRow
    <3>2. QED
      BY <2>2, <2>8, <3>1, LessTold DEF Moves
  <2>9. CASE DeliveryFails(r)
    BY <2>1, <2>4, <2>5, <2>9 DEF DeliveryFails
  <2>10. CASE VerifyWrong(r)
    BY <2>1, <2>4, <2>6, <2>10 DEF VerifyWrong
  <2>11. CASE VerifyAccept(r)
    <3>1. reg' # reg => mailed' = mailed \ {o}
      BY <2>1, <2>11 DEF VerifyAccept
    <3>2. reg' = reg => mailed' = mailed
      BY <2>11 DEF VerifyAccept
    <3>3. QED
      BY <2>1, <2>4, <2>7, <2>11, <3>1, <3>2 DEF VerifyAccept
  <2>12. CASE ProvisionCommit(r)
    BY <2>1, <2>4, <2>8, <2>12 DEF ProvisionCommit
  <2>13. QED
    BY <1>6, <2>9, <2>10, <2>11, <2>12
<1>7. QED
  BY <1>1, <1>2, <1>3, <1>4, <1>5, <1>6 DEF RegistrationNext, NextWindow, ReviewRejection, BecomeUser

\* The number of a credential changes, while its owner holds it, only when it is
\* spent, renewed by the owner's own request or past its time.
LEMMA CodesStep ==
    ASSUME RegistrationTyped, CredentialsTold, RegistrationNext, NEW o \in Owners
    PROVE  /\ o \in mailed /\ reg'[o].cred # reg[o].cred =>
                 \/ reg[o].until <= window
                 \/ reg'[o].status = "EMAIL_VERIFIED" /\ reg'[o].token = reg[o].cred
                 \/ \E r \in Requests : In(r, "resend") /\ request[r].owner = o
           /\ reg'[o].token # reg[o].token => reg'[o].token = reg[o].cred
<1>1. reg[o] \in RegRow /\ reg \in [Owners -> RegRow]
  BY DEF RegistrationTyped, RegistrationTypeOK, RegRow
<1>2. CASE UNCHANGED reg
  BY <1>2
<1>3. ASSUME NEW r \in Requests, SignupCommit(r) \/ ResendRenew(r), request[r].owner = o, ~UNCHANGED reg
      PROVE  /\ o \in mailed => \/ reg[o].until <= window
                                 \/ \E q \in Requests : In(q, "resend") /\ request[q].owner = o
             /\ reg'[o].token = reg[o].token
  <2>1. CASE Renew(r, o, [NoRow EXCEPT !.status = "EMAIL_PENDING"]) /\ reg[o].status = "NONE"
    <3>1. reg'[o] = Renewed([NoRow EXCEPT !.status = "EMAIL_PENDING"], sent + 1)
      BY <1>1, <2>1 DEF Renew
    <3>2. reg'[o].token = 0
      BY <3>1 DEF Renewed, NoRow
    <3>3. reg[o].token = 0 /\ o \notin mailed
      BY <2>1 DEF CredentialsTold
    <3>4. QED
      BY <2>1, <3>2, <3>3
  <2>2. CASE Renew(r, o, reg[o])
    <3>1. reg'[o].token = reg[o].token
      BY <1>1, <2>2 DEF Renew, Renewed, RegRow
    <3>2. SignupCommit(r) => reg[o].cred = 0 \/ reg[o].until <= window
      BY <1>3, <2>2 DEF SignupCommit, MayRenew, Lapsed, CredentialsTold
    <3>3. o \in mailed => reg[o].cred # 0
      BY DEF CredentialsTold
    <3>4. ResendRenew(r) => In(r, "resend")
      BY DEF ResendRenew
    <3>5. QED
      BY <1>3, <3>1, <3>2, <3>3, <3>4
  <2>3. QED
    BY <1>3, <2>1, <2>2 DEF SignupCommit, ResendRenew
<1>4. ASSUME NEW r \in Requests, DeliveryFails(r), request[r].owner = o, ~UNCHANGED reg
      PROVE  o \notin mailed /\ reg'[o].token = reg[o].token
  <2>1. In(r, "send") /\ reg[o].cred = request[r].cred
    BY <1>4 DEF DeliveryFails, VoidOwn
  <2>2. reg' = [reg EXCEPT ![o].cred = 0, ![o].until = 0]
    BY <1>4 DEF DeliveryFails
  <2>3. reg'[o].token = reg[o].token
    BY <1>1, <2>2 DEF RegRow
  <2>4. QED
    BY <1>4, <2>1, <2>3 DEF CredentialsTold
<1>5. ASSUME NEW r \in Requests, VerifyWrong(r) \/ ProvisionCommit(r), request[r].owner = o
      PROVE  reg'[o].cred = reg[o].cred /\ reg'[o].token = reg[o].token
  <2>1. \/ reg' = reg \/ reg' = [reg EXCEPT ![o].fails = @ + 1] \/ reg' = [reg EXCEPT ![o].status = "CONSUMED"]
    BY <1>5 DEF VerifyWrong, ProvisionCommit
  <2>2. QED
    BY <1>1, <2>1 DEF RegRow
<1>6. ASSUME NEW r \in Requests, VerifyAccept(r), request[r].owner = o, ~UNCHANGED reg
      PROVE  reg'[o].status = "EMAIL_VERIFIED" /\ reg'[o].token = reg[o].cred
  BY <1>1, <1>6 DEF VerifyAccept, Accepts
<1>7. ASSUME NEW r \in Requests, request[r].owner # o,
             \/ SignupCommit(r) \/ ResendRenew(r) \/ DeliveryFails(r)
             \/ VerifyWrong(r) \/ VerifyAccept(r) \/ ProvisionCommit(r)
      PROVE  reg'[o] = reg[o]
  BY <1>1, <1>7 DEF SignupCommit, ResendRenew, Renew, DeliveryFails, VerifyWrong, VerifyAccept, ProvisionCommit
<1>8. QED
  <2>1. ASSUME NEW r \in Requests,
               \/ SignupCommit(r) \/ ResendRenew(r) \/ DeliveryFails(r)
               \/ VerifyWrong(r) \/ VerifyAccept(r) \/ ProvisionCommit(r)
        PROVE  /\ o \in mailed /\ reg'[o].cred # reg[o].cred =>
                     \/ reg[o].until <= window
                     \/ reg'[o].status = "EMAIL_VERIFIED" /\ reg'[o].token = reg[o].cred
                     \/ \E q \in Requests : In(q, "resend") /\ request[q].owner = o
               /\ reg'[o].token # reg[o].token => reg'[o].token = reg[o].cred
    BY <1>2, <1>3, <1>4, <1>5, <1>6, <1>7, <2>1
  <2>2. QED
    BY <1>2, <2>1
       DEF RegistrationNext, NextWindow, ReviewRejection, BecomeUser, ConsumeLimits, ResendRead,
           VerifyRead, ProvisionRead, CaptchaAnswers, Delivered, ProvisionCheck, ProvisionClaim,
           ProvisionAbort

-----------------------------------------------------------------------------
(* Registration: who is a user.  A tenant belongs to a user whose registration *)
(* is consumed; the others came by an invitation.  The transaction that sets a *)
(* trial up holds the row of its owner and the name of the business.           *)

UsersAgree ==
    /\ \A o \in Owners : /\ o \in users => reg[o].status = "CONSUMED" \/ o \in invited
                         /\ trial[o] # 0 => o \in users /\ o \notin invited
    /\ \A r, q \in Requests :
          In(r, "commit") /\ In(q, "commit") /\ Name[request[r].owner] = Name[request[q].owner] => r = q
    /\ \A r \in Requests : In(r, "commit") =>
          /\ request[r].owner \in users => request[r].owner \in invited
          /\ \/ \A o \in Owners : trial[o] # request[r].slug
             \/ \E o \in Owners : Name[o] # Name[request[r].owner]

\* Steps that leave the users and the trials alone, and consume nothing.
LEMMA SameUsers ==
    ASSUME RegistrationTyped, UsersAgree, ConflictHasCause, UNCHANGED <<users, invited, trial>>,
           \A o \in Owners : reg[o].status = "CONSUMED" => reg'[o].status = "CONSUMED",
           \A r \in Requests :
              \/ request'[r] = request[r]
              \/ ~In(r, "commit")' /\ ~In(r, "conflict")'
    PROVE  UsersAgree' /\ ConflictHasCause'
<1>1. \A r \in Requests : /\ In(r, "commit")' => In(r, "commit") /\ request'[r] = request[r]
                          /\ In(r, "conflict")' => In(r, "conflict") /\ request'[r] = request[r]
  BY DEF In
<1>2. QED
  BY <1>1 DEF UsersAgree, ConflictHasCause

LEMMA UsersKept ==
    ASSUME RegistrationTyped, UsersAgree, ConflictHasCause, RegistrationNext
    PROVE  UsersAgree' /\ ConflictHasCause'
<1>1. reg \in [Owners -> RegRow] /\ DOMAIN request = Requests
  BY DEF RegistrationTyped, RegistrationTypeOK, RegRow, RequestRows
<1>2. CASE UNCHANGED <<reg, request, users, invited, trial>>
  BY <1>2, SameUsers
<1>3. ASSUME NEW o \in Owners, BecomeUser(o)
      PROVE  UsersAgree' /\ ConflictHasCause'
  BY <1>3 DEF BecomeUser, UsersAgree, ConflictHasCause, In
<1>4. ASSUME NEW o \in Owners, NEW r \in Requests,
             ConsumeLimits(r, o) \/ ResendRead(r, o) \/ VerifyRead(r, o) \/ ProvisionRead(r, o)
      PROVE  UsersAgree' /\ ConflictHasCause'
  <2>1. \A q \in Requests : \/ request'[q] = request[q]
                            \/ ~In(q, "commit")' /\ ~In(q, "conflict")'
    BY <1>1, <1>4 DEF ConsumeLimits, ResendRead, VerifyRead, ProvisionRead, Goto, In
  <2>2. UNCHANGED <<reg, users, invited, trial>>
    BY <1>4 DEF ConsumeLimits, ResendRead, VerifyRead, ProvisionRead
  <2>3. QED
    BY <2>1, <2>2, SameUsers
<1>5. ASSUME NEW r \in Requests,
             CaptchaAnswers(r) \/ ProvisionCheck(r) \/ ProvisionAbort(r) \/ Delivered(r)
      PROVE  UsersAgree' /\ ConflictHasCause'
  <2>1. \A q \in Requests : \/ request'[q] = request[q]
                            \/ ~In(q, "commit")' /\ ~In(q, "conflict")'
    BY <1>1, <1>5 DEF CaptchaAnswers, ProvisionCheck, ProvisionAbort, Delivered, Goto, Answer,
                        NoRequest, In
  <2>2. UNCHANGED <<reg, users, invited, trial>>
    BY <1>5 DEF CaptchaAnswers, ProvisionCheck, ProvisionAbort, Delivered
  <2>3. QED
    BY <2>1, <2>2, SameUsers
<1>6. ASSUME NEW r \in Requests, SignupCommit(r) \/ ResendRenew(r)
      PROVE  UsersAgree' /\ ConflictHasCause'
  <2>1. PICK o \in Owners : o = request[r].owner
    BY <1>6 DEF SignupCommit, ResendRenew, RegistrationTyped, RequestRows, In, WithOwner
  <2>2. \A q \in Requests : \/ request'[q] = request[q]
                            \/ ~In(q, "commit")' /\ ~In(q, "conflict")'
    BY <1>1, <1>6 DEF SignupCommit, ResendRenew, Renew, Answer, NoRequest, In
  <2>3. reg[o].status = "CONSUMED" => UNCHANGED reg
    BY <1>6, <2>1 DEF SignupCommit, ResendRenew, MayRenew, Verifiable
  <2>4. \A p \in Owners \ {o} : reg'[p] = reg[p]
    BY <1>1, <1>6, <2>1 DEF SignupCommit, ResendRenew, Renew
  <2>5. \A p \in Owners : reg[p].status = "CONSUMED" => reg'[p].status = "CONSUMED"
    BY <2>3, <2>4
  <2>6. UNCHANGED <<users, invited, trial>>
    BY <1>6 DEF SignupCommit, ResendRenew
  <2>7. QED
    BY <2>2, <2>5, <2>6, SameUsers
<1>7. ASSUME NEW r \in Requests, DeliveryFails(r) \/ VerifyWrong(r) \/ VerifyAccept(r)
      PROVE  UsersAgree' /\ ConflictHasCause'
  <2>1. PICK o \in Owners : o = request[r].owner
    BY <1>7 DEF DeliveryFails, VerifyWrong, VerifyAccept, RegistrationTyped, RequestRows, In, WithOwner
  <2>2. \A q \in Requests : \/ request'[q] = request[q]
                            \/ ~In(q, "commit")' /\ ~In(q, "conflict")'
    BY <1>1, <1>7 DEF DeliveryFails, VerifyWrong, VerifyAccept, Answer, NoRequest, In
  <2>3. \A p \in Owners \ {o} : reg'[p] = reg[p]
    BY <1>1, <1>7, <2>1 DEF DeliveryFails, VerifyWrong, VerifyAccept
  <2>4. reg[o].status = "CONSUMED" => reg'[o].status = "CONSUMED"
    <3>1. reg[o] \in RegRow
      BY <1>1
    <3>2. CASE VerifyAccept(r)
      BY <2>1, <3>2 DEF VerifyAccept, Accepts, Active, Verifiable
    <3>3. CASE DeliveryFails(r) \/ VerifyWrong(r)
      <4>1. \/ reg' = reg \/ reg' = [reg EXCEPT ![o].cred = 0, ![o].until = 0]
            \/ reg' = [reg EXCEPT ![o].fails = @ + 1]
        BY <2>1, <3>3 DEF DeliveryFails, VerifyWrong
      <4>2. QED
        BY <1>1, <3>1, <4>1 DEF RegRow
    <3>4. QED
      BY <1>7, <3>2, <3>3
  <2>5. UNCHANGED <<users, invited, trial>>
    BY <1>7 DEF DeliveryFails, VerifyWrong, VerifyAccept
  <2>6. QED
    BY <2>2, <2>3, <2>4, <2>5, SameUsers
<1>8. ASSUME NEW r \in Requests, ProvisionClaim(r)
      PROVE  UsersAgree' /\ ConflictHasCause'
  <2>1. PICK o \in Owners : o = request[r].owner
    BY <1>8 DEF ProvisionClaim, RegistrationTyped, RequestRows, In, WithOwner
  <2>2. UNCHANGED <<reg, users, invited, trial>> /\ \A q \in Requests \ {r} : request'[q] = request[q]
    BY <1>1, <1>8 DEF ProvisionClaim, Answer, Goto
  <2>3. CASE Answer(r)
    <3>1. ~In(r, "commit")' /\ ~In(r, "conflict")'
      BY <1>1, <2>3 DEF Answer, NoRequest, In
    <3>2. QED
      BY <2>2, <3>1, SameUsers
  <2>4. CASE Goto(r, "conflict", o) /\ o \in users /\ Claims(reg[o], request[r].token)
    <3>1. ~In(r, "commit")' /\ request'[r].owner = o
      BY <1>1, <2>4 DEF Goto, In
    <3>2. o \in invited
      BY <2>4 DEF Claims, UsersAgree
    <3>3. \A q \in Requests : In(q, "commit")' => In(q, "commit") /\ request'[q] = request[q]
      BY <2>2, <3>1 DEF In
    <3>4. UsersAgree'
      BY <2>2, <3>3 DEF UsersAgree
    <3>5. ConflictHasCause'
      BY <2>2, <3>1, <3>2 DEF ConflictHasCause, In
    <3>6. QED
      BY <3>4, <3>5
  <2>5. CASE /\ request' = [request EXCEPT ![r] = [at |-> "commit", owner |-> o, slug |-> FreeSlug(o)]]
             /\ o \notin users /\ ~Allocating(o)
    <3>1. request'[r].owner = o /\ request'[r].slug = FreeSlug(o) /\ ~In(r, "conflict")'
      BY <1>1, <2>5 DEF In
    <3>2. \A p \in Owners : trial'[p] # FreeSlug(o)
      BY <2>2, SlugIsFree DEF RegistrationTyped
    <3>3. \A q \in Requests \ {r} : /\ In(q, "commit")' => In(q, "commit") /\ Name[request[q].owner] # Name[o]
                                    /\ In(q, "conflict")' => In(q, "conflict")
      BY <2>2, <2>5 DEF In, Allocating
    <3>4. ConflictHasCause'
      BY <2>2, <3>1, <3>3 DEF ConflictHasCause
    <3>5. ASSUME NEW p \in Requests, NEW q \in Requests, In(p, "commit")', In(q, "commit")',
                 Name[request'[p].owner] = Name[request'[q].owner]
          PROVE  p = q
      BY <2>2, <3>1, <3>3, <3>5 DEF UsersAgree
    <3>6. ASSUME NEW q \in Requests, In(q, "commit")'
          PROVE  /\ request'[q].owner \in users' => request'[q].owner \in invited'
                 /\ \/ \A p \in Owners : trial'[p] # request'[q].slug
                    \/ \E p \in Owners : Name[p] # Name[request'[q].owner]
      BY <2>2, <2>5, <3>1, <3>2, <3>3, <3>6 DEF UsersAgree
    <3>7. QED
      BY <2>2, <3>4, <3>5, <3>6 DEF UsersAgree
  <2>6. QED
    BY <1>8, <2>1, <2>3, <2>4, <2>5 DEF ProvisionClaim
<1>9. ASSUME NEW r \in Requests, ProvisionCommit(r)
      PROVE  UsersAgree' /\ ConflictHasCause'
  <2>1. PICK o \in Owners : o = request[r].owner
    BY <1>9 DEF ProvisionCommit, RegistrationTyped, RequestRows, In, WithOwner
  <2>2. In(r, "commit") /\ UNCHANGED invited /\ \A q \in Requests \ {r} : request'[q] = request[q]
    BY <1>1, <1>9 DEF ProvisionCommit, Answer, Goto
  <2>3. ~In(r, "commit")'
    BY <1>1, <1>9 DEF ProvisionCommit, Answer, Goto, NoRequest, In
  <2>4. \A q \in Requests : In(q, "commit")' =>
            In(q, "commit") /\ request'[q] = request[q] /\ Name[request[q].owner] # Name[o]
    BY <2>1, <2>2, <2>3 DEF In, UsersAgree
  <2>5. CASE Goto(r, "conflict", o) /\ UNCHANGED <<reg, users, trial>> /\ Refused(o, request[r].slug)
    <3>1. request'[r].owner = o
      BY <1>1, <2>5 DEF Goto
    <3>2. o \in invited \/ \E p \in Owners : Name[p] # Name[o]
      BY <2>1, <2>2, <2>5 DEF Refused, UsersAgree
    <3>3. UsersAgree'
      BY <2>2, <2>4, <2>5 DEF UsersAgree
    <3>4. ConflictHasCause'
      BY <2>2, <2>5, <3>1, <3>2 DEF ConflictHasCause, In
    <3>5. QED
      BY <3>3, <3>4
  <2>6. CASE /\ ~Refused(o, request[r].slug) /\ Answer(r) /\ users' = users \union {o}
             /\ trial' = [trial EXCEPT ![o] = request[r].slug] /\ reg' = [reg EXCEPT ![o].status = "CONSUMED"]
    <3>1. o \notin users /\ o \notin invited
      BY <2>6 DEF Refused, RegistrationTyped, RegistrationTypeOK
    <3>2. reg'[o].status = "CONSUMED" /\ \A p \in Owners \ {o} : reg'[p] = reg[p] /\ trial'[p] = trial[p]
      BY <1>1, <2>6 DEF RegRow, RegistrationTyped, RegistrationTypeOK
    <3>3. ~In(r, "conflict")'
      BY <1>1, <2>6 DEF Answer, NoRequest, In
    <3>4. ConflictHasCause'
      BY <2>2, <3>3 DEF ConflictHasCause, In
    <3>5. ASSUME NEW p \in Owners
          PROVE  /\ p \in users' => reg'[p].status = "CONSUMED" \/ p \in invited'
                 /\ trial'[p] # 0 => p \in users' /\ p \notin invited'
      BY <2>2, <2>6, <3>1, <3>2 DEF UsersAgree
    <3>6. ASSUME NEW q \in Requests, In(q, "commit")'
          PROVE  /\ request'[q].owner \in users' => request'[q].owner \in invited'
                 /\ \/ \A p \in Owners : trial'[p] # request'[q].slug
                    \/ \E p \in Owners : Name[p] # Name[request'[q].owner]
      <4>1. Name[request'[q].owner] # Name[o] /\ request'[q] = request[q] /\ In(q, "commit")
        BY <2>4, <3>6
      <4>2. request'[q].owner # o
        BY <4>1
      <4>3. QED
        BY <2>2, <2>6, <4>1, <4>2 DEF UsersAgree
    <3>7. QED
      BY <2>4, <3>4, <3>5, <3>6 DEF UsersAgree
  <2>7. QED
    BY <1>9, <2>1, <2>5, <2>6 DEF ProvisionCommit
<1>10. QED
  BY <1>2, <1>3, <1>4, <1>5, <1>6, <1>7, <1>8, <1>9 DEF RegistrationNext, NextWindow, ReviewRejection

\* Who is told of a trial has one, or works in a tenant of another: neither ends.
LEMMA LimitKept ==
    ASSUME RegistrationTyped, LimitHasCause, RegistrationNext
    PROVE  LimitHasCause'
<1>1. reg \in [Owners -> RegRow] /\ DOMAIN request = Requests /\ trial \in [Owners -> {0} \union Slugs]
  BY DEF RegistrationTyped, RegistrationTypeOK, RegRow, RequestRows
<1>2. invited \subseteq invited'
  BY DEF RegistrationNext, NextWindow, ReviewRejection, BecomeUser, ConsumeLimits, ResendRead, VerifyRead,
         ProvisionRead, CaptchaAnswers, SignupCommit, ResendRenew, Delivered, DeliveryFails, VerifyWrong,
         VerifyAccept, ProvisionCheck, ProvisionClaim, ProvisionCommit, ProvisionAbort
<1>3. \A o \in Owners : trial[o] # 0 => trial'[o] # 0
  <2>1. CASE UNCHANGED trial
    BY <2>1
  <2>2. ASSUME NEW r \in Requests, ProvisionCommit(r)
        PROVE  \A o \in Owners : trial[o] # 0 => trial'[o] # 0
    <3>1. request[r].owner \in Owners /\ request[r].slug # 0
      BY <2>2 DEF ProvisionCommit, RegistrationTyped, RequestRows, In, WithOwner, Slugs
    <3>2. QED
      BY <1>1, <2>2, <3>1 DEF ProvisionCommit
  <2>3. QED
    BY <2>1, <2>2
       DEF RegistrationNext, NextWindow, ReviewRejection, BecomeUser, ConsumeLimits, ResendRead, VerifyRead,
           ProvisionRead, CaptchaAnswers, SignupCommit, ResendRenew, Delivered, DeliveryFails, VerifyWrong,
           VerifyAccept, ProvisionCheck, ProvisionClaim, ProvisionAbort
<1>4. ASSUME NEW r \in Requests, In(r, "limit")'
      PROVE  \/ In(r, "limit") /\ request'[r] = request[r]
             \/ ProvisionCheck(r) /\ Goto(r, "limit", request[r].owner)
                /\ (OnTrial(request[r].owner) \/ request[r].owner \in invited)
  <2>1. CASE UNCHANGED request
    BY <1>4, <2>1 DEF In
  <2>2. ASSUME NEW o \in Owners, NEW q \in Requests,
               ConsumeLimits(q, o) \/ ResendRead(q, o) \/ VerifyRead(q, o) \/ ProvisionRead(q, o)
        PROVE  In(r, "limit") /\ request'[r] = request[r]
    BY <1>1, <1>4, <2>2 DEF ConsumeLimits, ResendRead, VerifyRead, ProvisionRead, Goto, In
  <2>3. ASSUME NEW q \in Requests,
               \/ CaptchaAnswers(q) \/ SignupCommit(q) \/ ResendRenew(q) \/ Delivered(q)
               \/ DeliveryFails(q) \/ VerifyWrong(q) \/ VerifyAccept(q)
        PROVE  In(r, "limit") /\ request'[r] = request[r]
    BY <1>1, <1>4, <2>3
       DEF CaptchaAnswers, SignupCommit, ResendRenew, Renew, Delivered, DeliveryFails, VerifyWrong,
           VerifyAccept, Goto, Answer, NoRequest, In
  <2>4. ASSUME NEW q \in Requests, ProvisionClaim(q) \/ ProvisionCommit(q) \/ ProvisionAbort(q)
        PROVE  In(r, "limit") /\ request'[r] = request[r]
    BY <1>1, <1>4, <2>4
       DEF ProvisionClaim, ProvisionCommit, ProvisionAbort, Goto, Answer, NoRequest, In
  <2>5. ASSUME NEW q \in Requests, ProvisionCheck(q)
        PROVE  \/ In(r, "limit") /\ request'[r] = request[r]
               \/ ProvisionCheck(r) /\ Goto(r, "limit", request[r].owner)
                  /\ (OnTrial(request[r].owner) \/ request[r].owner \in invited)
    BY <1>1, <1>4, <2>5 DEF ProvisionCheck, Goto, In
  <2>6. QED
    BY <2>1, <2>2, <2>3, <2>4, <2>5 DEF RegistrationNext, NextWindow, ReviewRejection, BecomeUser
<1>5. ASSUME NEW r \in Requests, In(r, "limit")'
      PROVE  OnTrial(request[r].owner)' \/ request'[r].owner \in invited'
  <2>1. /\ request'[r].owner = request[r].owner
        /\ trial[request[r].owner] # 0 \/ request[r].owner \in invited
        /\ request[r].owner \in Owners
    BY <1>1, <1>4, <1>5 DEF LimitHasCause, OnTrial, ProvisionCheck, Goto, In, RegistrationTyped, RequestRows, WithOwner
  <2>2. QED
    BY <1>2, <1>3, <2>1 DEF OnTrial
<1>6. QED
  BY <1>5 DEF LimitHasCause

\* What holds of the registration at every moment.
RegistrationSound ==
    /\ RegistrationTyped /\ LimitsHold /\ Bucketed
    /\ CredentialsTold /\ UsersAgree /\ ConflictHasCause /\ LimitHasCause

LEMMA InitRegistrationSound ==
    ASSUME RegistrationInit
    PROVE  RegistrationSound
<1>1. RegistrationTyped
  BY InitRegistrationTyped
<1>2. LimitsHold /\ Bucketed
  BY BoundsAreNat DEF RegistrationInit, LimitsHold, Bucketed, LimitOf
<1>3. ~(\E r \in Requests : In(r, "send") \/ In(r, "commit") \/ In(r, "conflict") \/ In(r, "limit"))
  BY DEF RegistrationInit, NoRequest, In
<1>4. CredentialsTold /\ UsersAgree /\ ConflictHasCause /\ LimitHasCause
  BY <1>3 DEF RegistrationInit, NoRow, CredentialsTold, UsersAgree, ConflictHasCause, LimitHasCause
<1>5. QED
  BY <1>1, <1>2, <1>4 DEF RegistrationSound

LEMMA NextRegistrationSound ==
    ASSUME RegistrationSound, RegistrationNext \/ UNCHANGED registrationVars
    PROVE  RegistrationSound'
<1>1. CASE RegistrationNext
  BY <1>1, RegistrationStepTyped, LimitsKept, ToldKept, UsersKept, LimitKept DEF RegistrationSound
<1>2. CASE UNCHANGED registrationVars
  <2>1. RegistrationTyped'
    BY <1>2, SameRegistration DEF RegistrationSound
  <2>2. LimitsHold' /\ Bucketed' /\ CredentialsTold' /\ UsersAgree' /\ ConflictHasCause' /\ LimitHasCause'
    BY <1>2 DEF RegistrationSound, registrationVars, LimitsHold, Bucketed, LimitOf, CredentialsTold,
                UsersAgree, ConflictHasCause, LimitHasCause, OnTrial, In
  <2>3. QED
    BY <2>1, <2>2 DEF RegistrationSound
<1>3. QED
  BY <1>1, <1>2

-----------------------------------------------------------------------------
(* How a person gets in: types.                                              *)

CodeRow == [channel : Channels, created : Nat, expires : Nat, used : BOOLEAN,
            failed : 0..MaxTries, gone : BOOLEAN, known : BOOLEAN]

\* What a call carries at each stage.
AskingRow == [call : {"request"}, stage : {"recent", "create"}, channel : Channels, now : Nat]
ConfirmRow == [call : {"confirm"}, stage : {"look", "fail", "newest", "claim"}, given : Nat, id : Nat,
               now : Nat, otp : BOOLEAN]

ClientRows ==
    /\ DOMAIN client = Clients
    /\ \A c \in Clients :
          /\ client[c].stage \in {"recent", "create"} => client[c] \in AskingRow
          /\ client[c].stage \in {"look", "fail", "newest", "claim"} => client[c] \in ConfirmRow
          /\ client[c].stage \in {"send", "fail", "newest", "claim"} => client[c].id \in DOMAIN code
          /\ client[c].stage = "context" =>
                /\ client[c].version \in 0..version /\ client[c].password \in 0..MaxCodes
                /\ client[c].version = version => client[c].password = password
          /\ client[c].stage = "member" => client[c].session \in sessions

CredentialsTyped == CredentialsTypeOK /\ Len(code) <= MaxCodes /\ ClientRows

LEMMA CredentialBounds ==
    /\ Cooldown \in Nat /\ MaxTries \in Nat /\ MaxCodes \in Nat /\ MaxTime \in Nat /\ MaxCalls \in Nat
    /\ \A channel \in Channels : Lifetime[channel] \in Nat
  BY CredentialsAssumption

LEMMA CodeRows ==
    ASSUME CredentialsTyped
    PROVE  /\ code \in Seq(CodeRow) /\ Len(code) \in Nat /\ Len(code) <= MaxCodes
           /\ DOMAIN code = 1..Len(code) /\ DOMAIN code \subseteq 1..MaxCodes
           /\ \A i \in DOMAIN code : code[i] \in CodeRow
<1>1. code \in Seq(CodeRow) /\ Len(code) <= MaxCodes
  BY DEF CredentialsTyped, CredentialsTypeOK, CodeRow
<1>2. QED
  BY <1>1, CredentialBounds

\* A call that goes on, beside others that stay as they are: codes and sessions
\* only become more, and with another password comes another version.
LEMMA ClientGoesOn ==
    ASSUME CredentialsTyped, NEW c \in Clients, NEW row, client' = [client EXCEPT ![c] = row],
           DOMAIN code \subseteq DOMAIN code', sessions \subseteq sessions', version' \in Nat,
           (version' = version /\ password' = password) \/ version' = version + 1,
           row.stage \in {"recent", "create"} => row \in AskingRow,
           row.stage \in {"look", "fail", "newest", "claim"} => row \in ConfirmRow,
           row.stage \in {"send", "fail", "newest", "claim"} => row.id \in DOMAIN code',
           row.stage = "context" =>
                /\ row.version \in 0..version' /\ row.password \in 0..MaxCodes
                /\ row.version = version' => row.password = password',
           row.stage = "member" => row.session \in sessions'
    PROVE  ClientRows'
<1>1. DOMAIN client' = Clients /\ client'[c] = row /\ \A b \in Clients \ {c} : client'[b] = client[b]
  BY DEF CredentialsTyped, ClientRows
<1>2. version \in Nat /\ 0..version \subseteq 0..version'
  BY DEF CredentialsTyped, CredentialsTypeOK
<1>3. ASSUME NEW b \in Clients \ {c}
      PROVE  /\ client'[b].stage \in {"recent", "create"} => client'[b] \in AskingRow
             /\ client'[b].stage \in {"look", "fail", "newest", "claim"} => client'[b] \in ConfirmRow
             /\ client'[b].stage \in {"send", "fail", "newest", "claim"} => client'[b].id \in DOMAIN code'
             /\ client'[b].stage = "context" =>
                   /\ client'[b].version \in 0..version' /\ client'[b].password \in 0..MaxCodes
                   /\ client'[b].version = version' => client'[b].password = password'
             /\ client'[b].stage = "member" => client'[b].session \in sessions'
  <2>1. /\ client[b].stage \in {"recent", "create"} => client[b] \in AskingRow
        /\ client[b].stage \in {"look", "fail", "newest", "claim"} => client[b] \in ConfirmRow
        /\ client[b].stage \in {"send", "fail", "newest", "claim"} => client[b].id \in DOMAIN code
        /\ client[b].stage = "member" => client[b].session \in sessions
    BY DEF CredentialsTyped, ClientRows
  <2>2. ASSUME client[b].stage = "context"
        PROVE  /\ client[b].version \in 0..version' /\ client[b].password \in 0..MaxCodes
               /\ client[b].version = version' => client[b].password = password'
    BY <1>2, <2>2 DEF CredentialsTyped, ClientRows
  <2>3. QED
    BY <1>1, <2>1, <2>2
<1>4. QED
  BY <1>1, <1>3 DEF ClientRows

LEMMA ClientFreed ==
    ASSUME CredentialsTyped, NEW c \in Clients, client' = [client EXCEPT ![c] = FreeClient],
           DOMAIN code \subseteq DOMAIN code', sessions \subseteq sessions', version' \in Nat,
           (version' = version /\ password' = password) \/ version' = version + 1
    PROVE  ClientRows'
<1>1. FreeClient.stage = "idle"
  BY DEF FreeClient
<1>2. QED
  BY <1>1, ClientGoesOn

\* One row of the codes is written.
LEMMA CodeWritten ==
    ASSUME CredentialsTyped, NEW i \in DOMAIN code, NEW row \in CodeRow, code' = [code EXCEPT ![i] = row]
    PROVE  /\ code' \in Seq(CodeRow) /\ Len(code') = Len(code) /\ DOMAIN code' = DOMAIN code
           /\ code'[i] = row /\ \A j \in DOMAIN code \ {i} : code'[j] = code[j]
<1>1. code \in Seq(CodeRow) /\ i \in 1..Len(code) /\ DOMAIN code = 1..Len(code)
  BY CodeRows
<1>2. QED
  BY <1>1

LEMMA CredentialsStepTyped ==
    ASSUME CredentialsTyped, CredentialsNext
    PROVE  CredentialsTyped'
<1>1. /\ code \in Seq(CodeRow) /\ Len(code) \in Nat /\ Len(code) <= MaxCodes /\ DOMAIN code = 1..Len(code)
      /\ DOMAIN code \subseteq 1..MaxCodes /\ \A i \in DOMAIN code : code[i] \in CodeRow
      /\ clock \in Nat /\ clock \in 0..MaxTime /\ version \in Nat /\ password \in 0..MaxCodes
      /\ calls \in 0..MaxCalls /\ DOMAIN client = Clients
      /\ sessions \subseteq [version : Nat, password : 0..MaxCodes]
  <2>1. /\ clock \in 0..MaxTime /\ version \in Nat /\ password \in 0..MaxCodes /\ calls \in 0..MaxCalls
        /\ sessions \subseteq [version : Nat, password : 0..MaxCodes] /\ DOMAIN client = Clients
    BY DEF CredentialsTyped, CredentialsTypeOK, ClientRows
  <2>2. clock \in Nat
    BY <2>1, CredentialBounds
  <2>3. QED
    BY <2>1, <2>2, CodeRows
<1>2. \A c \in Clients : \A rec : Calls(c, rec) =>
          /\ client' = [client EXCEPT ![c] = rec] /\ UNCHANGED accountVars
          /\ clock' \in 0..MaxTime /\ calls' \in 0..MaxCalls /\ died' \in BOOLEAN
  <2>1. ASSUME NEW c \in Clients, NEW rec, Calls(c, rec)
        PROVE  /\ client' = [client EXCEPT ![c] = rec] /\ UNCHANGED accountVars /\ clock' = clock
               /\ calls' = calls + 1 /\ calls < MaxCalls /\ died' = died
    BY <2>1 DEF Calls
  <2>2. died \in BOOLEAN /\ (calls < MaxCalls => calls + 1 \in 0..MaxCalls)
    BY <1>1, CredentialBounds DEF CredentialsTyped, CredentialsTypeOK
  <2>3. QED
    BY <1>1, <2>1, <2>2
<1>3. \A c \in Clients : \A rec : Turns(c, rec) =>
          /\ client' = [client EXCEPT ![c] = rec]
          /\ clock' \in 0..MaxTime /\ calls' \in 0..MaxCalls /\ died' \in BOOLEAN
  BY <1>1 DEF Turns, CredentialsTyped, CredentialsTypeOK
<1>4. ASSUME ClientRows', UNCHANGED accountVars, clock' \in 0..MaxTime, calls' \in 0..MaxCalls, died' \in BOOLEAN
      PROVE  CredentialsTyped'
  BY <1>4 DEF CredentialsTyped, CredentialsTypeOK, accountVars
<1>5. ASSUME NEW c \in Clients, AskCode(c) PROVE CredentialsTyped'
  <2>1. PICK channel \in Channels :
            Calls(c, [call |-> "request", stage |-> "recent", channel |-> channel, now |-> clock])
    BY <1>5 DEF AskCode
  <2>2. PICK row : /\ Calls(c, row) /\ row.stage = "recent" /\ row \in AskingRow
    <3>1. [call |-> "request", stage |-> "recent", channel |-> channel, now |-> clock] \in AskingRow
      BY <1>1 DEF AskingRow
    <3>2. [call |-> "request", stage |-> "recent", channel |-> channel, now |-> clock].stage = "recent"
      OBVIOUS
    <3>3. QED
      BY <2>1, <3>1, <3>2
  <2>3. UNCHANGED accountVars /\ client' = [client EXCEPT ![c] = row]
    BY <1>2, <2>2
  <2>4. ClientRows'
    BY <1>1, <2>2, <2>3, ClientGoesOn DEF accountVars
  <2>5. QED
    BY <1>2, <1>4, <2>2, <2>3, <2>4
<1>6. ASSUME NEW c \in Clients, ReadRecent(c) PROVE CredentialsTyped'
  <2>1. UNCHANGED accountVars
    BY <1>6 DEF ReadRecent
  <2>2. client[c] \in AskingRow
    BY <1>6 DEF ReadRecent, AtDesk, CredentialsTyped, ClientRows
  <2>3. PICK row : /\ Turns(c, row)
                   /\ row = FreeClient \/ row = [client[c] EXCEPT !.stage = "create"]
    BY <1>6 DEF ReadRecent
  <2>4. CASE row = FreeClient
    <3>1. ClientRows'
      BY <1>1, <1>3, <2>1, <2>3, <2>4, ClientFreed DEF accountVars
    <3>2. QED
      BY <1>3, <1>4, <2>1, <2>3, <3>1
  <2>5. CASE row = [client[c] EXCEPT !.stage = "create"]
    <3>1. row \in AskingRow /\ row.stage = "create"
      BY <2>2, <2>5 DEF AskingRow
    <3>2. ClientRows'
      BY <1>1, <1>3, <2>1, <2>3, <3>1, ClientGoesOn DEF accountVars
    <3>3. QED
      BY <1>3, <1>4, <2>1, <2>3, <3>2
  <2>6. QED
    BY <2>3, <2>4, <2>5
<1>7. ASSUME NEW c \in Clients, CreateCode(c) PROVE CredentialsTyped'
  <2>1. client[c] \in AskingRow
    BY <1>7 DEF CreateCode, AtDesk, CredentialsTyped, ClientRows
  <2> DEFINE row == [channel |-> client[c].channel, created |-> clock,
                     expires |-> client[c].now + Lifetime[client[c].channel],
                     used |-> FALSE, failed |-> 0, gone |-> FALSE, known |-> FALSE]
  <2>2. row \in CodeRow
    <3>1. client[c].channel \in Channels /\ client[c].now \in Nat
      BY <2>1 DEF AskingRow
    <3>2. client[c].now + Lifetime[client[c].channel] \in Nat /\ 0 \in 0..MaxTries
      BY <3>1, CredentialBounds
    <3>3. QED
      BY <1>1, <3>1, <3>2 DEF CodeRow
  <2>3. code' = Append(code, row) /\ Len(code) < MaxCodes
    BY <1>7 DEF CreateCode
  <2> HIDE DEF row
  <2>4. code' \in Seq(CodeRow) /\ Len(code') = Len(code) + 1 /\ DOMAIN code' = 1..(Len(code) + 1)
    BY <1>1, <2>2, <2>3
  <2>5. PICK rec : Turns(c, rec) /\ rec.stage = "send" /\ rec.id = Len(code) + 1
    <3>1. [call |-> "request", stage |-> "send", id |-> Len(code) + 1].stage = "send"
      OBVIOUS
    <3>2. [call |-> "request", stage |-> "send", id |-> Len(code) + 1].id = Len(code) + 1
      OBVIOUS
    <3>3. QED
      BY <1>7, <3>1, <3>2 DEF CreateCode
  <2>6. UNCHANGED <<password, version, belongs, sessions, set, stood>>
    BY <1>7 DEF CreateCode
  <2>7. ClientRows'
    <3>1. client' = [client EXCEPT ![c] = rec]
      BY <1>3, <2>5
    <3>2. DOMAIN code \subseteq DOMAIN code' /\ rec.id \in DOMAIN code' /\ sessions \subseteq sessions'
      BY <1>1, <2>4, <2>5, <2>6
    <3>3. version' \in Nat /\ version' = version /\ password' = password
      BY <1>1, <2>6
    <3>4. rec.stage \notin {"recent", "create", "look", "fail", "newest", "claim", "context", "member"}
      BY <2>5
    <3>5. QED
      BY <3>1, <3>2, <3>3, <3>4, ClientGoesOn
  <2>8. QED
    <3>1. Len(code') <= MaxCodes
      BY <1>1, <2>3, <2>4, CredentialBounds
    <3>2. QED
      BY <1>1, <1>3, <2>4, <2>5, <2>6, <2>7, <3>1 DEF CredentialsTyped, CredentialsTypeOK, CodeRow
<1>8. ASSUME NEW c \in Clients, SendCode(c) \/ FailTry(c) PROVE CredentialsTyped'
  <2>1. PICK i \in DOMAIN code : i = client[c].id
    BY <1>8 DEF SendCode, FailTry, AtDesk, CredentialsTyped, ClientRows
  <2>2. Turns(c, FreeClient) /\ UNCHANGED <<password, version, belongs, sessions, set, stood>>
    BY <1>8 DEF SendCode, FailTry
  <2>3. /\ [code[i] EXCEPT !.known = TRUE] \in CodeRow /\ [code[i] EXCEPT !.gone = TRUE] \in CodeRow
        /\ CountsTry(i) => [code[i] EXCEPT !.failed = @ + 1] \in CodeRow
    <3>1. code[i] \in CodeRow
      BY <1>1
    <3>2. CountsTry(i) => code[i].failed + 1 \in 0..MaxTries
      BY <3>1, CredentialBounds DEF CodeRow, CountsTry
    <3>3. /\ [code[i] EXCEPT !.known = TRUE] \in CodeRow /\ [code[i] EXCEPT !.gone = TRUE] \in CodeRow
          /\ \A n \in 0..MaxTries : [code[i] EXCEPT !.failed = n] \in CodeRow
      BY <3>1 DEF CodeRow
    <3>4. QED
      BY <3>2, <3>3
  <2>4. UNCHANGED code \/ \E row \in CodeRow : code' = [code EXCEPT ![i] = row]
    BY <1>1, <1>8, <2>1, <2>3 DEF SendCode, FailTry, Withdrawn
  <2>5. code' \in Seq(CodeRow) /\ Len(code') = Len(code) /\ DOMAIN code' = DOMAIN code
    BY <1>1, <2>4, CodeWritten
  <2>6. ClientRows'
    BY <1>1, <1>3, <2>2, <2>5, ClientFreed
  <2>7. QED
    BY <1>1, <1>3, <2>2, <2>5, <2>6 DEF CredentialsTyped, CredentialsTypeOK, CodeRow
<1>9. ASSUME NEW c \in Clients, ConfirmCode(c) PROVE CredentialsTyped'
  <2>1. PICK row : Calls(c, row) /\ row \in ConfirmRow /\ row.stage = "look"
    <3>1. PICK i \in {j \in DOMAIN code : code[j].known} \union {0} :
            Calls(c, [call |-> "confirm", stage |-> "look", given |-> i, id |-> 0, now |-> clock,
                      otp |-> IF i = 0 THEN TRUE ELSE code[i].channel = "whatsapp"])
      BY <1>9 DEF ConfirmCode
    <3>2. i \in Nat /\ (IF i = 0 THEN TRUE ELSE code[i].channel = "whatsapp") \in BOOLEAN
      <4>1. i \in Nat
        BY <1>1
      <4>2. (code[i].channel = "whatsapp") \in BOOLEAN
        OBVIOUS
      <4>3. QED
        BY <4>1, <4>2, Zenon
    <3>3. PICK otp \in BOOLEAN :
            Calls(c, [call |-> "confirm", stage |-> "look", given |-> i, id |-> 0, now |-> clock, otp |-> otp])
      BY <3>1, <3>2
    <3>4. [call |-> "confirm", stage |-> "look", given |-> i, id |-> 0, now |-> clock, otp |-> otp] \in ConfirmRow
      BY <1>1, <3>2 DEF ConfirmRow
    <3>5. [call |-> "confirm", stage |-> "look", given |-> i, id |-> 0, now |-> clock, otp |-> otp].stage = "look"
      OBVIOUS
    <3>6. QED
      BY <3>3, <3>4, <3>5
  <2>2. UNCHANGED accountVars /\ client' = [client EXCEPT ![c] = row]
    BY <1>2, <2>1
  <2>3. ClientRows'
    BY <1>1, <2>1, <2>2, ClientGoesOn DEF accountVars
  <2>4. QED
    BY <1>2, <1>4, <2>1, <2>2, <2>3
<1>10. ASSUME NEW c \in Clients, LookUp(c) \/ CheckNewest(c) PROVE CredentialsTyped'
  <2>1. UNCHANGED accountVars
    BY <1>10 DEF LookUp, CheckNewest
  <2>2. client[c] \in ConfirmRow
    BY <1>10 DEF LookUp, CheckNewest, AtDesk, CredentialsTyped, ClientRows
  <2>3. PICK row : /\ Turns(c, row)
                   /\ \/ row = FreeClient
                      \/ \E i \in DOMAIN code, stage \in {"newest", "fail", "claim"} :
                            row = [client[c] EXCEPT !.id = i, !.stage = stage]
    <3>1. CASE LookUp(c)
      <4>1. CASE Turns(c, FreeClient)
        BY <4>1
      <4>2. CASE /\ ~Spent(c, Looked(c))
                 /\ Turns(c, [client[c] EXCEPT !.id = Looked(c),
                                !.stage = IF Looked(c) = client[c].given THEN "newest" ELSE "fail"])
        BY <4>2 DEF Spent, Live
      <4>3. QED
        BY <3>1, <4>1, <4>2 DEF LookUp
    <3>2. CASE CheckNewest(c)
      <4>1. client[c].id \in DOMAIN code
        BY <3>2 DEF CheckNewest, AtDesk, CredentialsTyped, ClientRows
      <4>2. [client[c] EXCEPT !.stage = "claim"] = [client[c] EXCEPT !.id = client[c].id, !.stage = "claim"]
        BY <2>2 DEF ConfirmRow
      <4>3. QED
        BY <3>2, <4>1, <4>2 DEF CheckNewest
    <3>3. QED
      BY <1>10, <3>1, <3>2
  <2>4. CASE row = FreeClient
    <3>1. ClientRows'
      BY <1>1, <1>3, <2>1, <2>3, <2>4, ClientFreed DEF accountVars
    <3>2. QED
      BY <1>3, <1>4, <2>1, <2>3, <3>1
  <2>5. CASE row # FreeClient
    <3>1. row \in ConfirmRow /\ row.stage \in {"newest", "fail", "claim"} /\ row.id \in DOMAIN code
      <4>1. PICK i \in DOMAIN code, stage \in {"newest", "fail", "claim"} :
                row = [client[c] EXCEPT !.id = i, !.stage = stage]
        BY <2>3, <2>5
      <4>2. i \in Nat
        BY <1>1
      <4>3. QED
        BY <2>2, <4>1, <4>2 DEF ConfirmRow
    <3>2. client' = [client EXCEPT ![c] = row]
      BY <1>3, <2>3
    <3>3. DOMAIN code \subseteq DOMAIN code' /\ row.id \in DOMAIN code' /\ sessions \subseteq sessions'
      BY <2>1, <3>1 DEF accountVars
    <3>4. version' \in Nat /\ version' = version /\ password' = password
      BY <1>1, <2>1 DEF accountVars
    <3>5. row.stage \notin {"recent", "create", "context", "member"}
      BY <3>1
    <3>6. ClientRows'
      BY <3>1, <3>2, <3>3, <3>4, <3>5, ClientGoesOn
    <3>7. QED
      BY <1>3, <1>4, <2>1, <2>3, <3>6
  <2>6. QED
    BY <2>4, <2>5
<1>11. ASSUME NEW c \in Clients, ChangePassword(c) PROVE CredentialsTyped'
  <2>1. PICK i \in DOMAIN code : i = client[c].id
    BY <1>11 DEF ChangePassword, AtDesk, CredentialsTyped, ClientRows
  <2>2. Turns(c, FreeClient)
    BY <1>11 DEF ChangePassword
  <2>3. CASE UNCHANGED accountVars
    <3>1. ClientRows'
      BY <1>1, <1>3, <2>2, <2>3, ClientFreed DEF accountVars
    <3>2. QED
      BY <1>3, <1>4, <2>2, <2>3, <3>1
  <2>4. CASE /\ password' = i /\ version' = version + 1 /\ code' = MarksAll(i) /\ stood' = DOMAIN code
             /\ UNCHANGED <<belongs, sessions>>
    <3>1. \A j \in DOMAIN code : [code[j] EXCEPT !.used = @ \/ ~code[j].gone] \in CodeRow
      BY <1>1 DEF CodeRow
    <3>2. code' = [j \in 1..Len(code) |-> [code[j] EXCEPT !.used = @ \/ ~code[j].gone]]
      BY <1>1, <2>4 DEF MarksAll
    <3>3. code' \in Seq(CodeRow) /\ Len(code') = Len(code) /\ DOMAIN code' = DOMAIN code
      BY <1>1, <3>1, <3>2
    <3>4. ClientRows'
      BY <1>1, <1>3, <2>2, <2>4, <3>3, ClientFreed
    <3>5. QED
      <4>1. /\ password' \in 0..MaxCodes /\ version' \in Nat /\ stood' \subseteq 1..MaxCodes
            /\ Len(code') <= MaxCodes
        BY <1>1, <2>4, <3>3
      <4>2. clock' \in 0..MaxTime /\ calls' \in 0..MaxCalls /\ died' \in BOOLEAN
        BY <1>3, <2>2
      <4>3. QED
        BY <1>1, <2>4, <3>3, <3>4, <4>1, <4>2 DEF CredentialsTyped, CredentialsTypeOK, CodeRow
  <2>5. QED
    BY <1>11, <2>1, <2>3, <2>4 DEF ChangePassword, NextVersion
<1>12. ASSUME NEW c \in Clients, Login(c) \/ Present(c) PROVE CredentialsTyped'
  <2>1. PICK row : /\ Calls(c, row)
                   /\ \/ row.stage = "context" /\ row.version = version /\ row.password = password
                      \/ row.stage = "member" /\ row.session \in sessions
    <3>1. CASE Login(c)
      <4>1. /\ [call |-> "login", stage |-> "context", password |-> password, version |-> version].stage = "context"
            /\ [call |-> "login", stage |-> "context", password |-> password, version |-> version].version = version
            /\ [call |-> "login", stage |-> "context", password |-> password, version |-> version].password = password
        OBVIOUS
      <4>2. QED
        BY <3>1, <4>1 DEF Login
    <3>2. CASE Present(c)
      <4>1. PICK s \in sessions : Calls(c, [call |-> "serve", stage |-> "member", session |-> s])
        BY <3>2 DEF Present
      <4>2. /\ [call |-> "serve", stage |-> "member", session |-> s].stage = "member"
            /\ [call |-> "serve", stage |-> "member", session |-> s].session = s
        OBVIOUS
      <4>3. QED
        BY <4>1, <4>2
    <3>3. QED
      BY <1>12, <3>1, <3>2
  <2>2. UNCHANGED accountVars /\ client' = [client EXCEPT ![c] = row]
    BY <1>2, <2>1
  <2>3. ClientRows'
    <3>1. row.stage = "context" => row.version \in 0..version /\ row.password \in 0..MaxCodes
                                     /\ row.password = password
      BY <1>1, <2>1
    <3>2. QED
      BY <1>1, <2>1, <2>2, <3>1, ClientGoesOn DEF accountVars
  <2>4. QED
    BY <1>2, <1>4, <2>1, <2>2, <2>3
<1>13. ASSUME NEW c \in Clients, GiveSession(c) \/ Serve(c) PROVE CredentialsTyped'
  <2>1. Turns(c, FreeClient) /\ UNCHANGED <<password, version, belongs, code, set, stood>>
    BY <1>13 DEF GiveSession, Serve
  <2>2. sessions \subseteq sessions' /\ sessions' \subseteq [version : Nat, password : 0..MaxCodes]
    <3>1. CASE GiveSession(c)
      <4>1. client[c].version \in Nat /\ client[c].password \in 0..MaxCodes
        BY <1>1, <3>1 DEF GiveSession, AtDesk, CredentialsTyped, ClientRows
      <4>2. Signed(c) \in [version : Nat, password : 0..MaxCodes]
        BY <4>1 DEF Signed
      <4>3. QED
        BY <1>1, <3>1, <4>2 DEF GiveSession
    <3>2. CASE Serve(c)
      BY <1>1, <3>2 DEF Serve, AtDesk, CredentialsTyped, ClientRows
    <3>3. QED
      BY <1>13, <3>1, <3>2
  <2>3. ClientRows'
    BY <1>1, <1>3, <2>1, <2>2, ClientFreed
  <2>4. QED
    BY <1>1, <1>3, <2>1, <2>2, <2>3 DEF CredentialsTyped, CredentialsTypeOK
<1>14. ASSUME NEW c \in Clients, CutShort(c) PROVE CredentialsTyped'
  <2>1. UNCHANGED accountVars
    BY <1>14 DEF CutShort
  <2>2. ClientRows'
    BY <1>1, <1>14, <2>1, ClientFreed DEF CutShort, accountVars
  <2>3. QED
    BY <1>1, <1>4, <1>14, <2>1, <2>2 DEF CutShort
<1>15. CASE ChangeMembership \/ PassTime
  <2>1. ClientRows'
    BY <1>15 DEF ChangeMembership, PassTime, accountVars, CredentialsTyped, ClientRows
  <2>2. clock' \in 0..MaxTime
    BY <1>1, <1>15, CredentialBounds DEF ChangeMembership, PassTime
  <2>3. QED
    BY <1>15, <2>1, <2>2 DEF ChangeMembership, PassTime, accountVars, CredentialsTyped, CredentialsTypeOK
<1>16. QED
  BY <1>5, <1>6, <1>7, <1>8, <1>9, <1>10, <1>11, <1>12, <1>13, <1>14, <1>15 DEF CredentialsNext

LEMMA InitCredentialsTyped ==
    ASSUME CredentialsInit
    PROVE  CredentialsTyped
<1>1. code = <<>> /\ <<>> \in Seq(CodeRow) /\ Len(<<>>) = 0
  BY DEF CredentialsInit
<1>2. FirstSession \in [version : Nat, password : 0..MaxCodes]
  BY CredentialBounds DEF FirstSession
<1>3. ClientRows
  BY DEF CredentialsInit, ClientRows, FreeClient
<1>4. Len(code) <= MaxCodes /\ code \in Seq(CodeRow)
  BY <1>1, CredentialBounds
<1>5. clock \in 0..MaxTime /\ calls \in 0..MaxCalls /\ password \in 0..MaxCodes /\ version \in Nat
  BY CredentialBounds DEF CredentialsInit
<1>6. belongs \in BOOLEAN /\ died \in BOOLEAN /\ stood \subseteq 1..MaxCodes
      /\ sessions \subseteq [version : Nat, password : 0..MaxCodes]
  BY <1>2 DEF CredentialsInit
<1>7. QED
  BY <1>3, <1>4, <1>5, <1>6 DEF CredentialsTyped, CredentialsTypeOK, CodeRow

-----------------------------------------------------------------------------
(* How a person gets in: with what is in force.                              *)

\* A code that is spent or withdrawn.
Ended(i) == code[i].used \/ code[i].gone

\* A message with code i is on its way.
Sending(i) == \E c \in Clients : AtDesk(c, "send") /\ client[c].id = i

EntryKept ==
    /\ set \in [1..MaxCodes -> Nat]
    /\ \A i \in 1..MaxCodes : set[i] # 0 => set[i] = 1 /\ i \in DOMAIN code /\ Ended(i)
    /\ \A s \in sessions : s.version <= version /\ (s.version = version => s.password = password)
    /\ stood \subseteq DOMAIN code /\ \A i \in stood : Ended(i)
    /\ ~died => \A i \in DOMAIN code : Ended(i) \/ code[i].known \/ Sending(i)

LEMMA EntryKeptHolds ==
    ASSUME EntryKept
    PROVE  EntryHolds
<1>1. OncePerCode
  BY DEF EntryKept, OncePerCode
<1>2. SessionsFollowPassword
  BY DEF EntryKept, SessionsFollowPassword
<1>3. OldCodesEnd
  BY DEF EntryKept, OldCodesEnd, Ended
<1>4. NewestArrived
  BY DEF EntryKept, NewestArrived, Live, Ended, Sending
<1>5. QED
  BY <1>1, <1>2, <1>3, <1>4 DEF EntryHolds

\* A call that has no code to send goes on, and none takes one up.
LEMMA SendersStay ==
    ASSUME CredentialsTyped, NEW c \in Clients, NEW row, client' = [client EXCEPT ![c] = row],
           ~AtDesk(c, "send"), NEW i, Sending(i)
    PROVE  Sending(i)'
  BY DEF CredentialsTyped, ClientRows, Sending, AtDesk

\* Only calls and sessions change.
LEMMA CodesStay ==
    ASSUME CredentialsTyped, EntryKept, UNCHANGED <<password, version, code, set, stood>>,
           \A s \in sessions' : s \in sessions \/ (s.version <= version /\ (s.version = version => s.password = password)),
           died' \/ (died' = died /\ \A i \in DOMAIN code : Sending(i) => Sending(i)')
    PROVE  EntryKept'
  BY DEF EntryKept, Ended

LEMMA EntryStep ==
    ASSUME CredentialsTyped, EntryKept, CredentialsNext
    PROVE  EntryKept'
<1>1. /\ code \in Seq(CodeRow) /\ Len(code) \in Nat /\ Len(code) <= MaxCodes /\ DOMAIN code = 1..Len(code)
      /\ DOMAIN code \subseteq 1..MaxCodes /\ \A i \in DOMAIN code : code[i] \in CodeRow
      /\ version \in Nat /\ DOMAIN client = Clients
  BY CodeRows DEF CredentialsTyped, CredentialsTypeOK, ClientRows
<1>2. ASSUME NEW c \in Clients, AskCode(c) \/ ReadRecent(c) \/ ConfirmCode(c) \/ LookUp(c) \/ CheckNewest(c)
                                \/ Login(c) \/ Present(c)
      PROVE  EntryKept'
  <2>1. UNCHANGED <<password, version, code, set, stood, sessions, died>>
    BY <1>2 DEF AskCode, ReadRecent, ConfirmCode, LookUp, CheckNewest, Login, Present, Calls, Turns, accountVars
  <2>2. ~AtDesk(c, "send") /\ \E row : client' = [client EXCEPT ![c] = row]
    BY <1>2 DEF AskCode, ReadRecent, ConfirmCode, LookUp, CheckNewest, Login, Present, Calls, Turns, AtDesk
  <2>3. \A i \in DOMAIN code : Sending(i) => Sending(i)'
    BY <2>2, SendersStay
  <2>4. QED
    BY <2>1, <2>3, CodesStay
<1>3. ASSUME NEW c \in Clients, GiveSession(c) \/ Serve(c)
      PROVE  EntryKept'
  <2>1. UNCHANGED <<password, version, code, set, stood, died>>
    BY <1>3 DEF GiveSession, Serve, Turns
  <2>2. ~AtDesk(c, "send") /\ client' = [client EXCEPT ![c] = FreeClient]
    BY <1>3 DEF GiveSession, Serve, Turns, AtDesk
  <2>3. \A i \in DOMAIN code : Sending(i) => Sending(i)'
    BY <2>2, SendersStay
  <2>4. ASSUME NEW s \in sessions'
        PROVE  s \in sessions \/ (s.version <= version /\ (s.version = version => s.password = password))
    <3>1. CASE GiveSession(c)
      <4>1. /\ client[c].version \in 0..version
            /\ client[c].version = version => client[c].password = password
        BY <3>1 DEF GiveSession, AtDesk, CredentialsTyped, ClientRows
      <4>2. Signed(c).version = client[c].version /\ Signed(c).password = client[c].password
        BY DEF Signed
      <4>3. s \in sessions \/ s = Signed(c)
        BY <3>1 DEF GiveSession
      <4>4. QED
        BY <1>1, <4>1, <4>2, <4>3
    <3>2. CASE Serve(c)
      BY <3>2 DEF Serve, AtDesk, CredentialsTyped, ClientRows
    <3>3. QED
      BY <1>3, <3>1, <3>2
  <2>5. QED
    BY <2>1, <2>3, <2>4, CodesStay
<1>4. ASSUME NEW c \in Clients, CutShort(c)
      PROVE  EntryKept'
  BY <1>4, CodesStay DEF CutShort, accountVars
<1>5. CASE ChangeMembership \/ PassTime
  <2>1. UNCHANGED <<password, version, code, set, stood, sessions, died, client>>
    BY <1>5 DEF ChangeMembership, PassTime, accountVars
  <2>2. QED
    BY <2>1, CodesStay DEF Sending, AtDesk
<1>6. ASSUME NEW c \in Clients, CreateCode(c)
      PROVE  EntryKept'
  <2>1. UNCHANGED <<password, version, set, stood, sessions, died>>
    BY <1>6 DEF CreateCode, Turns
  <2> DEFINE row == [channel |-> client[c].channel, created |-> clock,
                     expires |-> client[c].now + Lifetime[client[c].channel],
                     used |-> FALSE, failed |-> 0, gone |-> FALSE, known |-> FALSE]
  <2>2. code' = Append(code, row)
    BY <1>6 DEF CreateCode
  <2> HIDE DEF row
  <2>3. DOMAIN code' = 1..(Len(code) + 1) /\ \A i \in DOMAIN code : i \in DOMAIN code' /\ code'[i] = code[i]
    BY <1>1, <2>2
  <2>4. client'[c] = [call |-> "request", stage |-> "send", id |-> Len(code) + 1]
    BY <1>1, <1>6 DEF CreateCode, Turns
  <2>5. ASSUME NEW i, i = Len(code) + 1
        PROVE  Sending(i)'
    BY <2>4, <2>5 DEF Sending, AtDesk
  <2>6. \A i \in DOMAIN code : Sending(i) => Sending(i)'
    <3>1. ~AtDesk(c, "send")
      BY <1>6 DEF CreateCode, AtDesk
    <3>2. client' = [client EXCEPT ![c] = [call |-> "request", stage |-> "send", id |-> Len(code) + 1]]
      BY <1>6 DEF CreateCode, Turns
    <3>3. QED
      BY <3>1, <3>2, SendersStay
  <2>7. \A i \in DOMAIN code' : i \in DOMAIN code \/ i = Len(code) + 1
    BY <1>1, <2>3
  <2>8. \A i \in DOMAIN code : Ended(i)' = Ended(i) /\ code'[i].known = code[i].known
    BY <2>3 DEF Ended
  <2>9. QED
    BY <2>1, <2>3, <2>5, <2>6, <2>7, <2>8 DEF EntryKept
<1>7. ASSUME NEW c \in Clients, SendCode(c) \/ FailTry(c)
      PROVE  EntryKept'
  <2>1. PICK i \in DOMAIN code : i = client[c].id
    BY <1>7 DEF SendCode, FailTry, AtDesk, CredentialsTyped, ClientRows
  <2>2. UNCHANGED <<password, version, set, stood, sessions, died>> /\ client' = [client EXCEPT ![c] = FreeClient]
    BY <1>7 DEF SendCode, FailTry, Turns
  <2>3. ASSUME NEW j \in DOMAIN code
        PROVE  Ended(j) => Ended(j)'
    <3>1. \/ code' = [code EXCEPT ![i].known = TRUE] \/ code' = [code EXCEPT ![i].gone = TRUE]
          \/ code' = [code EXCEPT ![i].failed = @ + 1] \/ code' = code
      BY <1>7, <2>1 DEF SendCode, FailTry, Withdrawn
    <3>2. code[j] \in CodeRow
      BY <1>1
    <3>3. QED
      BY <2>1, <3>1, <3>2 DEF Ended, CodeRow
  <2>4. DOMAIN code' = DOMAIN code
    BY <1>7, <2>1 DEF SendCode, FailTry, Withdrawn
  <2>5. ASSUME NEW j \in DOMAIN code, Ended(j) \/ code[j].known \/ Sending(j)
        PROVE  Ended(j)' \/ code'[j].known \/ Sending(j)'
    <3>1. CASE j = i /\ SendCode(c)
      BY <1>1, <2>1, <3>1 DEF SendCode, Withdrawn, Ended, CodeRow
    <3>2. CASE j # i
      <4>1. code'[j] = code[j]
        BY <1>7, <2>1, <3>2 DEF SendCode, FailTry, Withdrawn
      <4>2. Sending(j) => Sending(j)'
        BY <1>1, <2>1, <2>2, <3>2 DEF Sending, AtDesk
      <4>3. QED
        BY <2>5, <4>1, <4>2 DEF Ended
    <3>3. CASE FailTry(c)
      <4>1. code'[j].known = code[j].known
        BY <1>1, <2>1, <3>3 DEF FailTry, CodeRow
      <4>2. Sending(j) => Sending(j)'
        BY <2>2, <3>3, SendersStay DEF FailTry, AtDesk
      <4>3. QED
        BY <2>3, <2>5, <4>1, <4>2
    <3>4. QED
      BY <1>7, <3>1, <3>2, <3>3
  <2>6. QED
    BY <2>2, <2>3, <2>4, <2>5 DEF EntryKept
<1>8. ASSUME NEW c \in Clients, ChangePassword(c)
      PROVE  EntryKept'
  <2>1. PICK i \in DOMAIN code : i = client[c].id
    BY <1>8 DEF ChangePassword, AtDesk, CredentialsTyped, ClientRows
  <2>2. client' = [client EXCEPT ![c] = FreeClient] /\ UNCHANGED died /\ ~AtDesk(c, "send")
    BY <1>8 DEF ChangePassword, Turns, AtDesk
  <2>3. \A j \in DOMAIN code : Sending(j) => Sending(j)'
    BY <2>2, SendersStay
  <2>4. CASE UNCHANGED accountVars
    BY <2>2, <2>3, <2>4, CodesStay DEF accountVars
  <2>5. CASE /\ StillGood(c, i)
             /\ version' = version + 1 /\ code' = MarksAll(i) /\ stood' = DOMAIN code
             /\ set' = [set EXCEPT ![i] = @ + 1] /\ UNCHANGED <<belongs, sessions>>
    <3>1. DOMAIN code' = DOMAIN code /\ \A j \in DOMAIN code : Ended(j)'
      BY <1>1, <2>5 DEF MarksAll, Ended, CodeRow
    <3>2. ~Ended(i) /\ i \in 1..MaxCodes
      BY <1>1, <2>5 DEF StillGood, Live, Ended
    <3>3. set[i] = 0
      BY <3>2 DEF EntryKept
    <3>4. set' \in [1..MaxCodes -> Nat] /\ \A j \in 1..MaxCodes : set'[j] # 0 => set'[j] = 1 /\ (set[j] # 0 \/ j = i)
      BY <2>5, <3>2, <3>3 DEF EntryKept
    <3>5. \A s \in sessions' : s.version <= version' /\ s.version # version'
      <4>1. \A s \in sessions : s.version \in Nat /\ s.version <= version
        BY DEF EntryKept, CredentialsTyped, CredentialsTypeOK
      <4>2. QED
        BY <1>1, <2>5, <4>1
    <3>6. QED
      BY <2>1, <2>2, <2>5, <3>1, <3>4, <3>5 DEF EntryKept
  <2>6. QED
    BY <1>8, <2>1, <2>4, <2>5 DEF ChangePassword, NextVersion
<1>9. QED
  BY <1>2, <1>3, <1>4, <1>5, <1>6, <1>7, <1>8 DEF CredentialsNext

LEMMA InitEntryKept ==
    ASSUME CredentialsInit
    PROVE  EntryKept
<1>1. DOMAIN code = {} /\ FirstSession.version = 0 /\ FirstSession.password = 0
  BY DEF CredentialsInit, FirstSession
<1>2. QED
  BY <1>1 DEF CredentialsInit, EntryKept

LEMMA NextEntryKept ==
    ASSUME CredentialsTyped, EntryKept, CredentialsNext \/ UNCHANGED credentialsVars
    PROVE  CredentialsTyped' /\ EntryKept'
<1>1. CASE CredentialsNext
  BY <1>1, CredentialsStepTyped, EntryStep
<1>2. CASE UNCHANGED credentialsVars
  <2>1. CredentialsTyped'
    BY <1>2 DEF credentialsVars, CredentialsTyped, CredentialsTypeOK, ClientRows
  <2>2. EntryKept'
    BY <1>2 DEF credentialsVars, EntryKept, Ended, Sending, AtDesk
  <2>3. QED
    BY <2>1, <2>2
<1>3. QED
  BY <1>1, <1>2

-----------------------------------------------------------------------------
(* The accounts: no step of one component touches the state of another.       *)

AccountsSound == RegistrationSound /\ CredentialsTyped /\ EntryKept

accountsVars == <<part, registrationVars, officeVars, catalogueVars, credentialsVars>>

LEMMA InitAccountsSound ==
    ASSUME AccountsInit
    PROVE  AccountsSound
<1>1. RegistrationInit /\ CredentialsInit
  BY DEF AccountsInit
<1>2. QED
  BY <1>1, InitRegistrationSound, InitCredentialsTyped, InitEntryKept DEF AccountsSound

LEMMA StepOfAccounts ==
    ASSUME [AccountsNext]_accountsVars
    PROVE  /\ RegistrationNext \/ UNCHANGED registrationVars
           /\ CredentialsNext \/ UNCHANGED credentialsVars
           /\ OfficeNext \/ UNCHANGED officeVars
           /\ CatalogueNext \/ UNCHANGED catalogueVars
  BY DEF AccountsNext, accountsVars

LEMMA NextAccountsSound ==
    ASSUME AccountsSound, [AccountsNext]_accountsVars
    PROVE  AccountsSound'
  BY StepOfAccounts, NextRegistrationSound, NextEntryKept DEF AccountsSound

LEMMA AccountsAreSound == AccountsSpec => []AccountsSound
<1>1. AccountsInit => AccountsSound
  BY InitAccountsSound
<1>2. AccountsSound /\ [AccountsNext]_accountsVars => AccountsSound'
  BY NextAccountsSound
<1>3. QED
  BY <1>1, <1>2, PTL DEF AccountsSpec, accountsVars

\* consumeLimits(): no address and no device is let through more often in a window
\* than its limit, however many requests count at the same time.
THEOREM LimitsAreKept == AccountsSpec => []LimitsHold
<1>1. AccountsSound => LimitsHold
  BY DEF AccountsSound, RegistrationSound
<1>2. QED
  BY <1>1, AccountsAreSound, PTL

\* One identity is one user: an owner is refused a trial only who has one, works in
\* a tenant of another, or lost the name to a business of another name, and an
\* employee gets no tenant; and who gets in does so with what is in force: a code
\* sets the password once, the sessions and the codes of the old password end, a
\* code that never arrived does not stand before one that did.
THEOREM OneUserGetsInAlways == AccountsSpec => []OneUserGetsIn
<1>1. ASSUME AccountsSound
      PROVE  OneUserGetsIn
  <2>1. ConflictHasCause /\ LimitHasCause
    BY <1>1 DEF AccountsSound, RegistrationSound
  <2>2. EmployeeOrOwner
    <3>1. ASSUME NEW o \in invited, trial[o] # 0
          PROVE  FALSE
      <4>1. o \in Owners
        BY <1>1, <3>1 DEF AccountsSound, RegistrationSound, RegistrationTyped, RegistrationTypeOK
      <4>2. QED
        BY <1>1, <3>1, <4>1 DEF AccountsSound, RegistrationSound, UsersAgree
    <3>2. QED
      BY <3>1 DEF EmployeeOrOwner
  <2>3. EntryHolds
    BY <1>1, EntryKeptHolds DEF AccountsSound
  <2>4. QED
    BY <2>1, <2>2, <2>3 DEF OneUserGetsIn, OneUserEach
<1>2. QED
  BY <1>1, AccountsAreSound, PTL

\* The code in the owner's hands is the one that counts: it stays good until it is
\* used, runs out or the owner asks for another, and the token of the trial is
\* given for the code that is in force, whatever requests ran in between.
THEOREM CodesAlwaysHold == AccountsSpec => CodesHold
<1>1. ASSUME AccountsSound, [AccountsNext]_accountsVars, NEW o \in Owners
      PROVE  /\ o \in mailed /\ reg'[o].cred # reg[o].cred =>
                   \/ reg[o].until <= window
                   \/ reg'[o].status = "EMAIL_VERIFIED" /\ reg'[o].token = reg[o].cred
                   \/ \E r \in Requests : In(r, "resend") /\ request[r].owner = o
             /\ reg'[o].token # reg[o].token => reg'[o].token = reg[o].cred
  <2>1. CASE RegistrationNext
    BY <1>1, <2>1, CodesStep DEF AccountsSound, RegistrationSound
  <2>2. CASE UNCHANGED registrationVars
    BY <2>2 DEF registrationVars
  <2>3. QED
    BY <1>1, <2>1, <2>2, StepOfAccounts
<1> DEFINE Stays == \A o \in Owners :
               o \in mailed /\ reg'[o].cred # reg[o].cred =>
                   \/ reg[o].until <= window
                   \/ reg'[o].status = "EMAIL_VERIFIED" /\ reg'[o].token = reg[o].cred
                   \/ \E r \in Requests : In(r, "resend") /\ request[r].owner = o
           Newer == \A o \in Owners : reg'[o].token # reg[o].token => reg'[o].token = reg[o].cred
<1>2. AccountsSound /\ [AccountsNext]_accountsVars => [Stays]_<<reg, window>> /\ [Newer]_reg
  BY <1>1
<1>3. AccountsSpec => [][Stays]_<<reg, window>> /\ [][Newer]_reg
  BY <1>2, AccountsAreSound, PTL DEF AccountsSpec, accountsVars
<1>4. QED
  BY <1>3 DEF CodesHold, DeliveredStaysValid, NewestIsAccepted
-----------------------------------------------------------------------------
(* The office: types.                                                        *)

LetterRow(n) == [to : People, role : Roles \ {"OWNER"}, token : 1..n, late : BOOLEAN,
                 status : {"PENDING", "ACCEPTED", "REVOKED", "EXPIRED"}]

MemberRow == [status : {"NONE", "ACTIVE", "INACTIVE"}, role : Roles]

InviteRow == [op : {"invite"}, by : People, as : Roles, to : People, role : Roles \ {"OWNER"},
              stage : {"read", "again", "counted"}, used : Nat, old : Nat]

\* What a request carries is about rows that are there.
RowFits(r) ==
    /\ r.op = "invite" =>
          /\ r \in InviteRow
          /\ r.stage = "again" => r.old \in DOMAIN letters /\ letters[r.old].to = r.to
    /\ r.op = "accept" =>
          /\ r.letter \in DOMAIN letters /\ r.token \in 1..posted /\ r.role \in Roles \ {"OWNER"}
          /\ letters[r.letter].token = r.token => letters[r.letter].role = r.role
    /\ r.op = "update" =>
          /\ r.to \in People \ {Owner} /\ member[r.to].status # "NONE"
          /\ r.change \in (Roles \ {"OWNER"}) \union {"ACTIVE", "INACTIVE"}
    /\ r.op = "createStore" => r.store \in Shops /\ r.used \in Nat
    /\ r.op = "updateStore" => r.store \in Shops

OfficeTyped ==
    /\ OfficeTypeOK /\ posted \in Nat /\ day \in Days
    /\ letters \in Seq(LetterRow(posted))
    /\ DOMAIN desk = Desks /\ \A d \in Desks : RowFits(desk[d])

\* Letters stay in their place; one that is written again has a token of its own.
LettersStay ==
    /\ posted' \in Nat /\ posted <= posted'
    /\ DOMAIN letters \subseteq DOMAIN letters'
    /\ \A i \in DOMAIN letters :
          /\ letters'[i].to = letters[i].to
          /\ \/ letters'[i].token = letters[i].token /\ letters'[i].role = letters[i].role
             \/ letters'[i].token = posted + 1
    /\ \A p \in People : member[p].status # "NONE" => member'[p].status # "NONE"

LEMMA LetterRows ==
    ASSUME OfficeTyped
    PROVE  /\ posted \in Nat /\ Len(letters) \in Nat /\ DOMAIN letters = 1..Len(letters)
           /\ \A i \in DOMAIN letters : letters[i] \in LetterRow(posted)
           /\ member \in [People -> MemberRow] /\ member[Owner].status = "ACTIVE" /\ member[Owner].role = "OWNER"
           /\ shop \in [Shops -> {"NONE", "ACTIVE", "INACTIVE"}]
<1>1. letters \in Seq(LetterRow(posted)) /\ posted \in Nat
  BY DEF OfficeTyped
<1>2. \A i \in DOMAIN letters : letters[i] \in LetterRow(posted)
  BY <1>1
<1>3. Len(letters) \in Nat /\ DOMAIN letters = 1..Len(letters)
  BY <1>1
<1>4. member \in [People -> MemberRow] /\ member[Owner].status = "ACTIVE" /\ member[Owner].role = "OWNER"
      /\ shop \in [Shops -> {"NONE", "ACTIVE", "INACTIVE"}]
  BY DEF OfficeTyped, OfficeTypeOK, MemberRow
<1>5. QED
  BY <1>1, <1>2, <1>3, <1>4

LEMMA RowStays ==
    ASSUME OfficeTyped, LettersStay, NEW r, RowFits(r)
    PROVE  RowFits(r)'
<1>1. CASE r.op = "accept"
  <2>1. /\ r.letter \in DOMAIN letters /\ r.token \in 1..posted /\ r.role \in Roles \ {"OWNER"}
        /\ letters[r.letter].token = r.token => letters[r.letter].role = r.role
    BY <1>1 DEF RowFits
  <2>2. posted \in Nat /\ posted' \in Nat /\ posted <= posted'
    BY DEF LettersStay, OfficeTyped
  <2>3. r.letter \in DOMAIN letters' /\ r.token \in 1..posted' /\ r.token # posted + 1
    BY <2>1, <2>2 DEF LettersStay
  <2>4. letters'[r.letter].token = r.token => letters'[r.letter].role = r.role
    BY <2>1, <2>3 DEF LettersStay
  <2>5. QED
    BY <1>1, <2>1, <2>3, <2>4 DEF RowFits
<1>2. CASE r.op = "invite"
  BY <1>2 DEF RowFits, LettersStay
<1>3. CASE r.op \notin {"accept", "invite"}
  BY <1>3 DEF RowFits, LettersStay
<1>4. QED
  BY <1>1, <1>2, <1>3

LEMMA DesksFit ==
    ASSUME OfficeTyped, LettersStay, NEW d \in Desks, NEW r, desk' = [desk EXCEPT ![d] = r], RowFits(r)'
    PROVE  DOMAIN desk' = Desks /\ \A e \in Desks : RowFits(desk[e])'
<1>1. \A e \in Desks : \A s : s = desk[e] => RowFits(s)'
  BY RowStays DEF OfficeTyped
<1>2. DOMAIN desk = Desks
  BY DEF OfficeTyped
<1>3. \A e \in Desks : \A s : s = desk'[e] => RowFits(s)'
  BY <1>1, <1>2
<1>4. QED
  BY <1>2, <1>3

LEMMA DesksFree ==
    ASSUME OfficeTyped, LettersStay, (\E d \in Desks : Leave(d)) \/ UNCHANGED desk
    PROVE  DOMAIN desk' = Desks /\ \A e \in Desks : RowFits(desk[e])'
<1>1. RowFits(FreeDesk)'
  BY DEF RowFits, FreeDesk
<1>2. CASE UNCHANGED desk
  <2>1. \A e \in Desks : \A s : s = desk[e] => RowFits(s)'
    BY RowStays DEF OfficeTyped
  <2>2. QED
    BY <1>2, <2>1 DEF OfficeTyped
<1>3. CASE \E d \in Desks : Leave(d)
  BY <1>1, <1>3, DesksFit DEF Leave
<1>4. QED
  BY <1>2, <1>3

\* Nothing but the requests changes.
LEMMA DeskMoves ==
    ASSUME OfficeTyped, UNCHANGED <<day, member, letters, posted, shop, mainShop, works>>,
           DOMAIN desk' = Desks, \A e \in Desks : RowFits(desk[e])'
    PROVE  OfficeTyped'
  BY DEF OfficeTyped, OfficeTypeOK

LEMMA Untouched ==
    ASSUME OfficeTyped, UNCHANGED <<member, letters, posted>>
    PROVE  LettersStay
  BY DEF LettersStay, OfficeTyped

LEMMA SitTyped ==
    ASSUME OfficeTyped, NEW d \in Desks, NEW r, Sit(d, r), RowFits(r)
    PROVE  OfficeTyped'
<1>1. desk' = [desk EXCEPT ![d] = r] /\ UNCHANGED <<day, member, letters, posted, shop, mainShop, works>>
  BY DEF Sit
<1>2. LettersStay
  BY <1>1, Untouched
<1>3. RowFits(r)'
  BY <1>2, RowStays
<1>4. DOMAIN desk' = Desks /\ \A e \in Desks : RowFits(desk[e])'
  BY <1>1, <1>2, <1>3, DesksFit
<1>5. QED
  BY <1>1, <1>4, DeskMoves

LEMMA TurnedTyped ==
    ASSUME OfficeTyped, NEW d \in Desks, Turned(d)
    PROVE  OfficeTyped'
<1>1. UNCHANGED <<day, member, letters, posted, shop, mainShop, works>> /\ Leave(d)
  BY DEF Turned
<1>2. DOMAIN desk' = Desks /\ \A e \in Desks : RowFits(desk[e])'
  BY <1>1, Untouched, DesksFree
<1>3. QED
  BY <1>1, <1>2, DeskMoves

LEMMA ShopsFinite ==
    /\ IsFiniteSet(ActiveShops) /\ Cardinality(ActiveShops) \in Nat
    /\ IsFiniteSet(ActiveMembers) /\ Cardinality(ActiveMembers) \in Nat
<1>1. ActiveShops \subseteq Shops /\ ActiveMembers \subseteq People
  BY DEF ActiveShops, ActiveMembers
<1>2. QED
  BY <1>1, FS_Subset, FS_CardinalityType, OfficeAssumption

\* The requests that start.
LEMMA StartTyped ==
    ASSUME OfficeTyped, NEW d \in Desks,
           \/ \E a, p \in People, role \in Roles \ {"OWNER"} : Invite(d, a, p, role)
           \/ \E i \in DOMAIN letters : Accept(d, i)
           \/ \E a \in Acting, p \in People, change \in (Roles \ {"OWNER"}) \union {"ACTIVE", "INACTIVE"} :
                 UpdateMember(d, a, p, change)
           \/ \E s \in Shops : CreateStore(d, s) \/ UpdateStore(d, s)
    PROVE  \E r : Sit(d, r) /\ RowFits(r)
<1>1. ASSUME NEW a \in People, NEW p \in People, NEW role \in Roles \ {"OWNER"}, Invite(d, a, p, role)
      PROVE  \E r : Sit(d, r) /\ RowFits(r)
  <2> DEFINE row == [op |-> "invite", by |-> a, as |-> member[a].role, to |-> p, role |-> role,
                     stage |-> "read", used |-> 0, old |-> 0]
  <2>1. Sit(d, row)
    BY <1>1 DEF Invite
  <2>2. row \in InviteRow /\ row.op = "invite" /\ row.stage = "read"
    BY LetterRows DEF InviteRow, MemberRow
  <2> HIDE DEF row
  <2>3. QED
    BY <2>1, <2>2 DEF RowFits
<1>2. ASSUME NEW i \in DOMAIN letters, Accept(d, i)
      PROVE  \E r : Sit(d, r) /\ RowFits(r)
  <2> DEFINE row == [op |-> "accept", letter |-> i, token |-> letters[i].token, role |-> letters[i].role,
                     joined |-> ActiveMember(letters[i].to), stage |-> "read"]
  <2>1. Sit(d, row)
    BY <1>2 DEF Accept
  <2>2. row.op = "accept" /\ row.letter = i /\ row.token = letters[i].token /\ row.role = letters[i].role
    OBVIOUS
  <2>3. letters[i].token \in 1..posted /\ letters[i].role \in Roles \ {"OWNER"}
    BY LetterRows DEF LetterRow
  <2> HIDE DEF row
  <2>4. QED
    BY <2>1, <2>2, <2>3 DEF RowFits
<1>3. ASSUME NEW a \in Acting, NEW p \in People, NEW change \in (Roles \ {"OWNER"}) \union {"ACTIVE", "INACTIVE"},
             UpdateMember(d, a, p, change)
      PROVE  \E r : Sit(d, r) /\ RowFits(r)
  <2> DEFINE row == [op |-> "update", by |-> a, to |-> p, change |-> change, stage |-> "read"]
  <2>1. Sit(d, row)
    BY <1>3 DEF UpdateMember
  <2>2. row.op = "update" /\ row.to = p /\ row.change = change
    OBVIOUS
  <2>3. member[p].status # "NONE" /\ p # Owner
    BY <1>3, LetterRows DEF UpdateMember
  <2> HIDE DEF row
  <2>4. QED
    BY <2>1, <2>2, <2>3 DEF RowFits
<1>4. ASSUME NEW s \in Shops, CreateStore(d, s)
      PROVE  \E r : Sit(d, r) /\ RowFits(r)
  <2> DEFINE row == [op |-> "createStore", store |-> s, used |-> Cardinality(ActiveShops), stage |-> "counted"]
  <2>1. Sit(d, row)
    BY <1>4 DEF CreateStore
  <2>2. row.op = "createStore" /\ row.store = s /\ row.used = Cardinality(ActiveShops)
    OBVIOUS
  <2> HIDE DEF row
  <2>3. QED
    BY <2>1, <2>2, ShopsFinite DEF RowFits
<1>5. ASSUME NEW s \in Shops, UpdateStore(d, s)
      PROVE  \E r : Sit(d, r) /\ RowFits(r)
  <2> DEFINE row == [op |-> "updateStore", store |-> s, was |-> shop[s], stage |-> "read"]
  <2>1. Sit(d, row)
    BY <1>5 DEF UpdateStore
  <2>2. row.op = "updateStore" /\ row.store = s
    OBVIOUS
  <2> HIDE DEF row
  <2>3. QED
    BY <2>1, <2>2 DEF RowFits
<1>6. QED
  BY <1>1, <1>2, <1>3, <1>4, <1>5

\* Letters that change, but for those that are posted.
LEMMA LettersTyped ==
    ASSUME OfficeTyped, DOMAIN letters' = DOMAIN letters, UNCHANGED posted, letters' \in Seq(LetterRow(posted)),
           \A i \in DOMAIN letters : letters'[i].to = letters[i].to /\ letters'[i].token = letters[i].token
                                     /\ letters'[i].role = letters[i].role,
           \A p \in People : member[p].status # "NONE" => member'[p].status # "NONE",
           member' \in [People -> MemberRow], member'[Owner] = [status |-> "ACTIVE", role |-> "OWNER"],
           UNCHANGED <<day, shop, mainShop>>, works' \subseteq People \X Shops,
           (\E d \in Desks : Leave(d)) \/ UNCHANGED desk
    PROVE  OfficeTyped' /\ LettersStay
<1>1. LettersStay
  BY LetterRows DEF LettersStay
<1>2. DOMAIN desk' = Desks /\ \A e \in Desks : RowFits(desk[e])'
  BY <1>1, DesksFree
<1>3. letters' \in Seq(LetterRow(posted')) /\ \A i \in DOMAIN letters' : letters'[i] \in LetterRow(posted')
  OBVIOUS
<1>4. QED
  BY <1>1, <1>2, <1>3 DEF OfficeTyped, OfficeTypeOK, MemberRow, LetterRow

LEMMA LetterRowGrows ==
    ASSUME NEW n \in Nat, NEW l \in LetterRow(n)
    PROVE  l \in LetterRow(n + 1)
  BY DEF LetterRow

\* The letters of a recipient that are overdue expire.
LEMMA ExpiredRows ==
    ASSUME OfficeTyped, NEW p
    PROVE  /\ Expired(p) \in Seq(LetterRow(posted)) /\ Len(Expired(p)) = Len(letters)
           /\ DOMAIN Expired(p) = DOMAIN letters
           /\ \A i \in DOMAIN letters :
                 /\ Expired(p)[i].to = letters[i].to /\ Expired(p)[i].token = letters[i].token
                 /\ Expired(p)[i].role = letters[i].role /\ Expired(p)[i].late = letters[i].late
                 /\ Expired(p)[i].status \in {letters[i].status, "EXPIRED"}
                 /\ ~letters[i].late => Expired(p)[i].status = letters[i].status
<1>1. \A i \in DOMAIN letters :
          \/ Expired(p)[i] = letters[i]
          \/ letters[i].late /\ Expired(p)[i] = [letters[i] EXCEPT !.status = "EXPIRED"]
  BY DEF Expired
<1>2. \A i \in DOMAIN letters : letters[i] \in LetterRow(posted) /\ [letters[i] EXCEPT !.status = "EXPIRED"] \in LetterRow(posted)
  BY LetterRows DEF LetterRow
<1>3. DOMAIN Expired(p) = 1..Len(letters) /\ Len(letters) \in Nat
  BY LetterRows DEF Expired
<1>4. Expired(p) = [i \in 1..Len(letters) |-> Expired(p)[i]]
  BY LetterRows DEF Expired
<1>5. \A i \in 1..Len(letters) : Expired(p)[i] \in LetterRow(posted)
  BY <1>1, <1>2, LetterRows
<1>6. Expired(p) \in Seq(LetterRow(posted)) /\ Len(Expired(p)) = Len(letters)
  <2> HIDE DEF Expired
  <2>1. [i \in 1..Len(letters) |-> Expired(p)[i]] \in Seq(LetterRow(posted))
    BY <1>3, <1>5
  <2>2. QED
    BY <1>3, <1>4, <2>1
<1>7. ASSUME NEW i \in DOMAIN letters
      PROVE  /\ Expired(p)[i].to = letters[i].to /\ Expired(p)[i].token = letters[i].token
             /\ Expired(p)[i].role = letters[i].role /\ Expired(p)[i].late = letters[i].late
             /\ Expired(p)[i].status \in {letters[i].status, "EXPIRED"}
             /\ ~letters[i].late => Expired(p)[i].status = letters[i].status
  <2>1. letters[i] \in LetterRow(posted)
    BY LetterRows
  <2>2. QED
    BY <1>1, <2>1 DEF LetterRow
<1>8. QED
  <2> HIDE DEF Expired
  <2>1. QED
    BY <1>3, <1>6, <1>7, LetterRows

LEMMA CountTyped ==
    ASSUME OfficeTyped, NEW d \in Desks, CountMembers(d)
    PROVE  OfficeTyped'
<1>1. CASE Turned(d)
  BY <1>1, TurnedTyped
<1>2. CASE ~Turned(d)
  <2>1. UNCHANGED <<day, member, letters, posted, shop, mainShop, works>> /\ At(d, {"invite"})
    BY <1>2 DEF CountMembers
  <2>2. PICK r : desk' = [desk EXCEPT ![d] = r] /\ RowFits(r)
    <3>1. desk[d] \in InviteRow /\ RowFits(desk[d]) /\ DOMAIN desk = Desks
      BY <2>1 DEF At, OfficeTyped, RowFits
    <3>2. CASE PendingFor(desk[d].to) # {} /\ desk' = [desk EXCEPT ![d].stage = "again",
                                                        ![d].old = CHOOSE i \in PendingFor(desk[d].to) : TRUE]
      <4>1. PICK i \in PendingFor(desk[d].to) : desk' = [desk EXCEPT ![d] = [desk[d] EXCEPT !.stage = "again", !.old = i]]
        BY <3>2
      <4>2. i \in DOMAIN letters /\ letters[i].to = desk[d].to /\ i \in Nat
        BY LetterRows DEF PendingFor
      <4> DEFINE row == [desk[d] EXCEPT !.stage = "again", !.old = i]
      <4>3. row \in InviteRow /\ row.op = "invite" /\ row.to = desk[d].to /\ row.old = i
        BY <3>1, <4>2 DEF InviteRow
      <4> HIDE DEF row
      <4>4. RowFits(row)
        BY <4>2, <4>3 DEF RowFits
      <4>5. QED
        BY <4>1, <4>4 DEF row
    <3>3. CASE desk' = [desk EXCEPT ![d].stage = "counted", ![d].used = Cardinality(ActiveMembers)]
      <4> DEFINE row == [desk[d] EXCEPT !.stage = "counted", !.used = Cardinality(ActiveMembers)]
      <4>1. row \in InviteRow /\ row.op = "invite" /\ row.stage = "counted"
        BY <3>1, ShopsFinite DEF InviteRow
      <4>2. desk' = [desk EXCEPT ![d] = row]
        BY <3>1, <3>3
      <4> HIDE DEF row
      <4>3. RowFits(row)
        BY <4>1 DEF RowFits
      <4>4. QED
        BY <4>2, <4>3
    <3>4. QED
      BY <1>2, <3>2, <3>3 DEF CountMembers
  <2>3. LettersStay
    BY <2>1, Untouched
  <2>4. RowFits(r)'
    BY <2>2, <2>3, RowStays
  <2>5. DOMAIN desk' = Desks /\ \A e \in Desks : RowFits(desk[e])'
    BY <2>2, <2>3, <2>4, DesksFit
  <2>6. QED
    BY <2>1, <2>5, DeskMoves
<1>3. QED
  BY <1>1, <1>2

LEMMA SendTyped ==
    ASSUME OfficeTyped, NEW d \in Desks, SendLetter(d) \/ SendAgain(d)
    PROVE  OfficeTyped' /\ LettersStay
<1>1. desk[d] \in InviteRow /\ RowFits(desk[d]) /\ desk[d].to \in People /\ desk[d].role \in Roles \ {"OWNER"}
  BY DEF SendLetter, SendAgain, At, OfficeTyped, RowFits, InviteRow
<1>2. Leave(d) /\ UNCHANGED <<day, member, shop, mainShop, works>>
  BY DEF SendLetter, SendAgain
<1>3. /\ posted \in Nat /\ Len(letters) \in Nat /\ DOMAIN letters = 1..Len(letters)
      /\ \A i \in DOMAIN letters : letters[i] \in LetterRow(posted)
  BY LetterRows
<1>4. ASSUME LettersStay, letters' \in Seq(LetterRow(posted'))
      PROVE  OfficeTyped'
  <2>1. DOMAIN desk' = Desks /\ \A e \in Desks : RowFits(desk[e])'
    BY <1>2, <1>4, DesksFree
  <2>2. \A i \in DOMAIN letters' : letters'[i] \in LetterRow(posted')
    BY <1>4
  <2>3. QED
    BY <1>2, <1>4, <2>1, <2>2 DEF OfficeTyped, OfficeTypeOK, LetterRow, LettersStay
<1>5. CASE SendLetter(d) /\ letters' = Expired(desk[d].to) /\ UNCHANGED posted
  <2>1. LettersStay
    BY <1>2, <1>3, <1>5, ExpiredRows DEF LettersStay
  <2>2. letters' \in Seq(LetterRow(posted'))
    BY <1>5, ExpiredRows
  <2>3. QED
    BY <1>4, <2>1, <2>2
<1>6. CASE /\ SendLetter(d) /\ posted' = posted + 1
           /\ letters' = Append(Expired(desk[d].to), [to |-> desk[d].to, role |-> desk[d].role, status |-> "PENDING",
                                                      token |-> posted + 1, late |-> FALSE])
  <2> DEFINE row == [to |-> desk[d].to, role |-> desk[d].role, status |-> "PENDING", token |-> posted + 1, late |-> FALSE]
             old == Expired(desk[d].to)
  <2>1. row \in LetterRow(posted')
    BY <1>1, <1>3, <1>6 DEF LetterRow
  <2>2. /\ old \in Seq(LetterRow(posted)) /\ Len(old) = Len(letters) /\ DOMAIN old = DOMAIN letters
        /\ \A i \in DOMAIN letters : old[i].to = letters[i].to /\ old[i].token = letters[i].token /\ old[i].role = letters[i].role
    BY ExpiredRows
  <2>3. letters' = Append(old, row)
    BY <1>6
  <2> HIDE DEF row, old
  <2>4. old \in Seq(LetterRow(posted'))
    <3>1. LetterRow(posted) \subseteq LetterRow(posted')
      BY <1>3, <1>6, LetterRowGrows
    <3>2. QED
      BY <2>2, <3>1
  <2>5. letters' \in Seq(LetterRow(posted')) /\ \A i \in DOMAIN letters : i \in DOMAIN letters' /\ letters'[i] = old[i]
    BY <1>3, <2>1, <2>2, <2>3, <2>4
  <2>6. LettersStay
    BY <1>2, <1>3, <1>6, <2>2, <2>5 DEF LettersStay
  <2>7. QED
    BY <1>4, <2>5, <2>6
<1>7. CASE SendAgain(d)
  <2>1. PICK i \in DOMAIN letters : i = desk[d].old
    BY <1>1, <1>7 DEF SendAgain, At, RowFits
  <2> DEFINE row == [letters[i] EXCEPT !.role = desk[d].role, !.token = posted + 1, !.late = FALSE]
  <2>2. posted' = posted + 1 /\ letters' = [letters EXCEPT ![i] = row]
    BY <1>3, <1>7, <2>1 DEF SendAgain
  <2>3. row \in LetterRow(posted') /\ row.to = letters[i].to /\ row.token = posted + 1
    <3>1. letters[i] \in LetterRow(posted) /\ posted' = posted + 1 /\ posted + 1 \in 1..posted'
      BY <1>3, <2>2
    <3>2. \A role \in Roles \ {"OWNER"} : \A n \in 1..posted' :
              /\ [letters[i] EXCEPT !.role = role, !.token = n, !.late = FALSE] \in LetterRow(posted')
              /\ [letters[i] EXCEPT !.role = role, !.token = n, !.late = FALSE].to = letters[i].to
              /\ [letters[i] EXCEPT !.role = role, !.token = n, !.late = FALSE].token = n
      BY <3>1 DEF LetterRow
    <3>3. QED
      BY <1>1, <3>1, <3>2
  <2> HIDE DEF row
  <2>4. letters \in Seq(LetterRow(posted'))
    <3>1. LetterRow(posted) \subseteq LetterRow(posted')
      BY <1>3, <2>2, LetterRowGrows
    <3>2. QED
      BY <3>1 DEF OfficeTyped
  <2>5. letters' \in Seq(LetterRow(posted')) /\ DOMAIN letters' = DOMAIN letters
        /\ letters'[i] = row /\ \A j \in DOMAIN letters \ {i} : letters'[j] = letters[j]
    BY <2>2, <2>3, <2>4
  <2>6. LettersStay
    BY <1>2, <1>3, <2>2, <2>3, <2>5 DEF LettersStay
  <2>7. QED
    BY <1>4, <2>5, <2>6
<1>8. QED
  BY <1>5, <1>6, <1>7 DEF SendLetter

LEMMA LetterChangeTyped ==
    ASSUME OfficeTyped, NEW i \in DOMAIN letters, GoesLate(i) \/ Expire(i) \/ Revoke(i)
    PROVE  OfficeTyped'
<1>1. /\ letters[i] \in LetterRow(posted) /\ letters \in Seq(LetterRow(posted))
      /\ member \in [People -> MemberRow] /\ member[Owner] = [status |-> "ACTIVE", role |-> "OWNER"]
  BY LetterRows DEF OfficeTyped, OfficeTypeOK
<1>2. UNCHANGED <<day, member, posted, shop, mainShop, works, desk>>
  BY DEF GoesLate, Expire, Revoke
<1>3. PICK row \in LetterRow(posted) : /\ letters' = [letters EXCEPT ![i] = row]
                                       /\ row.to = letters[i].to /\ row.token = letters[i].token
                                       /\ row.role = letters[i].role
  <2>1. /\ [letters[i] EXCEPT !.late = TRUE] \in LetterRow(posted)
        /\ \A status \in {"REVOKED", "EXPIRED"} : [letters[i] EXCEPT !.status = status] \in LetterRow(posted)
    BY <1>1 DEF LetterRow
  <2>2. QED
    BY <1>1, <2>1 DEF GoesLate, Expire, Revoke, LetterRow
<1>4. DOMAIN letters' = DOMAIN letters /\ letters' \in Seq(LetterRow(posted))
      /\ letters'[i] = row /\ \A j \in DOMAIN letters \ {i} : letters'[j] = letters[j]
  BY <1>1, <1>3
<1>5. works \subseteq People \X Shops
  BY DEF OfficeTyped, OfficeTypeOK
<1>6. QED
  BY <1>1, <1>2, <1>3, <1>4, <1>5, LettersTyped

LEMMA HomeIsAShop ==
    ASSUME OfficeTyped
    PROVE  HomeShops \subseteq Shops
<1>1. NoShop \notin Shops /\ mainShop \in Shops \union {NoShop}
  BY OfficeAssumption DEF OfficeTyped, OfficeTypeOK
<1>2. QED
  BY <1>1 DEF HomeShops, ActiveShops

LEMMA JoinTyped ==
    ASSUME OfficeTyped, NEW d \in Desks, Join(d)
    PROVE  OfficeTyped'
<1>1. CASE Turned(d)
  BY <1>1, TurnedTyped
<1>2. CASE ~Turned(d)
  <2>1. desk[d].op = "accept" /\ desk[d].letter \in DOMAIN letters /\ desk[d].role \in Roles \ {"OWNER"}
    BY DEF Join, At, OfficeTyped, RowFits
  <2>2. PICK i \in DOMAIN letters : i = desk[d].letter
    BY <2>1
  <2>3. PICK p \in People : p = letters[i].to
    BY LetterRows DEF LetterRow
  <2>4. /\ letters' = [letters EXCEPT ![i].status = "ACCEPTED"]
        /\ member' = IF desk[d].joined THEN member
                     ELSE [member EXCEPT ![p] = [status |-> "ACTIVE", role |-> desk[d].role]]
        /\ ~desk[d].joined => member[p] = NoMember
        /\ Leave(d) /\ UNCHANGED <<day, posted, shop, mainShop>>
        /\ (HomeShops = {} /\ works' = works) \/ \E s \in HomeShops : works' = works \union {<<p, s>>}
    BY <1>2, <2>2, <2>3 DEF Join
  <2>5. works' \subseteq People \X Shops
    <3>1. works \subseteq People \X Shops
      BY DEF OfficeTyped, OfficeTypeOK
    <3>2. QED
      BY <2>4, <3>1, HomeIsAShop
  <2>6. letters' \in Seq(LetterRow(posted)) /\ DOMAIN letters' = DOMAIN letters
        /\ \A j \in DOMAIN letters : letters'[j].to = letters[j].to /\ letters'[j].token = letters[j].token
                                     /\ letters'[j].role = letters[j].role
    <3> DEFINE row == [letters[i] EXCEPT !.status = "ACCEPTED"]
    <3>1. letters[i] \in LetterRow(posted) /\ letters \in Seq(LetterRow(posted))
      BY LetterRows DEF OfficeTyped
    <3>2. row \in LetterRow(posted) /\ row.to = letters[i].to /\ row.token = letters[i].token /\ row.role = letters[i].role
      BY <3>1 DEF LetterRow
    <3>3. letters' = [letters EXCEPT ![i] = row]
      BY <2>4
    <3> HIDE DEF row
    <3>4. QED
      BY <3>1, <3>2, <3>3
  <2>7. member \in [People -> MemberRow] /\ member[Owner] = [status |-> "ACTIVE", role |-> "OWNER"]
    BY DEF OfficeTyped, OfficeTypeOK, MemberRow
  <2>8. ~desk[d].joined => p # Owner /\ member[p].status = "NONE"
    <3>1. NoMember.status = "NONE"
      BY DEF NoMember
    <3>2. QED
      BY <2>4, <3>1, LetterRows
  <2>9. [status |-> "ACTIVE", role |-> desk[d].role] \in MemberRow
    BY <2>1 DEF MemberRow
  <2>10. /\ member' \in [People -> MemberRow] /\ member'[Owner] = [status |-> "ACTIVE", role |-> "OWNER"]
         /\ \A q \in People : member[q].status # "NONE" => member'[q].status # "NONE"
    BY <2>4, <2>7, <2>8, <2>9
  <2>11. QED
    BY <2>4, <2>5, <2>6, <2>10, LettersTyped
<1>3. QED
  BY <1>1, <1>2

LEMMA WriteTyped ==
    ASSUME OfficeTyped, NEW d \in Desks, WriteMember(d)
    PROVE  OfficeTyped'
<1>1. /\ desk[d].to \in People \ {Owner} /\ member[desk[d].to].status # "NONE"
      /\ desk[d].change \in (Roles \ {"OWNER"}) \union {"ACTIVE", "INACTIVE"}
  BY DEF WriteMember, At, OfficeTyped, RowFits
<1>2. /\ member \in [People -> MemberRow] /\ member[Owner] = [status |-> "ACTIVE", role |-> "OWNER"]
      /\ letters \in Seq(LetterRow(posted)) /\ works \subseteq People \X Shops
  BY DEF OfficeTyped, OfficeTypeOK, MemberRow
<1>3. PICK p \in People \ {Owner} : p = desk[d].to
  BY <1>1
<1>4. PICK row \in MemberRow : member' = [member EXCEPT ![p] = row] /\ row.status # "NONE"
  <2>1. CASE desk[d].change \in Roles
    <3>1. member' = [member EXCEPT ![p] = [member[p] EXCEPT !.role = desk[d].change]]
      BY <1>3, <2>1 DEF WriteMember
    <3>2. [member[p] EXCEPT !.role = desk[d].change] \in MemberRow /\ [member[p] EXCEPT !.role = desk[d].change].status # "NONE"
      BY <1>1, <1>2, <1>3, <2>1 DEF MemberRow
    <3>3. QED
      BY <3>1, <3>2
  <2>2. CASE desk[d].change \notin Roles
    <3>1. member' = [member EXCEPT ![p] = [member[p] EXCEPT !.status = desk[d].change]]
      BY <1>3, <2>2 DEF WriteMember
    <3>2. [member[p] EXCEPT !.status = desk[d].change] \in MemberRow /\ [member[p] EXCEPT !.status = desk[d].change].status # "NONE"
      BY <1>1, <1>2, <1>3, <2>2 DEF MemberRow
    <3>3. QED
      BY <3>1, <3>2
  <2>3. QED
    BY <2>1, <2>2
<1>5. /\ member' \in [People -> MemberRow] /\ member'[Owner] = [status |-> "ACTIVE", role |-> "OWNER"]
      /\ \A q \in People : member[q].status # "NONE" => member'[q].status # "NONE"
  BY <1>2, <1>4
<1>6. Leave(d) /\ UNCHANGED <<day, letters, posted, shop, mainShop, works>>
  BY DEF WriteMember
<1>7. QED
  BY <1>2, <1>5, <1>6, LettersTyped

LEMMA ShopsTyped ==
    ASSUME OfficeTyped, UNCHANGED <<day, member, letters, posted>>,
           shop' \in [Shops -> {"NONE", "ACTIVE", "INACTIVE"}], mainShop' \in Shops \union {NoShop},
           works' \subseteq People \X Shops, (\E d \in Desks : Leave(d)) \/ UNCHANGED desk
    PROVE  OfficeTyped'
<1>1. DOMAIN desk' = Desks /\ \A e \in Desks : RowFits(desk[e])'
  BY Untouched, DesksFree
<1>2. QED
  BY <1>1 DEF OfficeTyped, OfficeTypeOK

LEMMA StoreTyped ==
    ASSUME OfficeTyped,
           \/ \E d \in Desks : OpenStore(d) \/ ActivateStore(d) \/ \E s \in Shops : CreateClosed(d, s)
           \/ \E s \in Shops : DeactivateStore(s) \/ \E a \in Acting : SetPrimaryStore(a, s)
    PROVE  OfficeTyped'
<1>1. shop \in [Shops -> {"NONE", "ACTIVE", "INACTIVE"}] /\ mainShop \in Shops \union {NoShop} /\ works \subseteq People \X Shops
  BY DEF OfficeTyped, OfficeTypeOK
<1>2. ASSUME NEW d \in Desks, OpenStore(d)
      PROVE  OfficeTyped'
  <2>1. PICK s \in Shops : s = desk[d].store
    BY <1>2 DEF OpenStore, At, OfficeTyped, RowFits
  <2>2. CASE Turned(d)
    BY <2>2, TurnedTyped
  <2>3. CASE ~Turned(d)
    <3>1. /\ shop' = [shop EXCEPT ![s] = "ACTIVE"] /\ mainShop' \in {s, mainShop}
          /\ works' \in {works \union (ActiveMembers \X {s}), works}
          /\ Leave(d) /\ UNCHANGED <<day, member, letters, posted>>
      BY <1>2, <2>1, <2>3 DEF OpenStore
    <3>2. works' \subseteq People \X Shops
      BY <1>1, <3>1 DEF ActiveMembers
    <3>3. QED
      BY <1>1, <3>1, <3>2, ShopsTyped
  <2>4. QED
    BY <2>2, <2>3
<1>3. ASSUME NEW d \in Desks, ActivateStore(d)
      PROVE  OfficeTyped'
  <2>1. PICK s \in Shops : s = desk[d].store
    BY <1>3 DEF ActivateStore, At, OfficeTyped, RowFits
  <2>2. CASE Turned(d)
    BY <2>2, TurnedTyped
  <2>3. CASE ~Turned(d)
    <3>1. shop' = [shop EXCEPT ![s] = "ACTIVE"] /\ Leave(d) /\ UNCHANGED <<day, member, letters, posted, mainShop, works>>
      BY <1>3, <2>1, <2>3 DEF ActivateStore
    <3>2. QED
      BY <1>1, <3>1, ShopsTyped
  <2>4. QED
    BY <2>2, <2>3
<1>4. ASSUME NEW d \in Desks, NEW s \in Shops, CreateClosed(d, s)
      PROVE  OfficeTyped'
  BY <1>1, <1>4, ShopsTyped DEF CreateClosed
<1>5. ASSUME NEW s \in Shops, DeactivateStore(s) \/ \E a \in Acting : SetPrimaryStore(a, s)
      PROVE  OfficeTyped'
  BY <1>1, <1>5, ShopsTyped DEF DeactivateStore, SetPrimaryStore
<1>6. QED
  BY <1>2, <1>3, <1>4, <1>5

LEMMA OfficeStepTyped ==
    ASSUME OfficeTyped, OfficeNext
    PROVE  OfficeTyped'
<1>1. ASSUME NEW d \in Vacant,
             \/ posted < MaxLetters /\ \E a, p \in People, role \in Roles \ {"OWNER"} : Invite(d, a, p, role)
             \/ \E i \in DOMAIN letters : Accept(d, i)
             \/ \E a \in Acting, p \in People, change \in (Roles \ {"OWNER"}) \union {"ACTIVE", "INACTIVE"} :
                   UpdateMember(d, a, p, change)
             \/ \E s \in Shops : CreateStore(d, s) \/ UpdateStore(d, s)
      PROVE  OfficeTyped'
  <2>1. d \in Desks
    BY DEF Vacant
  <2>2. \E r : Sit(d, r) /\ RowFits(r)
    BY <1>1, <2>1, StartTyped
  <2>3. QED
    BY <2>1, <2>2, SitTyped
<1>2. ASSUME NEW d \in Desks, CountMembers(d) \/ SendLetter(d) \/ SendAgain(d) \/ Join(d) \/ WriteMember(d)
      PROVE  OfficeTyped'
  BY <1>2, CountTyped, SendTyped, JoinTyped, WriteTyped
<1>3. ASSUME NEW i \in DOMAIN letters, GoesLate(i) \/ Expire(i) \/ Revoke(i)
      PROVE  OfficeTyped'
  BY <1>3, LetterChangeTyped
<1>4. CASE \/ \E d \in Desks : OpenStore(d) \/ ActivateStore(d) \/ \E s \in Shops : CreateClosed(d, s)
           \/ \E s \in Shops : DeactivateStore(s) \/ \E a \in Acting : SetPrimaryStore(a, s)
  BY <1>4, StoreTyped
<1>5. QED
  BY <1>1, <1>2, <1>3, <1>4 DEF OfficeNext

LEMMA InitOfficeTyped ==
    ASSUME OfficeInit
    PROVE  OfficeTyped
<1>1. \A d \in Desks : RowFits(desk[d])
  BY DEF OfficeInit, FreeDesk, RowFits
<1>2. letters \in Seq(LetterRow(posted)) /\ DOMAIN letters = {} /\ posted = 0
  BY DEF OfficeInit
<1>3. member[Owner] = [status |-> "ACTIVE", role |-> "OWNER"] /\ member \in [People -> MemberRow]
  BY OfficeAssumption DEF OfficeInit, NoMember, MemberRow, Roles
<1>4. QED
  BY <1>1, <1>2, <1>3 DEF OfficeInit, OfficeTyped, OfficeTypeOK, MemberRow

-----------------------------------------------------------------------------
(* The office: one letter for a person.  The lock of the recipient makes it so. *)

\* What a request for an invitation has seen of its recipient.
SeesLetters(r) ==
    r.op = "invite" =>
        /\ r.stage = "counted" => PendingFor(r.to) = {}
        /\ r.stage = "again" => PendingFor(r.to) \subseteq {r.old}

LettersOne ==
    /\ \A d, e \in Desks :
          desk[d].op = "invite" /\ desk[e].op = "invite" /\ desk[d].to = desk[e].to => d = e
    /\ \A d \in Desks : SeesLetters(desk[d])
    /\ \A p : \A i, j \in PendingFor(p) : i = j

LEMMA LettersOneHolds ==
    ASSUME LettersOne
    PROVE  OneLetter
  BY DEF LettersOne, OneLetter, Invited, PendingFor

\* No letter becomes one that can be accepted; a request goes on.
LEMMA FewerPending ==
    ASSUME OfficeTyped, LettersOne, \A p : PendingFor(p)' \subseteq PendingFor(p),
           NEW d \in Desks, NEW r, desk' = [desk EXCEPT ![d] = r], SeesLetters(r),
           r.op = "invite" => \A e \in Desks \ {d} : ~(desk[e].op = "invite" /\ desk[e].to = r.to)
    PROVE  LettersOne'
<1>1. desk'[d] = r /\ \A e \in Desks \ {d} : desk'[e] = desk[e]
  BY DEF OfficeTyped
<1>2. \A s : SeesLetters(s) => SeesLetters(s)'
  BY DEF SeesLetters
<1>3. ASSUME NEW e \in Desks
      PROVE  SeesLetters(desk[e])'
  <2>1. \A s : s = desk'[e] => SeesLetters(s)
    BY <1>1 DEF LettersOne
  <2>2. \A s : s = desk'[e] => SeesLetters(s)'
    BY <1>2, <2>1
  <2>3. QED
    BY <2>2
<1>4. \A e, f \in Desks : desk'[e].op = "invite" /\ desk'[f].op = "invite" /\ desk'[e].to = desk'[f].to => e = f
  BY <1>1 DEF LettersOne
<1>5. QED
  BY <1>3, <1>4 DEF LettersOne

\* No request goes on.
LEMMA FewerPendingAlone ==
    ASSUME OfficeTyped, LettersOne, \A p : PendingFor(p)' \subseteq PendingFor(p), UNCHANGED desk
    PROVE  LettersOne'
<1>1. \A s : SeesLetters(s) => SeesLetters(s)'
  BY DEF SeesLetters
<1>2. ASSUME NEW e \in Desks
      PROVE  SeesLetters(desk[e])'
  <2>1. \A s : s = desk'[e] => SeesLetters(s)'
    BY <1>1 DEF LettersOne
  <2>2. QED
    BY <2>1
<1>3. QED
  BY <1>2 DEF LettersOne

\* The letter of a request that ends is the only one of its recipient.
LEMMA OnePending ==
    ASSUME OfficeTyped, LettersOne, NEW d \in Desks, desk[d].op = "invite", Leave(d), NEW to, to = desk[d].to,
           \A p : p # to => PendingFor(p)' \subseteq PendingFor(p),
           \E k : PendingFor(to)' \subseteq {k}
    PROVE  LettersOne'
<1>1. desk'[d] = FreeDesk /\ FreeDesk.op = "none" /\ \A e \in Desks \ {d} : desk'[e] = desk[e]
  BY DEF OfficeTyped, Leave, FreeDesk
<1>2. \A p : p # to => PendingFor(p)' \subseteq PendingFor(p)
  OBVIOUS
<1>3. \A s : SeesLetters(s) /\ (s.op = "invite" => s.to # to) => SeesLetters(s)'
  BY DEF SeesLetters
<1>4. ASSUME NEW e \in Desks
      PROVE  SeesLetters(desk[e])'
  <2>1. \A s : s = desk'[e] => SeesLetters(s) /\ (s.op = "invite" => s.to # to)
    BY <1>1 DEF LettersOne, SeesLetters
  <2>2. \A s : s = desk'[e] => SeesLetters(s)'
    BY <1>3, <2>1
  <2>3. QED
    BY <2>2
<1>5. \A e, f \in Desks : desk'[e].op = "invite" /\ desk'[f].op = "invite" /\ desk'[e].to = desk'[f].to => e = f
  BY <1>1 DEF LettersOne
<1>6. ASSUME NEW p, NEW i \in PendingFor(p)', NEW j \in PendingFor(p)'
      PROVE  i = j
  BY <1>6 DEF LettersOne
<1>7. QED
  BY <1>4, <1>5, <1>6 DEF LettersOne

LEMMA LettersOneStep ==
    ASSUME OfficeTyped, LettersOne, OfficeNext
    PROVE  LettersOne'
<1>1. DOMAIN desk = Desks /\ FreeDesk.op = "none" /\ SeesLetters(FreeDesk)
  BY DEF OfficeTyped, FreeDesk, SeesLetters
<1>2. ASSUME UNCHANGED letters
      PROVE  \A p : PendingFor(p)' \subseteq PendingFor(p)
  BY <1>2 DEF PendingFor, Waiting
<1>3. ASSUME NEW d \in Desks, Leave(d), \A p : PendingFor(p)' \subseteq PendingFor(p)
      PROVE  LettersOne'
  BY <1>1, <1>3, FewerPending DEF Leave
<1>4. ASSUME NEW d \in Desks,
             \/ \E a, p \in People, role \in Roles \ {"OWNER"} : Invite(d, a, p, role)
             \/ \E i \in DOMAIN letters : Accept(d, i)
             \/ \E a \in Acting, p \in People, change \in (Roles \ {"OWNER"}) \union {"ACTIVE", "INACTIVE"} :
                   UpdateMember(d, a, p, change)
             \/ \E s \in Shops : CreateStore(d, s) \/ UpdateStore(d, s)
      PROVE  LettersOne'
  <2>1. PICK r : /\ Sit(d, r)
                 /\ r.op = "invite" => r.stage = "read" /\ \A e \in Desks \ {d} : ~(desk[e].op = "invite" /\ desk[e].to = r.to)
    <3>1. ASSUME NEW a \in People, NEW p \in People, NEW role \in Roles \ {"OWNER"}, Invite(d, a, p, role)
          PROVE  \E r : /\ Sit(d, r)
                        /\ r.op = "invite" => r.stage = "read" /\ \A e \in Desks \ {d} : ~(desk[e].op = "invite" /\ desk[e].to = r.to)
      <4> DEFINE row == [op |-> "invite", by |-> a, as |-> member[a].role, to |-> p, role |-> role,
                         stage |-> "read", used |-> 0, old |-> 0]
      <4>1. Sit(d, row) /\ \A e \in Desks \ {d} : ~(desk[e].op = "invite" /\ desk[e].to = p)
        BY <3>1 DEF Invite, Alone, At
      <4>2. row.stage = "read" /\ row.to = p
        OBVIOUS
      <4> HIDE DEF row
      <4>3. QED
        BY <4>1, <4>2
    <3>2. ASSUME \/ \E i \in DOMAIN letters : Accept(d, i)
                 \/ \E a \in Acting, p \in People, change \in (Roles \ {"OWNER"}) \union {"ACTIVE", "INACTIVE"} :
                       UpdateMember(d, a, p, change)
                 \/ \E s \in Shops : CreateStore(d, s) \/ UpdateStore(d, s)
          PROVE  \E r : Sit(d, r) /\ r.op # "invite"
      <4>1. \A i, t, m, j, s : [op |-> "accept", letter |-> i, token |-> t, role |-> m, joined |-> j, stage |-> s].op # "invite"
        OBVIOUS
      <4>2. \A a, p, n, s : [op |-> "update", by |-> a, to |-> p, change |-> n, stage |-> s].op # "invite"
        OBVIOUS
      <4>3. /\ \A s, n, t : [op |-> "createStore", store |-> s, used |-> n, stage |-> t].op # "invite"
            /\ \A s, w, t : [op |-> "updateStore", store |-> s, was |-> w, stage |-> t].op # "invite"
        OBVIOUS
      <4>4. (\E i \in DOMAIN letters : Accept(d, i)) => \E r : Sit(d, r) /\ r.op # "invite"
        BY <4>1 DEF Accept
      <4>5. \A a \in Acting, p \in People, change \in (Roles \ {"OWNER"}) \union {"ACTIVE", "INACTIVE"} :
                UpdateMember(d, a, p, change) => \E r : Sit(d, r) /\ r.op # "invite"
        BY <4>2 DEF UpdateMember
      <4>6. \A s \in Shops : CreateStore(d, s) \/ UpdateStore(d, s) => \E r : Sit(d, r) /\ r.op # "invite"
        BY <4>3 DEF CreateStore, UpdateStore
      <4>7. QED
        BY <3>2, <4>4, <4>5, <4>6
    <3>3. QED
      BY <1>4, <3>1, <3>2
  <2>2. desk' = [desk EXCEPT ![d] = r] /\ UNCHANGED letters
    BY <2>1 DEF Sit
  <2>3. SeesLetters(r)
    BY <2>1 DEF SeesLetters
  <2>4. QED
    BY <1>2, <2>1, <2>2, <2>3, FewerPending
<1>5. ASSUME NEW d \in Desks, CountMembers(d)
      PROVE  LettersOne'
  <2>1. UNCHANGED letters /\ desk[d].op = "invite"
    BY <1>5 DEF CountMembers, Turned, At
  <2>2. CASE Turned(d)
    BY <1>2, <1>3, <2>1, <2>2 DEF Turned
  <2>3. desk[d] \in InviteRow
    BY <2>1 DEF OfficeTyped, RowFits
  <2>4. \A r : desk' = [desk EXCEPT ![d] = r] /\ r.to = desk[d].to /\ SeesLetters(r) => LettersOne'
    <3>1. ASSUME NEW r, desk' = [desk EXCEPT ![d] = r], r.to = desk[d].to, SeesLetters(r)
          PROVE  LettersOne'
      <4>1. \A e \in Desks \ {d} : ~(desk[e].op = "invite" /\ desk[e].to = r.to)
        BY <2>1, <3>1 DEF LettersOne
      <4>2. QED
        BY <1>2, <2>1, <3>1, <4>1, FewerPending
    <3>2. QED
      BY <3>1
  <2>5. CASE PendingFor(desk[d].to) # {} /\ desk' = [desk EXCEPT ![d].stage = "again",
                                                      ![d].old = CHOOSE i \in PendingFor(desk[d].to) : TRUE]
    <3>1. PICK i \in PendingFor(desk[d].to) : desk' = [desk EXCEPT ![d] = [desk[d] EXCEPT !.stage = "again", !.old = i]]
      BY <1>1, <2>5
    <3> DEFINE row == [desk[d] EXCEPT !.stage = "again", !.old = i]
    <3>2. row.stage = "again" /\ row.old = i /\ row.to = desk[d].to
      BY <2>3 DEF InviteRow
    <3>3. PendingFor(desk[d].to) \subseteq {i}
      BY DEF LettersOne
    <3>4. desk' = [desk EXCEPT ![d] = row]
      BY <3>1
    <3> HIDE DEF row
    <3>5. SeesLetters(row)
      BY <3>2, <3>3 DEF SeesLetters
    <3>6. QED
      BY <2>4, <3>2, <3>4, <3>5
  <2>6. CASE PendingFor(desk[d].to) = {} /\ desk' = [desk EXCEPT ![d].stage = "counted", ![d].used = Cardinality(ActiveMembers)]
    <3> DEFINE row == [desk[d] EXCEPT !.stage = "counted", !.used = Cardinality(ActiveMembers)]
    <3>1. row.stage = "counted" /\ row.to = desk[d].to
      BY <2>3 DEF InviteRow
    <3>2. desk' = [desk EXCEPT ![d] = row]
      BY <1>1, <2>6
    <3> HIDE DEF row
    <3>3. SeesLetters(row)
      BY <2>6, <3>1 DEF SeesLetters
    <3>4. QED
      BY <2>4, <3>1, <3>2, <3>3
  <2>7. QED
    BY <1>5, <2>2, <2>5, <2>6 DEF CountMembers
<1>6. ASSUME NEW d \in Desks, SendLetter(d)
      PROVE  LettersOne'
  <2>1. PICK to \in People : to = desk[d].to
    BY <1>6 DEF SendLetter, At, OfficeTyped, RowFits, InviteRow
  <2>2. Leave(d) /\ desk[d].op = "invite" /\ PendingFor(to) = {}
    BY <1>6, <2>1 DEF SendLetter, At, LettersOne, SeesLetters
  <2>3. /\ DOMAIN Expired(to) = DOMAIN letters /\ Expired(to) \in Seq(LetterRow(posted)) /\ Len(Expired(to)) = Len(letters)
        /\ DOMAIN letters = 1..Len(letters) /\ Len(letters) \in Nat
        /\ \A i \in DOMAIN letters : /\ Expired(to)[i].to = letters[i].to /\ Expired(to)[i].late = letters[i].late
                                     /\ Expired(to)[i].status \in {letters[i].status, "EXPIRED"}
    BY ExpiredRows, LetterRows
  <2>4. CASE letters' = Expired(to)
    <3>1. \A p : PendingFor(p)' \subseteq PendingFor(p)
      BY <2>3, <2>4 DEF PendingFor, Waiting
    <3>2. QED
      BY <1>3, <2>2, <3>1
  <2>5. ASSUME NEW row, row.to = to, letters' = Append(Expired(to), row)
        PROVE  LettersOne'
    <3>1. DOMAIN letters' = 1..(Len(letters) + 1) /\ letters'[Len(letters) + 1] = row
          /\ \A i \in DOMAIN letters : letters'[i] = Expired(to)[i]
      BY <2>3, <2>5
    <3>2. \A i \in DOMAIN letters' : i \in DOMAIN letters \/ i = Len(letters) + 1
      BY <2>3, <3>1
    <3>3. ASSUME NEW p, NEW i \in PendingFor(p)'
          PROVE  (i \in DOMAIN letters /\ i \in PendingFor(p)) \/ (i = Len(letters) + 1 /\ p = to)
      <4>1. i \in DOMAIN letters' /\ letters'[i].to = p /\ letters'[i].status = "PENDING" /\ ~letters'[i].late
        BY <3>3 DEF PendingFor, Waiting
      <4>2. CASE i \in DOMAIN letters
        BY <2>3, <3>1, <4>1, <4>2 DEF PendingFor, Waiting
      <4>3. CASE i = Len(letters) + 1
        BY <2>5, <3>1, <4>1, <4>3
      <4>4. QED
        BY <3>2, <4>1, <4>2, <4>3
    <3>4. \A p : p # to => PendingFor(p)' \subseteq PendingFor(p)
      BY <3>3
    <3>5. \E k : PendingFor(to)' \subseteq {k}
      <4>1. \A i \in PendingFor(to)' : i = Len(letters) + 1
        BY <2>2, <3>3
      <4>2. QED
        BY <4>1
    <3>6. QED
      BY <2>1, <2>2, <3>4, <3>5, OnePending
  <2>6. QED
    <3>1. \A m, n : [to |-> to, role |-> m, status |-> "PENDING", token |-> n, late |-> FALSE].to = to
      OBVIOUS
    <3>2. letters' = Expired(to) \/ \E row : row.to = to /\ letters' = Append(Expired(to), row)
      BY <1>6, <2>1, <3>1 DEF SendLetter
    <3>3. QED
      BY <2>4, <2>5, <3>2
<1>7. ASSUME NEW d \in Desks, SendAgain(d)
      PROVE  LettersOne'
  <2>1. PICK to \in People : to = desk[d].to
    BY <1>7 DEF SendAgain, At, OfficeTyped, RowFits, InviteRow
  <2>2. PICK k \in DOMAIN letters : k = desk[d].old /\ letters[k].to = to
    BY <1>7, <2>1 DEF SendAgain, At, OfficeTyped, RowFits
  <2>3. Leave(d) /\ desk[d].op = "invite" /\ PendingFor(to) \subseteq {k}
    BY <1>7, <2>1, <2>2 DEF SendAgain, At, LettersOne, SeesLetters
  <2>4. /\ DOMAIN letters' = DOMAIN letters /\ \A i \in DOMAIN letters \ {k} : letters'[i] = letters[i]
        /\ letters'[k].to = to
    BY <1>7, <2>2, LetterRows DEF SendAgain, LetterRow
  <2>5. ASSUME NEW p, NEW i \in PendingFor(p)'
        PROVE  i \in PendingFor(p) \/ (i = k /\ p = to)
    BY <2>4 DEF PendingFor, Waiting
  <2>6. \A p : p # to => PendingFor(p)' \subseteq PendingFor(p)
    BY <2>5
  <2>7. PendingFor(to)' \subseteq {k}
    BY <2>3, <2>5
  <2>8. QED
    BY <2>1, <2>3, <2>6, <2>7, OnePending
<1>8. ASSUME NEW d \in Desks, Join(d)
      PROVE  LettersOne'
  <2>1. CASE Turned(d)
    BY <1>2, <1>3, <2>1 DEF Turned
  <2>2. CASE ~Turned(d)
    <3>1. letters' = [letters EXCEPT ![desk[d].letter].status = "ACCEPTED"] /\ Leave(d)
      BY <1>8, <2>2 DEF Join
    <3>2. \A p : PendingFor(p)' \subseteq PendingFor(p)
      BY <3>1, LetterRows DEF PendingFor, Waiting, LetterRow
    <3>3. QED
      BY <1>3, <3>1, <3>2
  <2>3. QED
    BY <2>1, <2>2
<1>9. ASSUME NEW i \in DOMAIN letters, GoesLate(i) \/ Expire(i) \/ Revoke(i)
      PROVE  LettersOne'
  <2>1. \A p : PendingFor(p)' \subseteq PendingFor(p)
    BY <1>9, LetterRows DEF GoesLate, Expire, Revoke, PendingFor, Waiting, LetterRow
  <2>2. QED
    BY <1>9, <2>1, FewerPendingAlone DEF GoesLate, Expire, Revoke
<1>10. ASSUME NEW d \in Desks, WriteMember(d) \/ OpenStore(d) \/ ActivateStore(d)
       PROVE  LettersOne'
  BY <1>2, <1>3, <1>10 DEF WriteMember, OpenStore, ActivateStore, Turned
<1>11. CASE \/ \E d \in Desks, s \in Shops : CreateClosed(d, s)
            \/ \E s \in Shops : DeactivateStore(s) \/ \E a \in Acting : SetPrimaryStore(a, s)
  BY <1>2, <1>11, FewerPendingAlone DEF CreateClosed, DeactivateStore, SetPrimaryStore
<1>12. Vacant \subseteq Desks
  BY DEF Vacant
<1>13. QED
  BY <1>4, <1>5, <1>6, <1>7, <1>8, <1>9, <1>10, <1>11, <1>12 DEF OfficeNext

-----------------------------------------------------------------------------
(* The office: the stores of the plan.  A store is opened under a lock; one that *)
(* is to be active again was read before it, so that no other request may run   *)
(* beside it.                                                                 *)

StoresKept ==
    /\ StoresHold
    /\ \A d \in Desks : desk[d].op = "createStore" =>
          desk[d].stage = "counted" /\ Cardinality(ActiveShops) <= desk[d].used
    /\ \A d, e \in Desks : desk[d].op = "createStore" /\ desk[e].op = "createStore" => d = e
    /\ \A d \in Desks : desk[d].op = "updateStore" =>
          /\ \A e \in Desks \ {d} : desk[e] = FreeDesk
          /\ desk[d].was # "INACTIVE" => Cardinality(ActiveShops \union {desk[d].store}) <= MaxStores

LEMMA FewerShops ==
    ASSUME NEW S \in SUBSET Shops, NEW T \in SUBSET S
    PROVE  Cardinality(T) <= Cardinality(S) /\ Cardinality(S) \in Nat /\ Cardinality(T) \in Nat
<1>1. IsFiniteSet(S)
  BY FS_Subset, OfficeAssumption
<1>2. QED
  BY <1>1, FS_Subset, FS_CardinalityType

LEMMA OneShopMore ==
    ASSUME NEW S \in SUBSET Shops, NEW s
    PROVE  Cardinality(S \union {s}) <= Cardinality(S) + 1 /\ Cardinality(S) \in Nat /\ Cardinality(S \union {s}) \in Nat
<1>1. IsFiniteSet(S)
  BY FS_Subset, OfficeAssumption
<1>2. Cardinality(S \union {s}) = IF s \in S THEN Cardinality(S) ELSE Cardinality(S) + 1
  BY <1>1, FS_AddElement
<1>3. QED
  BY <1>1, <1>2, FS_CardinalityType

\* No more stores are active, and a request about something else goes on.
LEMMA FewerStores ==
    ASSUME OfficeTyped, StoresKept, ActiveShops' \subseteq ActiveShops,
           \/ UNCHANGED desk
           \/ \E d \in Desks : Leave(d)
           \/ \E d \in Desks : \E r : /\ desk' = [desk EXCEPT ![d] = r] /\ r.op \notin {"createStore", "updateStore"}
                                      /\ \A e \in Desks \ {d} : desk[e].op # "updateStore"
    PROVE  StoresKept'
<1>1. /\ Cardinality(ActiveShops') <= Cardinality(ActiveShops)
      /\ Cardinality(ActiveShops) \in Nat /\ Cardinality(ActiveShops') \in Nat /\ MaxStores \in Nat
  BY FewerShops, OfficeAssumption DEF ActiveShops
<1>2. ASSUME NEW s \in Shops
      PROVE  /\ Cardinality(ActiveShops' \union {s}) <= Cardinality(ActiveShops \union {s})
             /\ Cardinality(ActiveShops' \union {s}) \in Nat /\ Cardinality(ActiveShops \union {s}) \in Nat
  <2>1. ActiveShops \union {s} \in SUBSET Shops /\ ActiveShops' \union {s} \in SUBSET (ActiveShops \union {s})
    BY DEF ActiveShops
  <2>2. QED
    BY <2>1, FewerShops
<1>3. DOMAIN desk = Desks /\ FreeDesk.op = "none"
  BY DEF OfficeTyped, FreeDesk
<1>4. ASSUME NEW d \in Desks, desk'[d].op \in {"createStore", "updateStore"}
      PROVE  desk'[d] = desk[d] /\ (desk[d].op = "updateStore" => \A e \in Desks \ {d} : desk'[e] = FreeDesk)
  <2>1. CASE UNCHANGED desk
    BY <2>1 DEF StoresKept
  <2>2. CASE \E b \in Desks : Leave(b)
    BY <1>3, <1>4, <2>2 DEF StoresKept, Leave
  <2>3. CASE \E b \in Desks : \E r : /\ desk' = [desk EXCEPT ![b] = r] /\ r.op \notin {"createStore", "updateStore"}
                                     /\ \A e \in Desks \ {b} : desk[e].op # "updateStore"
    BY <1>3, <1>4, <2>3 DEF StoresKept
  <2>4. QED
    BY <2>1, <2>2, <2>3
<1>5. \A d \in Desks : desk[d].op \in {"createStore", "updateStore"} => desk[d].store \in Shops
  BY DEF OfficeTyped, RowFits
<1>6. \A d \in Desks : desk[d].op = "createStore" => desk[d].used \in Nat
  BY DEF OfficeTyped, RowFits
<1>7. StoresHold'
  BY <1>1 DEF StoresKept, StoresHold
<1>8. ASSUME NEW d \in Desks, desk'[d].op = "createStore"
      PROVE  desk'[d].stage = "counted" /\ Cardinality(ActiveShops') <= desk'[d].used
  BY <1>1, <1>4, <1>6, <1>8 DEF StoresKept
<1>9. ASSUME NEW d \in Desks, desk'[d].op = "updateStore"
      PROVE  /\ \A e \in Desks \ {d} : desk'[e] = FreeDesk
             /\ desk'[d].was # "INACTIVE" => Cardinality(ActiveShops' \union {desk'[d].store}) <= MaxStores
  <2>1. desk'[d] = desk[d] /\ desk[d].op = "updateStore" /\ desk[d].store \in Shops
    BY <1>4, <1>5, <1>9
  <2>2. desk[d].was # "INACTIVE" => Cardinality(ActiveShops \union {desk[d].store}) <= MaxStores
    BY <2>1 DEF StoresKept
  <2>3. PICK s \in Shops : s = desk[d].store
    BY <2>1
  <2>4. /\ Cardinality(ActiveShops' \union {s}) <= Cardinality(ActiveShops \union {s})
        /\ Cardinality(ActiveShops' \union {s}) \in Nat /\ Cardinality(ActiveShops \union {s}) \in Nat
    BY <1>2
  <2>5. desk[d].was # "INACTIVE" => Cardinality(ActiveShops' \union {s}) <= MaxStores
    BY <1>1, <2>2, <2>3, <2>4
  <2>6. \A e \in Desks \ {d} : desk'[e] = FreeDesk
    BY <1>4, <1>9, <2>1
  <2>7. QED
    BY <2>1, <2>3, <2>5, <2>6
<1>10. \A d, e \in Desks : desk'[d].op = "createStore" /\ desk'[e].op = "createStore" => d = e
  BY <1>4 DEF StoresKept
<1>11. QED
  BY <1>7, <1>8, <1>9, <1>10 DEF StoresKept

\* One store more, when no other request counts stores.
LEMMA StoreOpened ==
    ASSUME OfficeTyped, StoresKept, NEW s \in Shops, Cardinality(ActiveShops \union {s}) <= MaxStores,
           shop' = [shop EXCEPT ![s] = "ACTIVE"], NEW d \in Desks, Leave(d),
           \A e \in Desks \ {d} : desk[e].op \notin {"createStore", "updateStore"}
    PROVE  StoresKept'
<1>1. ActiveShops' = ActiveShops \union {s}
  BY DEF ActiveShops, OfficeTyped, OfficeTypeOK
<1>2. \A e \in Desks : desk'[e].op \notin {"createStore", "updateStore"}
  BY DEF Leave, OfficeTyped, FreeDesk
<1>3. QED
  BY <1>1, <1>2 DEF StoresKept, StoresHold

LEMMA StoresKeptStep ==
    ASSUME "updateStore" \notin Aside, OfficeTyped, StoresKept, OfficeNext
    PROVE  StoresKept'
<1>1. DOMAIN desk = Desks /\ FreeDesk.op = "none" /\ shop \in [Shops -> {"NONE", "ACTIVE", "INACTIVE"}]
  BY LetterRows DEF OfficeTyped, FreeDesk
<1>2. ASSUME UNCHANGED shop
      PROVE  ActiveShops' \subseteq ActiveShops
  BY <1>2 DEF ActiveShops
<1>3. ASSUME NEW d \in Desks, NEW r, Sit(d, r)
      PROVE  /\ desk[d] = FreeDesk /\ desk' = [desk EXCEPT ![d] = r] /\ UNCHANGED shop
             /\ \A e \in Desks : desk[e].op # "updateStore"
             /\ r.op = "updateStore" => \A e \in Desks \ {d} : desk[e] = FreeDesk
  BY <1>1, <1>3 DEF Sit
<1>4. ASSUME NEW d \in Desks, NEW r, Sit(d, r), r.op \notin {"createStore", "updateStore"}
      PROVE  StoresKept'
  BY <1>2, <1>3, <1>4, FewerStores
<1>5. ASSUME NEW d \in Desks, NEW s \in Shops, CreateStore(d, s)
      PROVE  StoresKept'
  <2> DEFINE row == [op |-> "createStore", store |-> s, used |-> Cardinality(ActiveShops), stage |-> "counted"]
  <2>1. Sit(d, row) /\ LockFree(d, {"createStore", "updateStore"})
    BY <1>5 DEF CreateStore
  <2>2. row.op = "createStore" /\ row.used = Cardinality(ActiveShops) /\ row.stage = "counted"
    OBVIOUS
  <2> HIDE DEF row
  <2>3. ActiveShops' = ActiveShops /\ desk' = [desk EXCEPT ![d] = row] /\ \A e \in Desks : desk[e].op # "updateStore"
    BY <1>3, <2>1 DEF ActiveShops
  <2>4. \A e \in Desks \ {d} : desk[e].op # "createStore"
    BY <2>1 DEF LockFree, At, StoresKept
  <2>5. desk'[d] = row /\ \A e \in Desks \ {d} : desk'[e] = desk[e]
    BY <1>1, <2>3
  <2>6. \A e \in Desks : desk'[e].op # "updateStore" /\ (desk'[e].op = "createStore" => e = d)
    BY <2>2, <2>3, <2>4, <2>5
  <2>7. Cardinality(ActiveShops') <= row.used /\ StoresHold'
    BY <2>2, <2>3, ShopsFinite DEF StoresKept, StoresHold
  <2>8. QED
    BY <2>2, <2>5, <2>6, <2>7 DEF StoresKept
<1>6. ASSUME NEW d \in Desks, NEW s \in Shops, UpdateStore(d, s)
      PROVE  StoresKept'
  <2> DEFINE row == [op |-> "updateStore", store |-> s, was |-> shop[s], stage |-> "read"]
  <2>1. Sit(d, row) /\ shop[s] # "NONE"
    BY <1>6 DEF UpdateStore
  <2>2. row.op = "updateStore" /\ row.was = shop[s] /\ row.store = s
    OBVIOUS
  <2> HIDE DEF row
  <2>3. ActiveShops' = ActiveShops /\ desk' = [desk EXCEPT ![d] = row] /\ \A e \in Desks \ {d} : desk[e] = FreeDesk
    BY <1>3, <2>1, <2>2 DEF ActiveShops
  <2>4. desk'[d] = row /\ \A e \in Desks \ {d} : desk'[e] = FreeDesk
    BY <1>1, <2>3
  <2>5. row.was # "INACTIVE" => Cardinality(ActiveShops \union {row.store}) <= MaxStores
    <3>1. CASE shop[s] = "ACTIVE"
      <4>1. ActiveShops \union {s} = ActiveShops
        BY <3>1 DEF ActiveShops
      <4>2. QED
        BY <2>2, <4>1 DEF StoresKept, StoresHold
    <3>2. CASE shop[s] # "ACTIVE"
      BY <1>1, <2>1, <2>2, <3>2
    <3>3. QED
      BY <3>1, <3>2
  <2>6. StoresHold'
    BY <2>3 DEF StoresKept, StoresHold
  <2>7. QED
    BY <1>1, <2>2, <2>3, <2>4, <2>5, <2>6 DEF StoresKept
<1>7. ASSUME NEW d \in Desks,
             \/ \E a, p \in People, role \in Roles \ {"OWNER"} : Invite(d, a, p, role)
             \/ \E i \in DOMAIN letters : Accept(d, i)
             \/ \E a \in Acting, p \in People, change \in (Roles \ {"OWNER"}) \union {"ACTIVE", "INACTIVE"} :
                   UpdateMember(d, a, p, change)
      PROVE  StoresKept'
  <2>1. \E r : Sit(d, r) /\ r.op \notin {"createStore", "updateStore"}
    <3>1. \A a, s, p, m, t, u, o : [op |-> "invite", by |-> a, as |-> s, to |-> p, role |-> m, stage |-> t,
                                    used |-> u, old |-> o].op \notin {"createStore", "updateStore"}
      OBVIOUS
    <3>2. \A i, t, m, j, s : [op |-> "accept", letter |-> i, token |-> t, role |-> m, joined |-> j, stage |-> s].op
                                 \notin {"createStore", "updateStore"}
      OBVIOUS
    <3>3. \A a, p, n, s : [op |-> "update", by |-> a, to |-> p, change |-> n, stage |-> s].op \notin {"createStore", "updateStore"}
      OBVIOUS
    <3>4. \A a, p \in People, role \in Roles \ {"OWNER"} : Invite(d, a, p, role) =>
              \E r : Sit(d, r) /\ r.op \notin {"createStore", "updateStore"}
      BY <3>1 DEF Invite
    <3>5. \A i \in DOMAIN letters : Accept(d, i) => \E r : Sit(d, r) /\ r.op \notin {"createStore", "updateStore"}
      BY <3>2 DEF Accept
    <3>6. \A a \in Acting, p \in People, change \in (Roles \ {"OWNER"}) \union {"ACTIVE", "INACTIVE"} :
              UpdateMember(d, a, p, change) => \E r : Sit(d, r) /\ r.op \notin {"createStore", "updateStore"}
      BY <3>3 DEF UpdateMember
    <3>7. QED
      BY <1>7, <3>4, <3>5, <3>6
  <2>2. QED
    BY <1>4, <2>1
<1>8. ASSUME NEW d \in Desks, CountMembers(d)
      PROVE  StoresKept'
  <2>1. desk[d] \in InviteRow /\ desk[d] # FreeDesk /\ UNCHANGED shop
    BY <1>1, <1>8 DEF CountMembers, Turned, At, OfficeTyped, RowFits
  <2>2. \A e \in Desks \ {d} : desk[e].op # "updateStore"
    BY <2>1 DEF StoresKept
  <2>3. Leave(d) \/ \E r : desk' = [desk EXCEPT ![d] = r] /\ r.op \notin {"createStore", "updateStore"}
    <3>1. \A i : [desk[d] EXCEPT !.stage = "again", !.old = i].op = desk[d].op
      BY <2>1 DEF InviteRow
    <3>2. \A n : [desk[d] EXCEPT !.stage = "counted", !.used = n].op = desk[d].op
      BY <2>1 DEF InviteRow
    <3>3. desk[d].op = "invite"
      BY <1>8 DEF CountMembers, At
    <3>4. \/ Leave(d)
          \/ \E i : desk' = [desk EXCEPT ![d] = [desk[d] EXCEPT !.stage = "again", !.old = i]]
          \/ \E n : desk' = [desk EXCEPT ![d] = [desk[d] EXCEPT !.stage = "counted", !.used = n]]
      <4>1. CASE Turned(d)
        BY <4>1 DEF Turned
      <4>2. CASE PendingFor(desk[d].to) # {} /\ desk' = [desk EXCEPT ![d].stage = "again",
                                                          ![d].old = CHOOSE i \in PendingFor(desk[d].to) : TRUE]
        <5>1. PICK i \in PendingFor(desk[d].to) : desk' = [desk EXCEPT ![d] = [desk[d] EXCEPT !.stage = "again", !.old = i]]
          BY <1>1, <4>2
        <5>2. QED
          BY <5>1
      <4>3. CASE desk' = [desk EXCEPT ![d].stage = "counted", ![d].used = Cardinality(ActiveMembers)]
        BY <1>1, <4>3
      <4>4. QED
        BY <1>8, <4>1, <4>2, <4>3 DEF CountMembers
    <3>5. ASSUME NEW i, desk' = [desk EXCEPT ![d] = [desk[d] EXCEPT !.stage = "again", !.old = i]]
          PROVE  \E r : desk' = [desk EXCEPT ![d] = r] /\ r.op \notin {"createStore", "updateStore"}
      BY <3>1, <3>3, <3>5
    <3>6. ASSUME NEW n, desk' = [desk EXCEPT ![d] = [desk[d] EXCEPT !.stage = "counted", !.used = n]]
          PROVE  \E r : desk' = [desk EXCEPT ![d] = r] /\ r.op \notin {"createStore", "updateStore"}
      BY <3>2, <3>3, <3>6
    <3>7. QED
      BY <3>4, <3>5, <3>6
  <2>4. QED
    BY <1>2, <2>1, <2>2, <2>3, FewerStores
<1>9. ASSUME NEW d \in Desks, SendLetter(d) \/ SendAgain(d) \/ Join(d) \/ WriteMember(d)
      PROVE  StoresKept'
  BY <1>2, <1>9, FewerStores DEF SendLetter, SendAgain, Join, WriteMember, Turned
<1>10. ASSUME NEW d \in Desks, OpenStore(d)
       PROVE  StoresKept'
  <2>1. CASE Turned(d)
    BY <1>2, <2>1, FewerStores DEF Turned
  <2>2. CASE ~Turned(d)
    <3>1. PICK s \in Shops : s = desk[d].store
      BY <1>10 DEF OpenStore, At, OfficeTyped, RowFits
    <3>2. /\ desk[d].op = "createStore" /\ desk[d].used + 1 <= MaxStores /\ desk[d].used \in Nat
          /\ shop' = [shop EXCEPT ![s] = "ACTIVE"] /\ Leave(d)
      BY <1>10, <2>2, <3>1 DEF OpenStore, At, Place, OfficeTyped, RowFits
    <3>3. Cardinality(ActiveShops) <= desk[d].used /\ \A e \in Desks \ {d} : desk[e].op \notin {"createStore", "updateStore"}
      BY <1>1, <3>2 DEF StoresKept
    <3>4. Cardinality(ActiveShops \union {s}) <= MaxStores
      <4>1. ActiveShops \in SUBSET Shops /\ MaxStores \in Nat
        BY OfficeAssumption DEF ActiveShops
      <4>2. /\ Cardinality(ActiveShops \union {s}) <= Cardinality(ActiveShops) + 1
            /\ Cardinality(ActiveShops) \in Nat /\ Cardinality(ActiveShops \union {s}) \in Nat
        BY <4>1, OneShopMore
      <4>3. QED
        BY <3>2, <3>3, <4>1, <4>2
    <3>5. QED
      BY <3>2, <3>3, <3>4, StoreOpened
  <2>3. QED
    BY <2>1, <2>2
<1>11. ASSUME NEW d \in Desks, ActivateStore(d)
       PROVE  StoresKept'
  <2>1. CASE Turned(d)
    BY <1>2, <2>1, FewerStores DEF Turned
  <2>2. CASE ~Turned(d)
    <3>1. PICK s \in Shops : s = desk[d].store
      BY <1>11 DEF ActivateStore, At, OfficeTyped, RowFits
    <3>2. /\ desk[d].op = "updateStore" /\ shop' = [shop EXCEPT ![s] = "ACTIVE"] /\ Leave(d)
          /\ desk[d].was = "INACTIVE" => Cardinality(ActiveShops) + 1 <= MaxStores
      BY <1>11, <2>2, <3>1 DEF ActivateStore, At, Place
    <3>3. \A e \in Desks \ {d} : desk[e].op \notin {"createStore", "updateStore"}
      BY <1>1, <3>2 DEF StoresKept
    <3>4. Cardinality(ActiveShops \union {s}) <= MaxStores
      <4>1. ActiveShops \in SUBSET Shops /\ MaxStores \in Nat
        BY OfficeAssumption DEF ActiveShops
      <4>2. desk[d].was # "INACTIVE" => Cardinality(ActiveShops \union {s}) <= MaxStores
        BY <3>1, <3>2 DEF StoresKept
      <4>3. /\ Cardinality(ActiveShops \union {s}) <= Cardinality(ActiveShops) + 1
            /\ Cardinality(ActiveShops) \in Nat /\ Cardinality(ActiveShops \union {s}) \in Nat
        BY <4>1, OneShopMore
      <4>4. QED
        BY <3>2, <4>1, <4>2, <4>3
    <3>5. QED
      BY <3>2, <3>3, <3>4, StoreOpened
  <2>3. QED
    BY <2>1, <2>2
<1>12. ASSUME NEW d \in Desks, NEW s \in Shops, CreateClosed(d, s)
       PROVE  StoresKept'
  <2>1. ActiveShops' \subseteq ActiveShops
    BY <1>1, <1>12 DEF CreateClosed, ActiveShops
  <2>2. QED
    BY <1>12, <2>1, FewerStores DEF CreateClosed
<1>13. ASSUME NEW s \in Shops, DeactivateStore(s) \/ \E a \in Acting : SetPrimaryStore(a, s)
       PROVE  StoresKept'
  <2>1. ActiveShops' \subseteq ActiveShops
    BY <1>1, <1>13 DEF DeactivateStore, SetPrimaryStore, ActiveShops
  <2>2. QED
    BY <1>13, <2>1, FewerStores DEF DeactivateStore, SetPrimaryStore
<1>14. ASSUME NEW i \in DOMAIN letters, GoesLate(i) \/ Expire(i) \/ Revoke(i)
       PROVE  StoresKept'
  BY <1>2, <1>14, FewerStores DEF GoesLate, Expire, Revoke
<1>15. Vacant \subseteq Desks
  BY DEF Vacant
<1>16. QED
  BY <1>5, <1>6, <1>7, <1>8, <1>9, <1>10, <1>11, <1>12, <1>13, <1>14, <1>15 DEF OfficeNext

-----------------------------------------------------------------------------
(* The office: who joins and who rises.                                       *)

\* The recipients of a set of letters are not more than the letters.
LEMMA RecipientsCounted ==
    ASSUME NEW f, NEW S, IsFiniteSet(S)
    PROVE  /\ IsFiniteSet({f[i].to : i \in S}) /\ IsFiniteSet(S)
           /\ Cardinality({f[i].to : i \in S}) <= Cardinality(S)
<1> DEFINE T == {f[i].to : i \in S}
           g == [i \in S |-> f[i].to]
<1>1. g \in Surjection(S, T)
  BY DEF Surjection
<1>2. QED
  BY <1>1, FS_Surjection

LEMMA TwoSetsCounted ==
    ASSUME NEW S, NEW T, IsFiniteSet(S), IsFiniteSet(T)
    PROVE  Cardinality(S \union T) <= Cardinality(S) + Cardinality(T)
<1>1. Cardinality(S) \in Nat /\ Cardinality(T) \in Nat
  BY FS_CardinalityType
<1>2. Cardinality(S \union T) = Cardinality(S) + Cardinality(T) - Cardinality(S \cap T)
  BY FS_Union
<1>3. Cardinality(S \cap T) \in Nat
  BY FS_Intersection, FS_CardinalityType
<1>4. QED
  BY <1>1, <1>2, <1>3

\* Which steps write letters and members.
LEMMA WhoWrites ==
    ASSUME OfficeTyped, OfficeNext
    PROVE  /\ \/ UNCHANGED letters
              \/ \E d \in Desks : SendLetter(d) \/ SendAgain(d) \/ Join(d)
              \/ \E i \in DOMAIN letters : GoesLate(i) \/ Expire(i) \/ Revoke(i)
           /\ \/ UNCHANGED member
              \/ \E d \in Desks : Join(d) \/ WriteMember(d)
<1>1. ASSUME NEW d \in Vacant,
             \/ posted < MaxLetters /\ \E a, p \in People, role \in Roles \ {"OWNER"} : Invite(d, a, p, role)
             \/ \E i \in DOMAIN letters : Accept(d, i)
             \/ \E a \in Acting, p \in People, change \in (Roles \ {"OWNER"}) \union {"ACTIVE", "INACTIVE"} :
                   UpdateMember(d, a, p, change)
             \/ \E s \in Shops : CreateStore(d, s) \/ UpdateStore(d, s)
      PROVE  UNCHANGED <<letters, member>>
  <2>1. d \in Desks
    BY DEF Vacant
  <2>2. \E r : Sit(d, r)
    BY <1>1, <2>1, StartTyped
  <2>3. QED
    BY <2>2 DEF Sit
<1>2. ASSUME NEW d \in Desks, CountMembers(d) \/ OpenStore(d) \/ ActivateStore(d)
      PROVE  UNCHANGED <<letters, member>>
  BY <1>2 DEF CountMembers, Turned, OpenStore, ActivateStore
<1>3. ASSUME NEW d \in Desks, NEW s \in Shops, CreateClosed(d, s)
      PROVE  UNCHANGED <<letters, member>>
  BY <1>3 DEF CreateClosed
<1>4. ASSUME NEW s \in Shops, DeactivateStore(s) \/ \E a \in Acting : SetPrimaryStore(a, s)
      PROVE  UNCHANGED <<letters, member>>
  BY <1>4 DEF DeactivateStore, SetPrimaryStore
<1>5. \A d \in Desks : /\ SendLetter(d) \/ SendAgain(d) => UNCHANGED member
                       /\ WriteMember(d) => UNCHANGED letters
  BY DEF SendLetter, SendAgain, WriteMember
<1>6. \A i \in DOMAIN letters : GoesLate(i) \/ Expire(i) \/ Revoke(i) => UNCHANGED member
  BY DEF GoesLate, Expire, Revoke
<1>7. QED
  BY <1>1, <1>2, <1>3, <1>4, <1>5, <1>6 DEF OfficeNext

\* A request whose letter is the one that is added.
LEMMA AddedLetter ==
    ASSUME OfficeTyped, OfficeNext, NEW d \in Desks, Len(letters') > Len(letters), desk'[d] # desk[d]
    PROVE  SendLetter(d)
<1>1. DOMAIN letters' # DOMAIN letters
  <2>1. letters' \in Seq(LetterRow(posted'))
    BY OfficeStepTyped DEF OfficeTyped
  <2>2. DOMAIN letters' = 1..Len(letters') /\ Len(letters') \in Nat
    BY <2>1
  <2>3. DOMAIN letters = 1..Len(letters) /\ Len(letters) \in Nat
    BY LetterRows
  <2>4. Len(letters') \in DOMAIN letters' /\ Len(letters') \notin DOMAIN letters
    BY <2>2, <2>3
  <2>5. QED
    BY <2>4
<1>2. \A i \in DOMAIN letters : ~(GoesLate(i) \/ Expire(i) \/ Revoke(i))
  BY <1>1 DEF GoesLate, Expire, Revoke
<1>3. PICK e \in Desks : SendLetter(e) \/ SendAgain(e) \/ Join(e)
  BY <1>1, <1>2, WhoWrites
<1>4. ~SendAgain(e) /\ ~Join(e)
  BY <1>1 DEF SendAgain, Join, Turned
<1>5. desk' = [desk EXCEPT ![e] = FreeDesk]
  BY <1>3, <1>4 DEF SendLetter, Leave
<1>6. d = e
  BY <1>5 DEF OfficeTyped
<1>7. QED
  BY <1>3, <1>4, <1>6

LEMMA OneMoreFits ==
    ASSUME NEW a \in Nat, NEW used \in Nat, NEW seats \in Nat, NEW i \in Nat, NEW r \in Nat, NEW u \in Nat,
           a <= used, used + i + 1 <= seats, r <= i + 1, u <= a + r
    PROVE  u <= seats
  OBVIOUS

\* A new letter fits in the plan beside the members that were counted.
LEMMA LetterFits ==
    ASSUME OfficeTyped, OfficeNext, NEW d \in Desks, Len(letters') > Len(letters), desk'[d] # desk[d],
           Cardinality(ActiveMembers) <= desk[d].used
    PROVE  Cardinality(ActiveMembers \union {letters'[i].to : i \in Invited'}) <= day.seats
<1>1. SendLetter(d)
  BY AddedLetter
<1>2. PICK to \in People : to = desk[d].to
  BY <1>1 DEF SendLetter, At, OfficeTyped, RowFits, InviteRow
<1>3. desk[d].used \in Nat /\ day.seats \in Nat /\ Cardinality(ActiveMembers) \in Nat /\ IsFiniteSet(ActiveMembers)
  <2>1. desk[d].used \in Nat
    BY <1>1 DEF SendLetter, At, OfficeTyped, RowFits, InviteRow
  <2>2. QED
    BY <2>1, OfficeAssumption, ShopsFinite DEF OfficeTyped
<1>4. /\ DOMAIN Expired(to) = DOMAIN letters /\ Expired(to) \in Seq(LetterRow(posted)) /\ Len(Expired(to)) = Len(letters)
      /\ DOMAIN letters = 1..Len(letters) /\ Len(letters) \in Nat
      /\ \A i \in DOMAIN letters : /\ Expired(to)[i].late = letters[i].late
                                   /\ Expired(to)[i].status \in {letters[i].status, "EXPIRED"}
  BY ExpiredRows, LetterRows
<1>5. letters' # Expired(to)
  BY <1>4
<1>6. PICK row : letters' = Append(Expired(to), row)
  BY <1>1, <1>2, <1>5 DEF SendLetter
<1>7. desk[d].used + Cardinality(Invited) + 1 <= day.seats
  BY <1>1, <1>2, <1>5 DEF SendLetter, Place
<1>8. Invited' \subseteq Invited \union {Len(letters) + 1}
  <2>1. /\ \A i \in DOMAIN letters' : i \in DOMAIN letters \/ i = Len(letters) + 1
        /\ \A i \in DOMAIN letters : letters'[i] = Expired(to)[i]
    BY <1>4, <1>6
  <2>2. ASSUME NEW i \in Invited'
        PROVE  i \in Invited \/ i = Len(letters) + 1
    <3>1. i \in DOMAIN letters' /\ letters'[i].status = "PENDING" /\ ~letters'[i].late
      BY <2>2 DEF Invited, Waiting
    <3>2. QED
      BY <1>4, <2>1, <3>1 DEF Invited, Waiting
  <2>3. QED
    BY <2>2
<1>9. IsFiniteSet(Invited) /\ Cardinality(Invited) \in Nat
  <2>1. IsFiniteSet(1..Len(letters)) /\ Invited \subseteq 1..Len(letters)
    BY <1>4, FS_Interval DEF Invited
  <2>2. QED
    BY <2>1, FS_Subset, FS_CardinalityType
<1>10. /\ IsFiniteSet(Invited \union {Len(letters) + 1})
       /\ Cardinality(Invited \union {Len(letters) + 1}) <= Cardinality(Invited) + 1
  <2> DEFINE n == Len(letters) + 1
  <2>1. /\ IsFiniteSet(Invited \union {n})
        /\ Cardinality(Invited \union {n}) = IF n \in Invited THEN Cardinality(Invited) ELSE Cardinality(Invited) + 1
    <3> HIDE DEF n
    <3>1. QED
      BY <1>9, FS_AddElement
  <2>2. QED
    BY <1>9, <2>1
<1>11. /\ IsFiniteSet(Invited') /\ Cardinality(Invited') \in Nat
       /\ Cardinality(Invited') <= Cardinality(Invited) + 1
  <2>1. /\ IsFiniteSet(Invited')
        /\ Cardinality(Invited') <= Cardinality(Invited \union {Len(letters) + 1})
    BY <1>8, <1>10, FS_Subset
  <2>2. Cardinality(Invited') \in Nat /\ Cardinality(Invited \union {Len(letters) + 1}) \in Nat
    BY <1>10, <2>1, FS_CardinalityType
  <2>3. QED
    BY <1>9, <1>10, <2>1, <2>2
<1> DEFINE L == letters'
           S == Invited'
           R == {L[i].to : i \in S}
<1>12. IsFiniteSet(R) /\ Cardinality(R) \in Nat /\ Cardinality(R) <= Cardinality(Invited) + 1
  <2>1. IsFiniteSet(S) /\ Cardinality(S) \in Nat /\ Cardinality(S) <= Cardinality(Invited) + 1
    BY <1>11
  <2> HIDE DEF L, S
  <2>2. IsFiniteSet(R) /\ Cardinality(R) <= Cardinality(S)
    BY <2>1, RecipientsCounted
  <2>3. Cardinality(R) \in Nat
    BY <2>2, FS_CardinalityType
  <2>4. QED
    BY <1>9, <2>1, <2>2, <2>3
<1>13. Cardinality(ActiveMembers \union R) <= Cardinality(ActiveMembers) + Cardinality(R) /\ Cardinality(ActiveMembers \union R) \in Nat
  <2> HIDE DEF R
  <2>1. IsFiniteSet(ActiveMembers \union R)
    BY <1>3, <1>12, FS_Union
  <2>2. QED
    BY <1>3, <1>12, <2>1, TwoSetsCounted, FS_CardinalityType
<1>14. Cardinality(ActiveMembers \union R) <= day.seats
  <2> HIDE DEF R
  <2>1. Cardinality(ActiveMembers) <= desk[d].used
    OBVIOUS
  <2>2. QED
    BY <1>3, <1>7, <1>9, <1>12, <1>13, <2>1, OneMoreFits
<1>15. QED
  BY <1>14

\* Who was no member joins by a letter that could be accepted until then.
LEMMA JoinsByLetter ==
    ASSUME OfficeTyped, OfficeNext, NEW p \in People, member[p] = NoMember, member'[p] # NoMember
    PROVE  \E i \in DOMAIN letters :
               /\ letters[i].to = p /\ Waiting(i) /\ letters'[i].status = "ACCEPTED"
               /\ member'[p].role = letters[i].role
<1>1. PICK d \in Desks : Join(d) \/ WriteMember(d)
  <2>1. member' # member
    OBVIOUS
  <2>2. QED
    BY <2>1, WhoWrites
<1>2. member \in [People -> MemberRow] /\ NoMember.status = "NONE"
  BY LetterRows DEF NoMember
<1>3. ~WriteMember(d)
  <2>1. ASSUME WriteMember(d)
        PROVE  FALSE
    <3>1. desk[d].to \in People /\ member[desk[d].to].status # "NONE"
      BY <2>1 DEF WriteMember, At, OfficeTyped, RowFits
    <3>2. p # desk[d].to
      BY <1>2, <3>1
    <3>3. member'[p] = member[p]
      BY <1>2, <2>1, <3>2 DEF WriteMember
    <3>4. QED
      BY <3>3
  <2>2. QED
    BY <2>1
<1>4. Join(d) /\ member' # member
  BY <1>1, <1>3
<1>5. PICK i \in DOMAIN letters : i = desk[d].letter
  BY <1>4 DEF Join, At, OfficeTyped, RowFits
<1>6. /\ letters' = [letters EXCEPT ![i].status = "ACCEPTED"] /\ Waiting(i) /\ letters[i].token = desk[d].token
      /\ member' = [member EXCEPT ![letters[i].to] = [status |-> "ACTIVE", role |-> desk[d].role]]
  BY <1>4, <1>5 DEF Join, Turned, StillPending
<1>7. letters[i].role = desk[d].role
  BY <1>4, <1>5, <1>6 DEF Join, At, OfficeTyped, RowFits
<1>8. p = letters[i].to
  BY <1>2, <1>6
<1>9. member'[p].role = desk[d].role /\ letters'[i].status = "ACCEPTED"
  BY <1>2, <1>6, <1>8, LetterRows DEF LetterRow
<1>10. QED
  BY <1>6, <1>7, <1>8, <1>9

\* A membership is changed by somebody of a higher rank; the ranks were read
\* before, so that no other request may run beside it.
UpdatesKept ==
    \A d \in Desks : desk[d].op = "update" =>
        /\ \A e \in Desks \ {d} : desk[e] = FreeDesk
        /\ desk[d].by \in People /\ Outranks(member[desk[d].by].role, member[desk[d].to].role)
        /\ desk[d].change \in Roles => Outranks(member[desk[d].by].role, desk[d].change)

\* How the requests change: one ends, one starts alone or beside others that may,
\* or one goes on.
LEMMA HowDesksChange ==
    ASSUME OfficeTyped, OfficeNext
    PROVE  \/ UNCHANGED desk
           \/ \E d \in Desks : desk' = [desk EXCEPT ![d] = FreeDesk]
           \/ \E d \in Desks, a \in Acting, p \in People, change \in (Roles \ {"OWNER"}) \union {"ACTIVE", "INACTIVE"} :
                 UpdateMember(d, a, p, change)
           \/ \E d \in Desks : \E r : Sit(d, r) /\ r.op # "update"
           \/ \E d \in Desks : /\ desk[d].op = "invite" /\ UNCHANGED member
                               /\ \E r : desk' = [desk EXCEPT ![d] = r] /\ r.op = "invite"
<1>1. ASSUME NEW d \in Vacant,
             \/ \E a, p \in People, role \in Roles \ {"OWNER"} : Invite(d, a, p, role)
             \/ \E i \in DOMAIN letters : Accept(d, i)
             \/ \E s \in Shops : CreateStore(d, s) \/ UpdateStore(d, s)
      PROVE  d \in Desks /\ \E r : Sit(d, r) /\ r.op # "update"
  <2>1. \A a, s, p, m, t, u, o : [op |-> "invite", by |-> a, as |-> s, to |-> p, role |-> m, stage |-> t,
                                  used |-> u, old |-> o].op # "update"
    OBVIOUS
  <2>2. \A i, t, m, j, s : [op |-> "accept", letter |-> i, token |-> t, role |-> m, joined |-> j, stage |-> s].op # "update"
    OBVIOUS
  <2>3. /\ \A s, n, t : [op |-> "createStore", store |-> s, used |-> n, stage |-> t].op # "update"
        /\ \A s, w, t : [op |-> "updateStore", store |-> s, was |-> w, stage |-> t].op # "update"
    OBVIOUS
  <2>4. \A a, p \in People, role \in Roles \ {"OWNER"} : Invite(d, a, p, role) => \E r : Sit(d, r) /\ r.op # "update"
    BY <2>1 DEF Invite
  <2>5. \A i \in DOMAIN letters : Accept(d, i) => \E r : Sit(d, r) /\ r.op # "update"
    BY <2>2 DEF Accept
  <2>6. \A s \in Shops : CreateStore(d, s) \/ UpdateStore(d, s) => \E r : Sit(d, r) /\ r.op # "update"
    BY <2>3 DEF CreateStore, UpdateStore
  <2>7. QED
    BY <1>1, <2>4, <2>5, <2>6 DEF Vacant
<1>2. ASSUME NEW d \in Desks, CountMembers(d)
      PROVE  \/ desk' = [desk EXCEPT ![d] = FreeDesk]
             \/ desk[d].op = "invite" /\ UNCHANGED member /\ \E r : desk' = [desk EXCEPT ![d] = r] /\ r.op = "invite"
  <2>1. desk[d] \in InviteRow /\ desk[d].op = "invite" /\ UNCHANGED member /\ DOMAIN desk = Desks
    BY <1>2 DEF CountMembers, Turned, At, OfficeTyped, RowFits
  <2>2. \A i : [desk[d] EXCEPT !.stage = "again", !.old = i].op = "invite"
    BY <2>1 DEF InviteRow
  <2>3. \A n : [desk[d] EXCEPT !.stage = "counted", !.used = n].op = "invite"
    BY <2>1 DEF InviteRow
  <2>4. CASE Turned(d)
    BY <2>4 DEF Turned, Leave
  <2>5. CASE PendingFor(desk[d].to) # {} /\ desk' = [desk EXCEPT ![d].stage = "again",
                                                      ![d].old = CHOOSE i \in PendingFor(desk[d].to) : TRUE]
    <3>1. PICK i \in PendingFor(desk[d].to) : desk' = [desk EXCEPT ![d] = [desk[d] EXCEPT !.stage = "again", !.old = i]]
      BY <2>1, <2>5
    <3>2. QED
      BY <2>1, <2>2, <3>1
  <2>6. CASE desk' = [desk EXCEPT ![d].stage = "counted", ![d].used = Cardinality(ActiveMembers)]
    <3>1. desk' = [desk EXCEPT ![d] = [desk[d] EXCEPT !.stage = "counted", !.used = Cardinality(ActiveMembers)]]
      BY <2>1, <2>6
    <3>2. QED
      BY <2>1, <2>3, <3>1
  <2>7. QED
    BY <1>2, <2>4, <2>5, <2>6 DEF CountMembers
<1>3. ASSUME NEW d \in Desks, SendLetter(d) \/ SendAgain(d) \/ Join(d) \/ WriteMember(d) \/ OpenStore(d) \/ ActivateStore(d)
      PROVE  desk' = [desk EXCEPT ![d] = FreeDesk]
  BY <1>3 DEF SendLetter, SendAgain, Join, WriteMember, OpenStore, ActivateStore, Turned, Leave
<1>4. ASSUME \/ \E d \in Desks, s \in Shops : CreateClosed(d, s)
             \/ \E i \in DOMAIN letters : GoesLate(i) \/ Expire(i) \/ Revoke(i)
             \/ \E s \in Shops : DeactivateStore(s) \/ \E a \in Acting : SetPrimaryStore(a, s)
      PROVE  UNCHANGED desk
  BY <1>4 DEF CreateClosed, GoesLate, Expire, Revoke, DeactivateStore, SetPrimaryStore
<1>5. Vacant \subseteq Desks
  BY DEF Vacant
<1>6. QED
  BY <1>1, <1>2, <1>3, <1>4, <1>5 DEF OfficeNext

LEMMA UpdatesKeptStep ==
    ASSUME "update" \notin Aside, OfficeTyped, UpdatesKept, OfficeNext
    PROVE  UpdatesKept'
<1>1. DOMAIN desk = Desks /\ FreeDesk.op = "none"
  BY DEF OfficeTyped, FreeDesk
<1>2. CASE ~UNCHANGED member
  <2>1. PICK d \in Desks : Join(d) \/ WriteMember(d)
    BY <1>2, WhoWrites
  <2>2. desk[d] # FreeDesk /\ desk' = [desk EXCEPT ![d] = FreeDesk]
    BY <1>1, <2>1 DEF Join, WriteMember, Turned, Leave, At
  <2>3. \A e \in Desks : desk'[e].op # "update"
    BY <1>1, <2>2 DEF UpdatesKept
  <2>4. QED
    BY <2>3 DEF UpdatesKept
<1>3. CASE UNCHANGED member
  <2>1. CASE UNCHANGED desk
    BY <1>3, <2>1 DEF UpdatesKept
  <2>2. ASSUME NEW d \in Desks, desk' = [desk EXCEPT ![d] = FreeDesk]
        PROVE  UpdatesKept'
    BY <1>1, <1>3, <2>2 DEF UpdatesKept
  <2>3. ASSUME NEW d \in Desks, NEW a \in Acting, NEW p \in People,
               NEW change \in (Roles \ {"OWNER"}) \union {"ACTIVE", "INACTIVE"}, UpdateMember(d, a, p, change)
        PROVE  UpdatesKept'
    <3> DEFINE row == [op |-> "update", by |-> a, to |-> p, change |-> change, stage |-> "read"]
    <3>1. /\ Sit(d, row) /\ Outranks(member[a].role, member[p].role)
          /\ change \in Roles => Outranks(member[a].role, change)
      BY <2>3 DEF UpdateMember
    <3>2. row.op = "update" /\ row.by = a /\ row.to = p /\ row.change = change
      OBVIOUS
    <3> HIDE DEF row
    <3>3. desk' = [desk EXCEPT ![d] = row] /\ \A e \in Desks : desk[e] = FreeDesk
      BY <3>1, <3>2 DEF Sit
    <3>4. desk'[d] = row /\ \A e \in Desks \ {d} : desk'[e] = FreeDesk
      BY <1>1, <3>3
    <3>5. a \in People
      BY DEF Acting
    <3>6. QED
      BY <1>1, <1>3, <3>1, <3>2, <3>4, <3>5 DEF UpdatesKept
  <2>4. ASSUME NEW d \in Desks, NEW r, Sit(d, r), r.op # "update"
        PROVE  UpdatesKept'
    <3>1. \A e \in Desks : desk[e].op # "update"
      BY <1>1, <2>4 DEF Sit
    <3>2. \A e \in Desks : desk'[e].op # "update"
      BY <1>1, <2>4, <3>1 DEF Sit
    <3>3. QED
      BY <3>2 DEF UpdatesKept
  <2>5. ASSUME NEW d \in Desks, desk[d].op = "invite", NEW r, desk' = [desk EXCEPT ![d] = r], r.op = "invite"
        PROVE  UpdatesKept'
    <3>1. \A e \in Desks : desk[e].op # "update"
      BY <1>1, <2>5 DEF UpdatesKept
    <3>2. \A e \in Desks : desk'[e].op # "update"
      BY <1>1, <2>5, <3>1
    <3>3. QED
      BY <3>2 DEF UpdatesKept
  <2>6. QED
    BY <2>1, <2>2, <2>3, <2>4, <2>5, HowDesksChange
<1>4. QED
  BY <1>2, <1>3

\* Only the owner makes an administrator, or changes one.
LEMMA OwnerMakesAdmins ==
    ASSUME OfficeTyped, UpdatesKept, OfficeNext, NEW d \in Desks, desk'[d] = FreeDesk, desk[d].op = "update",
           NEW p, p = desk[d].to, "ADMIN" \in {member[p].role, member'[p].role}, member'[p] # member[p]
    PROVE  member[desk[d].by].role = "OWNER"
<1>1. FreeDesk.op = "none" /\ member \in [People -> MemberRow]
  BY LetterRows DEF FreeDesk
<1>2. PICK e \in Desks : Join(e) \/ WriteMember(e)
  <2>1. ~UNCHANGED member
    OBVIOUS
  <2>2. QED
    BY <2>1, WhoWrites
<1>3. e = d /\ WriteMember(d)
  BY <1>1, <1>2 DEF UpdatesKept, Join, WriteMember, At
<1>4. p \in People /\ desk[d].change \in (Roles \ {"OWNER"}) \union {"ACTIVE", "INACTIVE"}
  BY DEF OfficeTyped, RowFits
<1>5. \/ desk[d].change \in Roles /\ member'[p].role = desk[d].change
      \/ desk[d].change \notin Roles /\ member'[p].role = member[p].role
  BY <1>1, <1>3, <1>4 DEF WriteMember, MemberRow
<1>6. Outranks(member[desk[d].by].role, "ADMIN")
  BY <1>5 DEF UpdatesKept
<1>7. member[desk[d].by].role \in Roles
  BY <1>1 DEF UpdatesKept, MemberRow
<1>8. QED
  BY <1>6, <1>7 DEF Outranks, Rank, Roles

-----------------------------------------------------------------------------
(* The office: all of it.  An operation that reads a row before it takes any  *)
(* lock (updateStore(), and update() of a member, which takes none) keeps its *)
(* part of the promise as long as nothing runs beside it.                     *)

OfficeSound ==
    /\ OfficeTyped /\ LettersOne
    /\ "updateStore" \notin Aside => StoresKept
    /\ "update" \notin Aside => UpdatesKept

LEMMA InitOfficeSound ==
    ASSUME OfficeInit
    PROVE  OfficeSound
<1>1. \A d \in Desks : desk[d].op = "none"
  BY DEF OfficeInit, FreeDesk
<1>2. LettersOne
  <2>1. \A p : PendingFor(p) = {}
    BY DEF OfficeInit, PendingFor
  <2>2. QED
    BY <1>1, <2>1 DEF LettersOne, SeesLetters
<1>3. StoresKept
  <2>1. ActiveShops = {}
    BY DEF OfficeInit, ActiveShops
  <2>2. Cardinality(ActiveShops) = 0
    BY <2>1, FS_EmptySet
  <2>3. QED
    BY <1>1, <2>2, OfficeAssumption DEF StoresKept, StoresHold
<1>4. UpdatesKept
  BY <1>1 DEF UpdatesKept
<1>5. QED
  BY <1>2, <1>3, <1>4, InitOfficeTyped DEF OfficeSound

LEMMA NextOfficeSound ==
    ASSUME OfficeSound, OfficeNext \/ UNCHANGED officeVars
    PROVE  OfficeSound'
<1>1. CASE OfficeNext
  BY <1>1, OfficeStepTyped, LettersOneStep, StoresKeptStep, UpdatesKeptStep DEF OfficeSound
<1>2. CASE UNCHANGED officeVars
  <2>1. OfficeTyped'
    BY <1>2 DEF OfficeSound, officeVars, OfficeTyped, OfficeTypeOK, RowFits
  <2>2. LettersOne'
    BY <1>2 DEF OfficeSound, officeVars, LettersOne, SeesLetters, PendingFor, Waiting
  <2>3. StoresKept => StoresKept'
    BY <1>2 DEF officeVars, StoresKept, StoresHold, ActiveShops
  <2>4. UpdatesKept => UpdatesKept'
    BY <1>2 DEF officeVars, UpdatesKept, Outranks
  <2>5. QED
    BY <2>1, <2>2, <2>3, <2>4 DEF OfficeSound
<1>3. QED
  BY <1>1, <1>2

LEMMA OfficeIsSound == AccountsSpec => []OfficeSound
<1>1. AccountsInit => OfficeSound
  BY InitOfficeSound DEF AccountsInit
<1>2. OfficeSound /\ [AccountsNext]_accountsVars => OfficeSound'
  BY StepOfAccounts, NextOfficeSound
<1>3. QED
  BY <1>1, <1>2, PTL DEF AccountsSpec, accountsVars

\* A new letter fits in the plan with the members that were counted; who joins does
\* so by a letter that was still pending, with the role that it has; only the owner
\* makes an administrator.  The last is so as long as no update of a member runs
\* beside another request: it writes by the ranks that it read.
THEOREM MembersComeByTheBook ==
    ASSUME "update" \notin Aside
    PROVE  AccountsSpec => MembersByTheBook
<1>1. ASSUME OfficeSound, OfficeNext \/ UNCHANGED officeVars,
             NEW d \in Desks, Len(letters') > Len(letters), desk'[d] # desk[d],
             Cardinality(ActiveMembers) <= desk[d].used
      PROVE  Cardinality(ActiveMembers \union {letters'[i].to : i \in Invited'}) <= day.seats
  BY <1>1, LetterFits DEF OfficeSound, officeVars
<1>2. ASSUME OfficeSound, OfficeNext \/ UNCHANGED officeVars,
             NEW p \in People, member[p] = NoMember, member'[p] # NoMember
      PROVE  \E i \in DOMAIN letters :
                 /\ letters[i].to = p /\ Waiting(i) /\ letters'[i].status = "ACCEPTED"
                 /\ member'[p].role = letters[i].role
  BY <1>2, JoinsByLetter DEF OfficeSound, officeVars
<1>3. ASSUME OfficeSound, OfficeNext \/ UNCHANGED officeVars,
             NEW d \in Desks, desk'[d] = FreeDesk, At(d, {"update"}), NEW p, p = desk[d].to,
             "ADMIN" \in {member[p].role, member'[p].role}, member'[p] # member[p]
      PROVE  member[desk[d].by].role = "OWNER"
  BY <1>3, OwnerMakesAdmins DEF OfficeSound, officeVars, At
<1> DEFINE Fit == \A d \in Desks :
               Len(letters') > Len(letters) /\ desk'[d] # desk[d] /\ Cardinality(ActiveMembers) <= desk[d].used
                   => Cardinality(ActiveMembers \union {letters'[i].to : i \in Invited'}) <= day.seats
           Join1 == \A p \in People :
               member[p] = NoMember /\ member'[p] # NoMember =>
                   \E i \in DOMAIN letters :
                       /\ letters[i].to = p /\ Waiting(i) /\ letters'[i].status = "ACCEPTED"
                       /\ member'[p].role = letters[i].role
           Rise == \A d \in Desks : desk'[d] = FreeDesk /\ At(d, {"update"}) =>
               LET p == desk[d].to
               IN  "ADMIN" \in {member[p].role, member'[p].role} /\ member'[p] # member[p]
                       => member[desk[d].by].role = "OWNER"
<1>4. OfficeSound /\ [AccountsNext]_accountsVars => [Fit]_officeVars /\ [Join1]_officeVars /\ [Rise]_officeVars
  <2>1. SUFFICES ASSUME OfficeSound, OfficeNext \/ UNCHANGED officeVars
                 PROVE  Fit /\ Join1 /\ Rise
    BY StepOfAccounts
  <2>2. Fit
    BY <1>1, <2>1
  <2>3. Join1
    BY <1>2, <2>1
  <2>4. Rise
    BY <1>3, <2>1
  <2>5. QED
    BY <2>2, <2>3, <2>4
<1>5. AccountsSpec => [][Fit]_officeVars /\ [][Join1]_officeVars /\ [][Rise]_officeVars
  BY <1>4, OfficeIsSound, PTL DEF AccountsSpec, accountsVars
<1>6. QED
  BY <1>5 DEF MembersByTheBook, LettersFit, JoinedByLetter, AdminsByOwner
-----------------------------------------------------------------------------
(* The catalogue: types, and how far a request has come.                      *)

ShelfRow == [live : BOOLEAN, active : BOOLEAN, name : ProductNames, pictures : SUBSET Pictures,
             batch : 0..MaxEdits, sold : SUBSET VariantKeys, variants : SUBSET VariantKeys]

EditStages == {"place", "named", "variants", "pictures", "upload", "send", "sent", "remove", "removed", "write", "done"}
LockNames == {<<"products">>} \union ({"variants", "pictures"} \X (Products \union {"new"}))

EditRow == [stage : EditStages, kind : {"create", "update", "delete", "drop"}, product : Products,
            row : [name : ProductNames, active : BOOLEAN],
            asked : SUBSET {"active", "name", "pictures", "variants"}, seen : ShelfRow,
            keep : SUBSET Pictures, sell : SUBSET VariantKeys, file : BOOLEAN,
            fresh : Pictures \union {NoPicture}, gone : Pictures \union {NoPicture},
            drop : SUBSET Pictures, written : BOOLEAN, locks : SUBSET LockNames]

\* What a request has behind it at a stage.
CreateFits(e) ==
    e.kind = "create" =>
        /\ e.row.active /\ e.asked = {"active", "name"} /\ e.stage \notin {"remove", "removed"}
        /\ e.stage \in {"upload", "send", "sent", "done"} => e.written
        /\ e.stage # "place" => <<"products">> \in e.locks

StageFits(e) ==
    /\ e.kind = "delete" => e.stage \in {"write", "done"} /\ e.asked = {}
    /\ e.kind = "drop" => e.stage \in {"remove", "removed", "done"} /\ e.asked = {}
    /\ e.written => e.stage = "done" \/ (e.kind = "create" /\ e.stage \in {"upload", "send", "sent"})
    /\ e.stage = "done" => e.written
    /\ e.stage = "variants" => e.kind = "create" \/ "variants" \in e.asked
    /\ e.kind = "update" /\ e.stage \in {"pictures", "upload", "send", "sent", "remove", "removed"} => "pictures" \in e.asked
    /\ "variants" \in e.asked => "pictures" \notin e.asked
    /\ "variants" \in e.asked /\ e.stage \in {"write", "done"} => <<"variants", e.product>> \in e.locks

PicturesFit(e) ==
    /\ e.stage \in {"upload", "send", "sent"} => e.file
    /\ e.fresh # NoPicture => e.file
    /\ e.stage \in {"send", "sent"} => e.fresh \in Pictures
    /\ e.stage = "removed" => e.gone \in Pictures
    /\ (e.kind = "create" \/ "pictures" \in e.asked) /\ e.stage \notin {"place", "named", "variants", "pictures"} =>
          Cardinality(e.keep) + (IF e.file THEN 1 ELSE 0) <= MaxPictures
    /\ (e.kind = "create" \/ "variants" \in e.asked) /\ e.stage \notin {"place", "named", "variants"} =>
          Cardinality(e.sell) <= MaxVariants

RequestFits(e) == e \in EditRow /\ CreateFits(e) /\ StageFits(e) /\ PicturesFit(e)

\* What never changes in a request.
SameRequest(e, f) ==
    /\ f.kind = e.kind /\ f.product = e.product /\ f.row = e.row /\ f.asked = e.asked
    /\ f.keep = e.keep /\ f.sell = e.sell /\ f.file = e.file

\* How a request goes on.
Moved(e, stage) == [e EXCEPT !.stage = stage]
LockTaken(e, stage, lock) == [e EXCEPT !.stage = stage, !.locks = @ \union {lock}]
Seen(e, stage, lock, seen) == [e EXCEPT !.stage = stage, !.locks = @ \union {lock}, !.seen = seen]
Dropping(e, stage, lock, drop) == [e EXCEPT !.stage = stage, !.locks = @ \union {lock}, !.drop = drop]
Uploading(e, stage, a) == [e EXCEPT !.stage = stage, !.fresh = a]
Removing(e, stage, a) == [e EXCEPT !.stage = stage, !.gone = a]
Writing(e, stage) == [e EXCEPT !.written = TRUE, !.stage = stage]

LEMMA StageSet ==
    ASSUME NEW e \in EditRow, NEW stage \in EditStages,
           NEW f, f = Moved(e, stage)
    PROVE  /\ f \in EditRow /\ SameRequest(e, f) /\ f.stage = stage /\ f.seen = e.seen /\ f.fresh = e.fresh
           /\ f.gone = e.gone /\ f.drop = e.drop /\ f.written = e.written /\ f.locks = e.locks
  BY DEF Moved, EditRow, SameRequest

LEMMA LockSet ==
    ASSUME NEW e \in EditRow, NEW stage \in EditStages, NEW lock \in LockNames,
           NEW f, f = LockTaken(e, stage, lock)
    PROVE  /\ f \in EditRow /\ SameRequest(e, f) /\ f.stage = stage /\ f.seen = e.seen /\ f.fresh = e.fresh
           /\ f.gone = e.gone /\ f.drop = e.drop /\ f.written = e.written /\ f.locks = e.locks \union {lock}
  BY DEF LockTaken, EditRow, SameRequest

LEMMA SeenSet ==
    ASSUME NEW e \in EditRow, NEW stage \in EditStages, NEW lock \in LockNames, NEW seen \in ShelfRow,
           NEW f, f = Seen(e, stage, lock, seen)
    PROVE  /\ f \in EditRow /\ SameRequest(e, f) /\ f.stage = stage /\ f.seen = seen /\ f.fresh = e.fresh
           /\ f.gone = e.gone /\ f.drop = e.drop /\ f.written = e.written /\ f.locks = e.locks \union {lock}
  BY DEF Seen, EditRow, SameRequest

LEMMA DropSet ==
    ASSUME NEW e \in EditRow, NEW stage \in EditStages, NEW lock \in LockNames, NEW drop \in SUBSET Pictures,
           NEW f, f = Dropping(e, stage, lock, drop)
    PROVE  /\ f \in EditRow /\ SameRequest(e, f) /\ f.stage = stage /\ f.seen = e.seen /\ f.fresh = e.fresh
           /\ f.gone = e.gone /\ f.drop = drop /\ f.written = e.written /\ f.locks = e.locks \union {lock}
  BY DEF Dropping, EditRow, SameRequest

LEMMA FreshSet ==
    ASSUME NEW e \in EditRow, NEW stage \in EditStages, NEW a \in Pictures,
           NEW f, f = Uploading(e, stage, a)
    PROVE  /\ f \in EditRow /\ SameRequest(e, f) /\ f.stage = stage /\ f.seen = e.seen /\ f.fresh = a
           /\ f.gone = e.gone /\ f.drop = e.drop /\ f.written = e.written /\ f.locks = e.locks
  BY DEF Uploading, EditRow, SameRequest

LEMMA GoneSet ==
    ASSUME NEW e \in EditRow, NEW stage \in EditStages, NEW a \in Pictures,
           NEW f, f = Removing(e, stage, a)
    PROVE  /\ f \in EditRow /\ SameRequest(e, f) /\ f.stage = stage /\ f.seen = e.seen /\ f.fresh = e.fresh
           /\ f.gone = a /\ f.drop = e.drop /\ f.written = e.written /\ f.locks = e.locks
  BY DEF Removing, EditRow, SameRequest

LEMMA WrittenSet ==
    ASSUME NEW e \in EditRow, NEW stage \in EditStages,
           NEW f, f = Writing(e, stage)
    PROVE  /\ f \in EditRow /\ SameRequest(e, f) /\ f.stage = stage /\ f.seen = e.seen /\ f.fresh = e.fresh
           /\ f.gone = e.gone /\ f.drop = e.drop /\ f.written /\ f.locks = e.locks
  BY DEF Writing, EditRow, SameRequest

Busy == {r \in Clerks : ~InStage(r, "idle")}

\* Every picture of a product that changed took a request that has ended.
BatchesCounted == \A p \in Products : shelf[p].batch + Cardinality(Busy) <= edits

CatalogueTyped ==
    /\ CatalogueTypeOK /\ ProductNames # {}
    /\ DOMAIN edit = Clerks /\ \A r \in Clerks : edit[r] = Resting \/ RequestFits(edit[r])
    /\ BatchesCounted

LEMMA CatalogueRows ==
    ASSUME CatalogueTyped
    PROVE  /\ shelf \in [Products -> ShelfRow] /\ \A p \in Products : shelf[p] \in ShelfRow
           /\ asset \in [Pictures -> {"none", "UPLOADING", "ACTIVE", "FAILED", "DELETED"}]
           /\ bytes \in [Pictures -> 0..2]
           /\ \A r \in Busy : r \in Clerks /\ RequestFits(edit[r]) /\ edit[r] \in EditRow
           /\ \A r \in Clerks : r \notin Busy => edit[r] = Resting
           /\ Resting.stage = "idle"
<1>1. Resting.stage = "idle"
  BY DEF Resting
<1>2. /\ shelf \in [Products -> ShelfRow] /\ asset \in [Pictures -> {"none", "UPLOADING", "ACTIVE", "FAILED", "DELETED"}]
      /\ bytes \in [Pictures -> 0..2]
  BY DEF CatalogueTyped, CatalogueTypeOK, ShelfRow
<1>3. \A r \in Busy : r \in Clerks /\ RequestFits(edit[r])
  BY <1>1 DEF CatalogueTyped, Busy, InStage
<1>4. \A e : e \in EditRow => e.stage # "idle"
  BY DEF EditRow, EditStages
<1>5. \A r \in Clerks : r \notin Busy => edit[r] = Resting
  BY <1>4 DEF CatalogueTyped, Busy, InStage, RequestFits
<1>6. QED
  BY <1>1, <1>2, <1>3, <1>5 DEF RequestFits

LEMMA CatalogueBounds ==
    /\ MaxProducts \in Nat /\ MaxPictures \in Nat /\ MaxVariants \in Nat /\ MaxStorage \in Nat /\ MaxEdits \in Nat
    /\ 1 <= MaxProducts /\ 1 <= MaxPictures /\ 1 <= MaxVariants /\ 1 <= MaxStorage
    /\ NoPicture \notin Pictures
    /\ \A S \in SUBSET Pictures : IsFiniteSet(S) /\ Cardinality(S) \in Nat
    /\ \A S \in SUBSET Products : IsFiniteSet(S) /\ Cardinality(S) \in Nat
    /\ IsFiniteSet(Busy) /\ Cardinality(Busy) \in Nat
<1>1. \A S \in SUBSET Pictures : IsFiniteSet(S) /\ Cardinality(S) \in Nat
  BY CatalogueAssumption, FS_Subset, FS_CardinalityType
<1>2. \A S \in SUBSET Products : IsFiniteSet(S) /\ Cardinality(S) \in Nat
  BY CatalogueAssumption, FS_Subset, FS_CardinalityType
<1>3. Busy \in SUBSET Clerks
  BY DEF Busy
<1>4. IsFiniteSet(Busy) /\ Cardinality(Busy) \in Nat
  BY <1>3, CatalogueAssumption, FS_Subset, FS_CardinalityType
<1>5. QED
  BY <1>1, <1>2, <1>4, CatalogueAssumption

\* A request as it starts.
Begins(f) ==
    /\ RequestFits(f) /\ f.locks = {} /\ ~f.written /\ f.stage \in {"place", "named", "remove", "write"}
    /\ f.stage = "write" => "variants" \notin f.asked
    /\ f.kind = "create" => ~shelf[f.product].live /\ \A q \in Busy : edit[q].product # f.product
    /\ f.kind # "create" => shelf[f.product].live

\* A request goes on: it takes a lock that is free, it writes when no other has
\* written the same.
Goes(r, f) ==
    /\ r \in Busy /\ edit' = [edit EXCEPT ![r] = f] /\ UNCHANGED <<shelf, edits, revived>>
    /\ RequestFits(f) /\ SameRequest(edit[r], f)
    /\ \/ f.locks = edit[r].locks
       \/ \E lock \in LockNames : /\ f.locks = edit[r].locks \union {lock} /\ Free(r, lock)
                                  /\ lock = <<"products">> => Cardinality(OnSale(shelf)) < MaxProducts
    /\ \/ f.written = edit[r].written
       \/ /\ ~Waits(r)
          /\ edit[r].kind # "create" => shelf[edit[r].product].live
          /\ edit[r].kind \in {"create", "update"} => ~NameClash(r)
    /\ f.stage = "write" /\ "variants" \in f.asked => f.seen = shelf[f.product]

Ends(r) == r \in Busy /\ edit' = [edit EXCEPT ![r] = Resting] /\ UNCHANGED edits

LEMMA RequestRow ==
    ASSUME CatalogueTyped, NEW p \in Products, NEW kind \in {"create", "update", "delete", "drop"},
           NEW stage \in EditStages, NEW row \in [name : ProductNames, active : BOOLEAN],
           NEW asked \in SUBSET {"active", "name", "pictures", "variants"},
           NEW f, f = Request(p, kind, stage, row, asked)
    PROVE  /\ f \in EditRow /\ f.stage = stage /\ f.kind = kind /\ f.product = p
           /\ f.row = row /\ f.asked = asked /\ f.keep = {} /\ f.sell = {}
           /\ ~f.file /\ f.fresh = NoPicture /\ ~f.written /\ f.locks = {}
<1>1. shelf[p] \in ShelfRow
  BY CatalogueRows
<1>2. QED
  BY <1>1 DEF Request, EditRow

-----------------------------------------------------------------------------
(* The catalogue: what every request can rely on.                             *)

LocksAlone == \A r, q \in Busy : r # q => edit[r].locks \cap edit[q].locks = {}

\* Who has written has the row, the name and the product that it found.
WritersAlone == \A r, q \in Busy : r # q /\ Written(r) /\ Written(q) =>
    edit[r].product # edit[q].product /\ edit[r].row.name # edit[q].row.name

WritesLive == \A r \in Busy : Written(r) =>
    /\ edit[r].kind # "create" => shelf[edit[r].product].live
    /\ edit[r].kind \in {"create", "update"} => ~Taken(r)

CreatesAlone == \A r \in Busy : edit[r].kind = "create" =>
    ~shelf[edit[r].product].live /\ \A q \in Busy \ {r} : edit[q].product # edit[r].product

ShelfTidy == \A p \in Products :
    /\ shelf[p].sold \subseteq shelf[p].variants
    /\ ~shelf[p].live => ~shelf[p].active /\ shelf[p].pictures = {} /\ shelf[p].sold = {}

PlaceHeld == \A r \in Busy : <<"products">> \in edit[r].locks => Cardinality(OnSale(shelf) \ revived) + 1 <= MaxProducts

\* The picture of an upload is the request's own; one that is being removed is gone.
UploadsAlone ==
    /\ \A r \in Busy : edit[r].stage \in {"send", "sent"} => asset[edit[r].fresh] = "UPLOADING"
    /\ \A r, q \in Busy : edit[r].stage \in {"send", "sent"} /\ edit[q].stage \in {"send", "sent"}
                          /\ edit[r].fresh = edit[q].fresh => r = q

RemovalsDone == \A r \in Busy : edit[r].stage = "removed" =>
    edit[r].gone \notin stored /\ asset[edit[r].gone] \in {"ACTIVE", "DELETED"}

\* A picture on its way has the size that was reserved for it.
Weighed == \A a \in Pictures : asset[a] = "UPLOADING" => bytes[a] = 1

CatalogueKept ==
    /\ LocksAlone /\ WritersAlone /\ WritesLive /\ CreatesAlone /\ ShelfTidy /\ PlaceHeld
    /\ UploadsAlone /\ RemovalsDone /\ Weighed /\ ShelvesHold

-----------------------------------------------------------------------------
(* The catalogue: the requests in flight.                                     *)

LEMMA OneStarts ==
    ASSUME CatalogueTyped, NEW r \in Clerks, InStage(r, "idle"), NEW f, f.stage # "idle", edit' = [edit EXCEPT ![r] = f]
    PROVE  /\ Busy' = Busy \union {r} /\ r \notin Busy /\ Cardinality(Busy') = Cardinality(Busy) + 1
           /\ DOMAIN edit' = Clerks /\ edit'[r] = f /\ \A q \in Clerks \ {r} : edit'[q] = edit[q]
<1>1. DOMAIN edit' = Clerks /\ edit'[r] = f /\ \A q \in Clerks \ {r} : edit'[q] = edit[q]
  BY DEF CatalogueTyped
<1>2. Busy' = Busy \union {r} /\ r \notin Busy
  BY <1>1 DEF Busy, InStage
<1>3. Cardinality(Busy \union {r}) = Cardinality(Busy) + 1
  BY <1>2, CatalogueBounds, FS_AddElement
<1>4. QED
  BY <1>1, <1>2, <1>3

LEMMA OneGoes ==
    ASSUME CatalogueTyped, NEW r \in Busy, NEW f, f.stage # "idle", edit' = [edit EXCEPT ![r] = f]
    PROVE  /\ Busy' = Busy
           /\ DOMAIN edit' = Clerks /\ edit'[r] = f /\ \A q \in Clerks \ {r} : edit'[q] = edit[q]
<1>1. r \in Clerks /\ DOMAIN edit' = Clerks /\ edit'[r] = f /\ \A q \in Clerks \ {r} : edit'[q] = edit[q]
  BY DEF CatalogueTyped, Busy
<1>2. Busy' = Busy
  BY <1>1 DEF Busy, InStage
<1>3. QED
  BY <1>1, <1>2

LEMMA OneEnds ==
    ASSUME CatalogueTyped, NEW r \in Busy, edit' = [edit EXCEPT ![r] = Resting]
    PROVE  /\ Busy' = Busy \ {r} /\ r \notin Busy' /\ Cardinality(Busy') + 1 = Cardinality(Busy) /\ Cardinality(Busy') \in Nat
           /\ DOMAIN edit' = Clerks /\ edit'[r] = Resting /\ \A q \in Clerks \ {r} : edit'[q] = edit[q]
<1>1. r \in Clerks /\ DOMAIN edit' = Clerks /\ edit'[r] = Resting /\ \A q \in Clerks \ {r} : edit'[q] = edit[q]
  BY DEF CatalogueTyped, Busy
<1>2. Busy' = Busy \ {r}
  BY <1>1, CatalogueRows DEF Busy, InStage
<1>3. IsFiniteSet(Busy \ {r}) /\ Cardinality(Busy \ {r}) = Cardinality(Busy) - 1
  BY CatalogueBounds, FS_RemoveElement
<1>4. Cardinality(Busy \ {r}) \in Nat
  BY <1>3, FS_CardinalityType
<1>5. QED
  BY <1>1, <1>2, <1>3, <1>4, CatalogueBounds

\* The rows of the requests after a step.
LEMMA RowsAfter ==
    ASSUME CatalogueTyped, NEW r \in Clerks, NEW f, f = Resting \/ RequestFits(f),
           DOMAIN edit' = Clerks, edit'[r] = f, \A q \in Clerks \ {r} : edit'[q] = edit[q]
    PROVE  DOMAIN edit' = Clerks /\ \A q \in Clerks : edit'[q] = Resting \/ RequestFits(edit'[q])
<1>1. ASSUME NEW q \in Clerks
      PROVE  edit'[q] = Resting \/ RequestFits(edit'[q])
  <2>1. CASE q = r
    BY <2>1
  <2>2. CASE q # r
    <3>1. edit[q] = Resting \/ RequestFits(edit[q])
      BY DEF CatalogueTyped
    <3>2. QED
      BY <2>2, <3>1
  <2>3. QED
    BY <2>1, <2>2
<1>2. QED
  BY <1>1

LEMMA StartsTyped ==
    ASSUME CatalogueTyped, NEW r \in Clerks, NEW f, Start(r, f), Begins(f)
    PROVE  CatalogueTyped'
<1>1. /\ InStage(r, "idle") /\ edits < MaxEdits /\ edits' = edits + 1 /\ edit' = [edit EXCEPT ![r] = f]
      /\ UNCHANGED <<shelf, asset, bytes, stored, revived>>
  BY DEF Start
<1>2. RequestFits(f) /\ f.stage # "idle"
  BY DEF Begins
<1>3. /\ Cardinality(Busy') = Cardinality(Busy) + 1
      /\ DOMAIN edit' = Clerks /\ edit'[r] = f /\ \A q \in Clerks \ {r} : edit'[q] = edit[q]
  BY <1>1, <1>2, OneStarts
<1>4. DOMAIN edit' = Clerks /\ \A q \in Clerks : edit'[q] = Resting \/ RequestFits(edit'[q])
  BY <1>2, <1>3, RowsAfter
<1>5. BatchesCounted'
  <2>1. ASSUME NEW p \in Products
        PROVE  shelf[p].batch + Cardinality(Busy') <= edits + 1
    <3>1. shelf[p].batch \in Nat /\ edits \in Nat /\ shelf[p].batch + Cardinality(Busy) <= edits
      BY CatalogueRows, CatalogueBounds DEF CatalogueTyped, CatalogueTypeOK, BatchesCounted, ShelfRow
    <3>2. QED
      BY <1>3, <3>1, CatalogueBounds
  <2>2. QED
    BY <1>1, <2>1 DEF BatchesCounted
<1>6. edits' \in 0..MaxEdits
  BY <1>1, CatalogueBounds DEF CatalogueTyped, CatalogueTypeOK
<1>7. CatalogueTypeOK'
  BY <1>1, <1>6 DEF CatalogueTyped, CatalogueTypeOK
<1>8. QED
  BY <1>4, <1>5, <1>7 DEF CatalogueTyped, RequestFits, CreateFits, StageFits, PicturesFit

LEMMA GoesTyped ==
    ASSUME CatalogueTyped, NEW r \in Clerks, NEW f, Goes(r, f),
           asset' \in [Pictures -> {"none", "UPLOADING", "ACTIVE", "FAILED", "DELETED"}], stored' \subseteq Pictures,
           bytes' \in [Pictures -> 0..2]
    PROVE  CatalogueTyped'
<1>1. r \in Busy /\ edit' = [edit EXCEPT ![r] = f] /\ UNCHANGED <<shelf, edits, revived>> /\ RequestFits(f)
  BY DEF Goes
<1>2. f.stage # "idle"
  BY <1>1 DEF RequestFits, EditRow, EditStages
<1>3. Busy' = Busy /\ DOMAIN edit' = Clerks /\ edit'[r] = f /\ \A q \in Clerks \ {r} : edit'[q] = edit[q]
  BY <1>1, <1>2, OneGoes
<1>4. DOMAIN edit' = Clerks /\ \A q \in Clerks : edit'[q] = Resting \/ RequestFits(edit'[q])
  BY <1>1, <1>3, RowsAfter
<1>5. BatchesCounted'
  BY <1>1, <1>3 DEF CatalogueTyped, BatchesCounted
<1>6. CatalogueTypeOK'
  BY <1>1 DEF CatalogueTyped, CatalogueTypeOK
<1>7. QED
  BY <1>4, <1>5, <1>6 DEF CatalogueTyped

LEMMA EndsTyped ==
    ASSUME CatalogueTyped, NEW r \in Clerks, Ends(r), bytes' = bytes, stored' = stored, revived' \subseteq Products,
           asset' \in [Pictures -> {"none", "UPLOADING", "ACTIVE", "FAILED", "DELETED"}],
           \/ shelf' = shelf
           \/ \E p \in Products : \E row \in ShelfRow :
                 shelf' = [shelf EXCEPT ![p] = row] /\ row.batch <= shelf[p].batch + 1
    PROVE  CatalogueTyped'
<1>1. r \in Busy /\ edit' = [edit EXCEPT ![r] = Resting] /\ UNCHANGED edits
  BY DEF Ends
<1>2. /\ Cardinality(Busy') + 1 = Cardinality(Busy) /\ Cardinality(Busy') \in Nat
      /\ DOMAIN edit' = Clerks /\ edit'[r] = Resting /\ \A q \in Clerks \ {r} : edit'[q] = edit[q]
  BY <1>1, OneEnds
<1>3. DOMAIN edit' = Clerks /\ \A q \in Clerks : edit'[q] = Resting \/ RequestFits(edit'[q])
  BY <1>2, RowsAfter
<1>4. shelf \in [Products -> ShelfRow]
  BY CatalogueRows
<1>5. shelf' \in [Products -> ShelfRow] /\ \A p \in Products : shelf'[p].batch <= shelf[p].batch + 1
  <2>1. CASE shelf' = shelf
    BY <1>4, <2>1, CatalogueBounds DEF ShelfRow
  <2>2. ASSUME NEW p \in Products, NEW row \in ShelfRow,
               shelf' = [shelf EXCEPT ![p] = row] /\ row.batch <= shelf[p].batch + 1
        PROVE  shelf' \in [Products -> ShelfRow] /\ \A q \in Products : shelf'[q].batch <= shelf[q].batch + 1
    <3>1. shelf' \in [Products -> ShelfRow] /\ \A q \in Products : shelf'[q] = IF q = p THEN row ELSE shelf[q]
      BY <1>4, <2>2
    <3>2. \A q \in Products : shelf[q].batch \in Nat
      BY <1>4, CatalogueBounds DEF ShelfRow
    <3>3. QED
      BY <2>2, <3>1, <3>2
  <2>3. QED
    BY <2>1, <2>2
<1>6. BatchesCounted'
  <2>1. ASSUME NEW p \in Products
        PROVE  shelf'[p].batch + Cardinality(Busy') <= edits
    <3>1. shelf[p].batch \in Nat /\ shelf'[p].batch \in Nat /\ edits \in Nat /\ shelf[p].batch + Cardinality(Busy) <= edits
      BY <1>4, <1>5, CatalogueBounds DEF CatalogueTyped, CatalogueTypeOK, BatchesCounted, ShelfRow
    <3>2. shelf'[p].batch <= shelf[p].batch + 1
      BY <1>5
    <3>3. QED
      BY <1>2, <3>1, <3>2, CatalogueBounds
  <2>2. QED
    BY <1>1, <2>1 DEF BatchesCounted
<1>7. CatalogueTypeOK'
  BY <1>1, <1>5 DEF CatalogueTyped, CatalogueTypeOK, ShelfRow
<1>8. QED
  BY <1>3, <1>6, <1>7 DEF CatalogueTyped

\* A request as the client sends it.
LEMMA RequestBegins ==
    ASSUME CatalogueTyped, NEW p \in Products, shelf[p].live, NEW kind \in {"update", "delete", "drop"},
           NEW stage \in {"place", "named", "remove", "write"}, NEW row \in [name : ProductNames, active : BOOLEAN],
           NEW asked \in SUBSET {"active", "name", "pictures", "variants"},
           kind = "update" => stage \in {"place", "named"} /\ ("variants" \in asked => "pictures" \notin asked),
           kind = "delete" => stage = "write" /\ asked = {},
           kind = "drop" => stage = "remove" /\ asked = {},
           NEW f \in EditRow, f.stage = stage, f.kind = kind, f.product = p, f.row = row, f.asked = asked,
           f.fresh = NoPicture, ~f.written, f.locks = {}
    PROVE  Begins(f)
<1>1. CreateFits(f)
  BY DEF CreateFits
<1>2. StageFits(f)
  BY DEF StageFits
<1>3. PicturesFit(f)
  BY CatalogueBounds DEF PicturesFit
<1>4. QED
  BY <1>1, <1>2, <1>3 DEF Begins, RequestFits

LEMMA CreateBegins ==
    ASSUME CatalogueTyped, NEW r \in Clerks, StartCreate(r)
    PROVE  \E f : Start(r, f) /\ Begins(f)
<1>1. PICK p \in Products, n \in ProductNames, file \in BOOLEAN, sell \in SUBSET VariantKeys \ {{}} :
        /\ ~shelf[p].live /\ \A q \in Clerks : ~InStage(q, "idle") => edit[q].product # p
        /\ Start(r, [Request(p, "create", "place", [name |-> n, active |-> TRUE], {"active", "name"})
                       EXCEPT !.file = file, !.sell = sell])
  BY DEF StartCreate
<1>2. PICK row : row = [name |-> n, active |-> TRUE]
  OBVIOUS
<1>3. row \in [name : ProductNames, active : BOOLEAN] /\ row.active /\ sell \in SUBSET VariantKeys /\ file \in BOOLEAN
  BY <1>2
<1>10. PICK asked : asked = {"active", "name"}
  OBVIOUS
<1>11. PICK e : e = Request(p, "create", "place", row, asked)
  OBVIOUS
<1>12. asked \in SUBSET {"active", "name", "pictures", "variants"} /\ "place" \in EditStages
  BY <1>10 DEF EditStages
<1>13. /\ e \in EditRow /\ e.stage = "place" /\ e.kind = "create" /\ e.product = p /\ e.row = row
       /\ e.asked = asked /\ e.fresh = NoPicture /\ ~e.written /\ e.locks = {}
  BY <1>3, <1>11, <1>12, RequestRow
<1> DEFINE f == [e EXCEPT !.file = file, !.sell = sell]
<1>4. Start(r, f)
  BY <1>1, <1>2, <1>10, <1>11
<1>5. /\ f \in EditRow /\ f.stage = "place" /\ f.kind = "create" /\ f.product = p /\ f.row.active
      /\ f.asked = {"active", "name"} /\ f.fresh = NoPicture /\ ~f.written /\ f.locks = {}
  <2>1. f \in EditRow
    BY <1>2, <1>13 DEF EditRow
  <2>2. f.stage = e.stage /\ f.kind = e.kind /\ f.product = e.product /\ f.row = e.row
    BY <1>13 DEF EditRow
  <2>3. f.asked = e.asked /\ f.fresh = e.fresh /\ f.written = e.written /\ f.locks = e.locks
    BY <1>13 DEF EditRow
  <2>4. QED
    BY <1>3, <1>10, <1>13, <2>1, <2>2, <2>3
<1> HIDE DEF f
<1>6. CreateFits(f) /\ StageFits(f)
  BY <1>5 DEF CreateFits, StageFits
<1>7. PicturesFit(f)
  BY <1>5, CatalogueBounds DEF PicturesFit
<1>8. Begins(f)
  BY <1>1, <1>5, <1>6, <1>7 DEF Begins, RequestFits, Busy
<1>9. QED
  BY <1>4, <1>8

LEMMA UpdateBegins ==
    ASSUME CatalogueTyped, NEW r \in Clerks, StartUpdate(r)
    PROVE  \E f : Start(r, f) /\ Begins(f)
<1>1. PICK p \in Products : shelf[p].live /\
        \/ Start(r, Request(p, "update", "named", [name |-> shelf[p].name, active |-> shelf[p].active], {}))
        \/ \E n \in ProductNames :
              Start(r, Request(p, "update", "named", [name |-> n, active |-> shelf[p].active], {"name"}))
        \/ \E active \in BOOLEAN :
              Start(r, Request(p, "update", IF active /\ ~shelf[p].active THEN "place" ELSE "named",
                               [name |-> shelf[p].name, active |-> active], {"active"}))
        \/ \E keep \in SUBSET shelf[p].pictures, file \in BOOLEAN :
              Start(r, [Request(p, "update", "named", [name |-> shelf[p].name, active |-> shelf[p].active], {"pictures"})
                          EXCEPT !.keep = keep, !.file = file])
        \/ \E sell \in SUBSET VariantKeys \ {{}} :
              Start(r, [Request(p, "update", "named", [name |-> shelf[p].name, active |-> shelf[p].active], {"variants"})
                          EXCEPT !.sell = sell])
  BY DEF StartUpdate
<1>2. shelf[p] \in ShelfRow /\ shelf[p].name \in ProductNames /\ shelf[p].active \in BOOLEAN /\ shelf[p].pictures \subseteq Pictures
  BY CatalogueRows DEF ShelfRow
<1>3. ASSUME NEW n \in ProductNames, NEW active \in BOOLEAN, NEW stage, stage \in {"place", "named"},
             NEW asked \in SUBSET {"active", "name", "pictures", "variants"}, "variants" \in asked => "pictures" \notin asked,
             NEW e, e = Request(p, "update", stage, [name |-> n, active |-> active], asked),
             NEW f, f = e \/ (\E keep \in SUBSET Pictures, file \in BOOLEAN : f = [e EXCEPT !.keep = keep, !.file = file])
                          \/ (\E sell \in SUBSET VariantKeys : f = [e EXCEPT !.sell = sell])
      PROVE  Begins(f)
  <2>1. PICK row : row = [name |-> n, active |-> active]
    OBVIOUS
  <2>2. /\ e \in EditRow /\ e.stage = stage /\ e.kind = "update" /\ e.product = p /\ e.row = row
        /\ e.asked = asked /\ e.fresh = NoPicture /\ ~e.written /\ e.locks = {} /\ row \in [name : ProductNames, active : BOOLEAN]
    <3>1. row \in [name : ProductNames, active : BOOLEAN] /\ stage \in EditStages /\ "update" \in {"create", "update", "delete", "drop"}
      BY <1>3, <2>1 DEF EditStages
    <3>2. e = Request(p, "update", stage, row, asked)
      BY <1>3, <2>1
    <3>3. QED
      BY <3>1, <3>2, RequestRow
  <2> DEFINE Sent == /\ f \in EditRow /\ f.stage = stage /\ f.kind = "update" /\ f.product = p /\ f.row = row
                     /\ f.asked = asked /\ f.fresh = NoPicture /\ ~f.written /\ f.locks = {}
  <2>3. Sent
    <3>1. CASE f = e
      BY <2>2, <3>1
    <3>2. ASSUME NEW keep \in SUBSET Pictures, NEW file \in BOOLEAN, f = [e EXCEPT !.keep = keep, !.file = file]
          PROVE  Sent
      BY <2>2, <3>2 DEF EditRow
    <3>3. ASSUME NEW sell \in SUBSET VariantKeys, f = [e EXCEPT !.sell = sell]
          PROVE  Sent
      BY <2>2, <3>3 DEF EditRow
    <3>4. QED
      BY <1>3, <3>1, <3>2, <3>3
  <2>4. QED
    <3>1. shelf[p].live
      BY <1>1
    <3>2. stage \in {"place", "named", "remove", "write"} /\ stage \in {"place", "named"} /\ ("variants" \in asked => "pictures" \notin asked)
      BY <1>3
    <3>3. row \in [name : ProductNames, active : BOOLEAN]
      BY <2>2
    <3>4. QED
      BY <2>3, <3>1, <3>2, <3>3, RequestBegins
<1>4. CASE Start(r, Request(p, "update", "named", [name |-> shelf[p].name, active |-> shelf[p].active], {}))
  <2>1. PICK e : e = Request(p, "update", "named", [name |-> shelf[p].name, active |-> shelf[p].active], {})
    OBVIOUS
  <2>2. Begins(e)
    BY <1>2, <1>3, <2>1
  <2>3. QED
    BY <1>4, <2>1, <2>2
<1>5. ASSUME NEW n \in ProductNames,
             Start(r, Request(p, "update", "named", [name |-> n, active |-> shelf[p].active], {"name"}))
      PROVE  \E f : Start(r, f) /\ Begins(f)
  <2>1. PICK e : e = Request(p, "update", "named", [name |-> n, active |-> shelf[p].active], {"name"})
    OBVIOUS
  <2>2. Begins(e)
    BY <1>2, <1>3, <2>1
  <2>3. QED
    BY <1>5, <2>1, <2>2
<1>6. ASSUME NEW active \in BOOLEAN,
             Start(r, Request(p, "update", IF active /\ ~shelf[p].active THEN "place" ELSE "named",
                              [name |-> shelf[p].name, active |-> active], {"active"}))
      PROVE  \E f : Start(r, f) /\ Begins(f)
  <2>1. PICK stage : stage = IF active /\ ~shelf[p].active THEN "place" ELSE "named"
    OBVIOUS
  <2>2. stage \in {"place", "named"}
    BY <2>1
  <2>3. PICK e : e = Request(p, "update", stage, [name |-> shelf[p].name, active |-> active], {"active"})
    OBVIOUS
  <2>4. Begins(e)
    BY <1>2, <1>3, <2>2, <2>3
  <2>5. QED
    BY <1>6, <2>1, <2>3, <2>4
<1>7. ASSUME NEW keep \in SUBSET shelf[p].pictures, NEW file \in BOOLEAN,
             Start(r, [Request(p, "update", "named", [name |-> shelf[p].name, active |-> shelf[p].active], {"pictures"})
                         EXCEPT !.keep = keep, !.file = file])
      PROVE  \E f : Start(r, f) /\ Begins(f)
  <2>1. keep \in SUBSET Pictures
    BY <1>2
  <2>2. PICK e : e = Request(p, "update", "named", [name |-> shelf[p].name, active |-> shelf[p].active], {"pictures"})
    OBVIOUS
  <2>3. Begins([e EXCEPT !.keep = keep, !.file = file])
    BY <1>2, <1>3, <2>1, <2>2
  <2>4. QED
    BY <1>7, <2>2, <2>3
<1>8. ASSUME NEW sell \in SUBSET VariantKeys \ {{}},
             Start(r, [Request(p, "update", "named", [name |-> shelf[p].name, active |-> shelf[p].active], {"variants"})
                         EXCEPT !.sell = sell])
      PROVE  \E f : Start(r, f) /\ Begins(f)
  <2>1. PICK e : e = Request(p, "update", "named", [name |-> shelf[p].name, active |-> shelf[p].active], {"variants"})
    OBVIOUS
  <2>2. Begins([e EXCEPT !.sell = sell])
    BY <1>2, <1>3, <2>1
  <2>3. QED
    BY <1>8, <2>1, <2>2
<1>9. QED
  BY <1>1, <1>4, <1>5, <1>6, <1>7, <1>8

LEMMA DeleteBegins ==
    ASSUME CatalogueTyped, ShelfTidy, NEW r \in Clerks, StartDelete(r) \/ StartDrop(r)
    PROVE  \E f : Start(r, f) /\ Begins(f)
<1>1. ASSUME NEW p \in Products, NEW active, active \in BOOLEAN
      PROVE  [name |-> shelf[p].name, active |-> active] \in [name : ProductNames, active : BOOLEAN]
  BY <1>1, CatalogueRows DEF ShelfRow
<1>2. CASE StartDelete(r)
  <2>1. PICK p \in Products :
          shelf[p].live /\ Start(r, Request(p, "delete", "write", [name |-> shelf[p].name, active |-> FALSE], {}))
    BY <1>2 DEF StartDelete
  <2>2. PICK row : row = [name |-> shelf[p].name, active |-> FALSE]
    OBVIOUS
  <2>3. PICK f : f = Request(p, "delete", "write", row, {})
    OBVIOUS
  <2>4. row \in [name : ProductNames, active : BOOLEAN] /\ "write" \in EditStages
    BY <1>1, <2>2 DEF EditStages
  <2>5. /\ f \in EditRow /\ f.stage = "write" /\ f.kind = "delete" /\ f.product = p /\ f.row = row
        /\ f.asked = {} /\ f.fresh = NoPicture /\ ~f.written /\ f.locks = {}
    BY <2>3, <2>4, RequestRow
  <2>6. Begins(f)
    BY <2>1, <2>4, <2>5, RequestBegins
  <2>7. QED
    BY <2>1, <2>2, <2>3, <2>6
<1>3. CASE StartDrop(r)
  <2>1. PICK p \in Products : \E a \in shelf[p].pictures :
          Start(r, [Request(p, "drop", "remove", [name |-> shelf[p].name, active |-> shelf[p].active], {})
                      EXCEPT !.drop = {a}])
    BY <1>3 DEF StartDrop
  <2>2. PICK a \in shelf[p].pictures :
          Start(r, [Request(p, "drop", "remove", [name |-> shelf[p].name, active |-> shelf[p].active], {})
                      EXCEPT !.drop = {a}])
    BY <2>1
  <2>3. shelf[p].live /\ shelf[p].active \in BOOLEAN /\ a \in Pictures
    BY CatalogueRows DEF ShelfTidy, ShelfRow
  <2>4. PICK row : row = [name |-> shelf[p].name, active |-> shelf[p].active]
    OBVIOUS
  <2>5. PICK e : e = Request(p, "drop", "remove", row, {})
    OBVIOUS
  <2>6. row \in [name : ProductNames, active : BOOLEAN] /\ "remove" \in EditStages
    BY <1>1, <2>3, <2>4 DEF EditStages
  <2>7. /\ e \in EditRow /\ e.stage = "remove" /\ e.kind = "drop" /\ e.product = p /\ e.row = row
        /\ e.asked = {} /\ e.fresh = NoPicture /\ ~e.written /\ e.locks = {}
    BY <2>5, <2>6, RequestRow
  <2>8. PICK f : f = [e EXCEPT !.drop = {a}]
    OBVIOUS
  <2>9. /\ f \in EditRow /\ f.stage = "remove" /\ f.kind = "drop" /\ f.product = p /\ f.row = row
        /\ f.asked = {} /\ f.fresh = NoPicture /\ ~f.written /\ f.locks = {}
    BY <2>3, <2>7, <2>8 DEF EditRow
  <2>10. Begins(f)
    BY <2>3, <2>6, <2>9, RequestBegins
  <2>11. QED
    BY <2>2, <2>4, <2>5, <2>8, <2>10
<1>4. QED
  BY <1>2, <1>3

-----------------------------------------------------------------------------
(* The catalogue: a request goes on.                                          *)

\* A lock that is free, one more stage behind.
LEMMA PlaceTaken ==
    ASSUME CatalogueTyped, NEW r \in Clerks, TakePlace(r)
    PROVE  (TurnedDown(r) /\ UNCHANGED asset) \/ \E f : Goes(r, f) /\ UNCHANGED <<asset, bytes, stored>> /\ f.stage = "named"
<1>1. SUFFICES ASSUME ~(TurnedDown(r) /\ UNCHANGED asset)
               PROVE  \E f : Goes(r, f) /\ UNCHANGED <<asset, bytes, stored>> /\ f.stage = "named"
  OBVIOUS
<1>2. /\ InStage(r, "place") /\ Free(r, <<"products">>) /\ Cardinality(OnSale(shelf)) < MaxProducts
      /\ edit' = [edit EXCEPT ![r].stage = "named", ![r].locks = @ \union {<<"products">>}]
      /\ UNCHANGED <<shelf, asset, bytes, stored, edits, revived>>
  BY <1>1 DEF TakePlace, PlaceFree
<1>3. r \in Busy /\ RequestFits(edit[r]) /\ edit[r] \in EditRow
  BY <1>2, CatalogueRows DEF Busy, InStage
<1>4. PICK e : e = edit[r]
  OBVIOUS
<1>12. PICK lock : lock = <<"products">>
  OBVIOUS
<1>5. PICK f : f = LockTaken(e, "named", lock)
  OBVIOUS
<1>6. edit' = [edit EXCEPT ![r] = f]
  BY <1>2, <1>4, <1>5, <1>12 DEF CatalogueTyped, LockTaken
<1>7. e \in EditRow /\ "named" \in EditStages /\ lock \in LockNames
  BY <1>3, <1>4, <1>12 DEF EditStages, LockNames
<1>8. /\ f \in EditRow /\ SameRequest(e, f) /\ f.stage = "named" /\ f.seen = e.seen /\ f.fresh = e.fresh
      /\ f.gone = e.gone /\ f.drop = e.drop /\ f.written = e.written /\ f.locks = e.locks \union {lock}
  BY <1>5, <1>7, LockSet
<1>9. RequestFits(f)
  <2>1. RequestFits(e) /\ e.stage = "place"
    BY <1>2, <1>3, <1>4 DEF InStage
  <2>2. CreateFits(f)
    BY <1>8, <1>12, <2>1 DEF RequestFits, CreateFits, SameRequest
  <2>3. StageFits(f)
    BY <1>8, <2>1 DEF RequestFits, StageFits, SameRequest
  <2>4. PicturesFit(f)
    BY <1>8, <2>1 DEF RequestFits, PicturesFit, SameRequest
  <2>5. QED
    BY <1>8, <2>2, <2>3, <2>4 DEF RequestFits
<1>10. Goes(r, f)
  BY <1>2, <1>3, <1>4, <1>6, <1>7, <1>8, <1>9, <1>12 DEF Goes
<1>11. QED
  BY <1>2, <1>8, <1>10

\* A request that is at a stage.
LEMMA RequestAt ==
    ASSUME CatalogueTyped, NEW r \in Clerks, NEW e, e = edit[r], e.stage # "idle"
    PROVE  r \in Busy /\ RequestFits(e) /\ e \in EditRow /\ e.product \in Products /\ shelf[e.product] \in ShelfRow
<1>1. r \in Busy
  BY DEF Busy, InStage
<1>2. RequestFits(e) /\ e \in EditRow
  BY <1>1, CatalogueRows
<1>3. e.product \in Products
  BY <1>2 DEF EditRow
<1>4. QED
  BY <1>1, <1>2, <1>3, CatalogueRows

LEMMA NameChecked ==
    ASSUME CatalogueTyped, NEW r \in Clerks, CheckName(r)
    PROVE  \/ TurnedDown(r) /\ UNCHANGED asset
           \/ \E f : Goes(r, f) /\ UNCHANGED <<asset, bytes, stored>> /\ f.stage \in {"variants", "pictures", "write"}
<1>1. SUFFICES ASSUME ~(TurnedDown(r) /\ UNCHANGED asset)
               PROVE  \E f : Goes(r, f) /\ UNCHANGED <<asset, bytes, stored>> /\ f.stage \in {"variants", "pictures", "write"}
  OBVIOUS
<1>2. PICK e : e = edit[r]
  OBVIOUS
<1>3. PICK stage : stage = IF e.kind = "create" \/ "variants" \in e.asked THEN "variants"
                          ELSE IF "pictures" \in e.asked THEN "pictures" ELSE "write"
  OBVIOUS
<1>4. e.stage = "named" /\ MoveTo(r, stage) /\ UNCHANGED <<shelf, asset, bytes, stored, edits, revived>>
  BY <1>1, <1>2, <1>3 DEF CheckName, InStage
<1>5. r \in Busy /\ RequestFits(e) /\ e \in EditRow
  BY <1>2, <1>4, RequestAt
<1>6. PICK f : f = Moved(e, stage)
  OBVIOUS
<1>7. edit' = [edit EXCEPT ![r] = f]
  BY <1>2, <1>4, <1>6 DEF CatalogueTyped, MoveTo, Moved
<1>8. stage \in {"variants", "pictures", "write"} /\ stage \in EditStages
  BY <1>3 DEF EditStages
<1>9. /\ f \in EditRow /\ SameRequest(e, f) /\ f.stage = stage /\ f.seen = e.seen /\ f.fresh = e.fresh
      /\ f.gone = e.gone /\ f.drop = e.drop /\ f.written = e.written /\ f.locks = e.locks
  BY <1>5, <1>6, <1>8, StageSet
<1>10. RequestFits(f)
  <2>1. CreateFits(f)
    BY <1>3, <1>4, <1>5, <1>9 DEF RequestFits, CreateFits, SameRequest
  <2>2. StageFits(f)
    BY <1>3, <1>4, <1>5, <1>9 DEF RequestFits, StageFits, SameRequest
  <2>3. PicturesFit(f)
    BY <1>3, <1>4, <1>5, <1>9 DEF RequestFits, PicturesFit, SameRequest
  <2>4. QED
    BY <1>9, <2>1, <2>2, <2>3 DEF RequestFits
<1>11. "variants" \in f.asked => f.stage # "write"
  BY <1>3, <1>9 DEF SameRequest
<1>12. Goes(r, f)
  BY <1>2, <1>4, <1>5, <1>7, <1>9, <1>10, <1>11 DEF Goes
<1>13. QED
  BY <1>4, <1>8, <1>9, <1>12

\* The lock of a request on its product.
LEMMA LockOfProduct ==
    ASSUME CatalogueTyped, NEW r \in Busy, NEW kind \in {"variants", "pictures"}
    PROVE  /\ LockOf(r, kind) \in LockNames /\ LockOf(r, kind) # <<"products">>
           /\ edit[r].kind # "create" => LockOf(r, kind) = <<kind, edit[r].product>>
<1>1. edit[r].product \in Products
  BY CatalogueRows DEF EditRow
<1>2. PICK x \in Products \union {"new"} : LockOf(r, kind) = <<kind, x>> /\ (edit[r].kind # "create" => x = edit[r].product)
  BY <1>1 DEF LockOf
<1>3. QED
  BY <1>2 DEF LockNames

LEMMA VariantsTaken ==
    ASSUME CatalogueTyped, NEW r \in Clerks, TakeVariants(r)
    PROVE  \/ TurnedDown(r) /\ UNCHANGED asset
           \/ \E f : Goes(r, f) /\ UNCHANGED <<asset, bytes, stored>> /\ f.stage \in {"pictures", "write"}
<1>1. SUFFICES ASSUME ~(TurnedDown(r) /\ UNCHANGED asset)
               PROVE  \E f : Goes(r, f) /\ UNCHANGED <<asset, bytes, stored>> /\ f.stage \in {"pictures", "write"}
  OBVIOUS
<1>2. PICK e : e = edit[r]
  OBVIOUS
<1>3. PICK stage : stage = IF e.kind = "create" THEN "pictures" ELSE "write"
  OBVIOUS
<1>4. PICK lock : lock = LockOf(r, "variants")
  OBVIOUS
<1>5. /\ e.stage = "variants" /\ Free(r, lock) /\ Cardinality(e.sell) <= MaxVariants
      /\ UNCHANGED <<shelf, asset, bytes, stored, edits, revived>>
  BY <1>1, <1>2, <1>4 DEF TakeVariants, InStage
<1>6. r \in Busy /\ RequestFits(e) /\ e \in EditRow /\ shelf[e.product] \in ShelfRow
  BY <1>2, <1>5, RequestAt
<1>7. lock \in LockNames /\ lock # <<"products">> /\ (e.kind # "create" => lock = <<"variants", e.product>>)
  BY <1>2, <1>4, <1>6, LockOfProduct
<1>8. PICK f : f = Seen(e, stage, lock, shelf[e.product])
  OBVIOUS
<1>9. edit' = [edit EXCEPT ![r] = f]
  <2>1. edit' = [edit EXCEPT ![r].stage = stage, ![r].locks = @ \union {lock}, ![r].seen = shelf[e.product]]
    BY <1>1, <1>2, <1>3, <1>4 DEF TakeVariants
  <2>2. QED
    BY <1>2, <1>8, <2>1 DEF CatalogueTyped, Seen
<1>10. stage \in {"pictures", "write"} /\ stage \in EditStages
  BY <1>3 DEF EditStages
<1>11. /\ f \in EditRow /\ SameRequest(e, f) /\ f.stage = stage /\ f.seen = shelf[e.product] /\ f.fresh = e.fresh
       /\ f.gone = e.gone /\ f.drop = e.drop /\ f.written = e.written /\ f.locks = e.locks \union {lock}
  BY <1>6, <1>7, <1>8, <1>10, SeenSet
<1>12. RequestFits(f)
  <2>1. CreateFits(f)
    BY <1>3, <1>5, <1>6, <1>11 DEF RequestFits, CreateFits, SameRequest
  <2>2. StageFits(f)
    <3>1. e.kind \notin {"delete", "drop"} /\ e.kind \in {"create", "update", "delete", "drop"} /\ ~e.written
      BY <1>5, <1>6 DEF RequestFits, StageFits, EditRow
    <3>2. e.kind = "create" => e.asked = {"active", "name"}
      BY <1>6 DEF RequestFits, CreateFits
    <3>3. QED
      BY <1>3, <1>5, <1>6, <1>7, <1>11, <3>1, <3>2 DEF RequestFits, StageFits, SameRequest
  <2>3. PicturesFit(f)
    <3>1. e.kind = "update" => "pictures" \notin e.asked
      BY <1>5, <1>6 DEF RequestFits, StageFits
    <3>2. e.kind \in {"create", "update"}
      BY <1>5, <1>6 DEF RequestFits, StageFits, EditRow
    <3>3. QED
      BY <1>3, <1>5, <1>6, <1>11, <3>1, <3>2 DEF RequestFits, PicturesFit, SameRequest
  <2>4. QED
    BY <1>11, <2>1, <2>2, <2>3 DEF RequestFits
<1>13. f.seen = shelf[f.product]
  BY <1>11 DEF SameRequest
<1>14. Goes(r, f)
  BY <1>2, <1>5, <1>6, <1>7, <1>9, <1>11, <1>12, <1>13 DEF Goes
<1>15. QED
  BY <1>5, <1>10, <1>11, <1>14

LEMMA AlbumTaken ==
    ASSUME CatalogueTyped, NEW r \in Clerks, TakeAlbum(r)
    PROVE  \/ TurnedDown(r) /\ UNCHANGED asset
           \/ \E f : Goes(r, f) /\ UNCHANGED <<asset, bytes, stored>> /\ f.stage \in {"upload", "remove", "write"}
<1>1. SUFFICES ASSUME ~(TurnedDown(r) /\ UNCHANGED asset)
               PROVE  \E f : Goes(r, f) /\ UNCHANGED <<asset, bytes, stored>> /\ f.stage \in {"upload", "remove", "write"}
  OBVIOUS
<1>2. PICK e : e = edit[r]
  OBVIOUS
<1>3. PICK stage : stage = IF e.kind = "update" /\ e.file THEN "upload" ELSE IF e.kind = "update" THEN "remove" ELSE "write"
  OBVIOUS
<1>4. PICK lock : lock = LockOf(r, "pictures")
  OBVIOUS
<1>5. PICK drop : drop = IF e.kind = "create" THEN {} ELSE shelf[e.product].pictures \ e.keep
  OBVIOUS
<1>6. /\ e.stage = "pictures" /\ Free(r, lock) /\ Cardinality(e.keep) + (IF e.file THEN 1 ELSE 0) <= MaxPictures
      /\ UNCHANGED <<shelf, asset, bytes, stored, edits, revived>>
  BY <1>1, <1>2, <1>4 DEF TakeAlbum, InStage, FitsAlbum, Wanted, WantedNew
<1>7. r \in Busy /\ RequestFits(e) /\ e \in EditRow /\ shelf[e.product] \in ShelfRow
  BY <1>2, <1>6, RequestAt
<1>8. lock \in LockNames /\ lock # <<"products">>
  BY <1>4, <1>7, LockOfProduct
<1>9. PICK f : f = Dropping(e, stage, lock, drop)
  OBVIOUS
<1>10. edit' = [edit EXCEPT ![r] = f]
  <2>1. edit' = [edit EXCEPT ![r].stage = stage, ![r].locks = @ \union {lock}, ![r].drop = drop]
    BY <1>1, <1>2, <1>3, <1>4, <1>5 DEF TakeAlbum
  <2>2. QED
    BY <1>2, <1>9, <2>1 DEF CatalogueTyped, Dropping
<1>11. stage \in {"upload", "remove", "write"} /\ stage \in EditStages /\ drop \in SUBSET Pictures
  BY <1>3, <1>5, <1>7 DEF EditStages, ShelfRow
<1>12. /\ f \in EditRow /\ SameRequest(e, f) /\ f.stage = stage /\ f.seen = e.seen /\ f.fresh = e.fresh
       /\ f.gone = e.gone /\ f.drop = drop /\ f.written = e.written /\ f.locks = e.locks \union {lock}
  BY <1>7, <1>8, <1>9, <1>11, DropSet
<1>13. e.kind \in {"create", "update"} /\ ~e.written /\ (e.kind = "update" => "pictures" \in e.asked /\ "variants" \notin e.asked)
  BY <1>6, <1>7 DEF RequestFits, StageFits, EditRow
<1>14. RequestFits(f)
  <2>1. CreateFits(f)
    BY <1>3, <1>6, <1>7, <1>12 DEF RequestFits, CreateFits, SameRequest
  <2>2. StageFits(f)
    BY <1>3, <1>6, <1>7, <1>12, <1>13 DEF RequestFits, CreateFits, StageFits, SameRequest
  <2>3. PicturesFit(f)
    BY <1>3, <1>6, <1>7, <1>12, <1>13 DEF RequestFits, PicturesFit, SameRequest
  <2>4. QED
    BY <1>12, <2>1, <2>2, <2>3 DEF RequestFits
<1>15. "variants" \in f.asked => f.stage # "write"
  BY <1>3, <1>7, <1>12, <1>13 DEF SameRequest, RequestFits, CreateFits
<1>16. Goes(r, f)
  BY <1>2, <1>6, <1>7, <1>8, <1>10, <1>12, <1>14, <1>15 DEF Goes
<1>17. QED
  BY <1>6, <1>11, <1>12, <1>16

\* The stages of an upload and of a removal.
LEMMA StorageStage ==
    ASSUME CatalogueTyped, NEW r \in Busy, NEW e, e = edit[r], NEW f \in EditRow, SameRequest(e, f),
           f.written = e.written, f.locks = e.locks, edit' = [edit EXCEPT ![r] = f], UNCHANGED <<shelf, edits, revived>>,
           \/ e.stage = "upload" /\ f.stage = "send" /\ f.fresh \in Pictures
           \/ e.stage = "send" /\ f.stage = "sent" /\ f.fresh = e.fresh
           \/ e.stage = "sent" /\ f.stage = (IF e.kind = "create" THEN "done" ELSE "remove") /\ f.fresh = e.fresh
           \/ e.stage = "remove" /\ f.stage = "removed" /\ f.gone \in Pictures /\ f.fresh = e.fresh
           \/ e.stage = "removed" /\ f.stage = "remove" /\ f.fresh = e.fresh
    PROVE  Goes(r, f)
<1>1. RequestFits(e) /\ e \in EditRow
  BY CatalogueRows
<1>2. CreateFits(f)
  BY <1>1 DEF RequestFits, CreateFits, SameRequest
<1>3. StageFits(f)
  <2>1. e.kind = "create" /\ e.stage \in {"upload", "send", "sent"} => e.written
    BY <1>1 DEF RequestFits, CreateFits
  <2>2. e.kind \in {"create", "update", "delete", "drop"}
    BY <1>1 DEF EditRow
  <2>3. StageFits(e) /\ e.stage \notin {"done", "write", "variants"}
    BY <1>1 DEF RequestFits
  <2>4. CASE e.stage = "upload" /\ f.stage = "send"
    BY <2>1, <2>2, <2>3, <2>4 DEF StageFits, SameRequest
  <2>5. CASE e.stage = "send" /\ f.stage = "sent"
    BY <2>1, <2>2, <2>3, <2>5 DEF StageFits, SameRequest
  <2>6. CASE e.stage = "sent" /\ f.stage = (IF e.kind = "create" THEN "done" ELSE "remove")
    <3>1. e.kind = "create" => e.asked = {"active", "name"} /\ e.written
      BY <1>1, <2>1, <2>6 DEF RequestFits, CreateFits
    <3>2. QED
      BY <2>2, <2>3, <2>6, <3>1 DEF StageFits, SameRequest
  <2>7. CASE e.stage = "remove" /\ f.stage = "removed"
    BY <2>1, <2>2, <2>3, <2>7 DEF StageFits, SameRequest
  <2>8. CASE e.stage = "removed" /\ f.stage = "remove"
    BY <2>1, <2>2, <2>3, <2>8 DEF StageFits, SameRequest
  <2>9. QED
    BY <2>4, <2>5, <2>6, <2>7, <2>8
<1>4. PicturesFit(f)
  BY <1>1 DEF RequestFits, PicturesFit, SameRequest
<1>5. RequestFits(f)
  BY <1>2, <1>3, <1>4 DEF RequestFits
<1>6. QED
  BY <1>5 DEF Goes

LEMMA Reserved ==
    ASSUME CatalogueTyped, NEW r \in Clerks, Reserve(r)
    PROVE  \/ TurnedDown(r) /\ UNCHANGED asset
           \/ \E f : /\ Goes(r, f) /\ f.stage = "send" /\ f.fresh \in Unseen
                     /\ Used < MaxStorage /\ asset' = [asset EXCEPT ![f.fresh] = "UPLOADING"]
                     /\ bytes' = [bytes EXCEPT ![f.fresh] = 1] /\ UNCHANGED stored
<1>1. SUFFICES ASSUME ~(TurnedDown(r) /\ UNCHANGED asset)
               PROVE  \E f : /\ Goes(r, f) /\ f.stage = "send" /\ f.fresh \in Unseen
                             /\ Used < MaxStorage /\ asset' = [asset EXCEPT ![f.fresh] = "UPLOADING"]
                             /\ bytes' = [bytes EXCEPT ![f.fresh] = 1] /\ UNCHANGED stored
  OBVIOUS
<1>2. PICK e : e = edit[r]
  OBVIOUS
<1>3. PICK a : a = CHOOSE b \in Unseen : TRUE
  OBVIOUS
<1>4. /\ e.stage = "upload" /\ Used < MaxStorage /\ Unseen # {}
      /\ asset' = [asset EXCEPT ![a] = "UPLOADING"] /\ bytes' = [bytes EXCEPT ![a] = 1]
      /\ edit' = [edit EXCEPT ![r].stage = "send", ![r].fresh = a]
      /\ UNCHANGED <<shelf, stored, edits, revived>>
  BY <1>1, <1>2, <1>3 DEF Reserve, InStage
<1>5. a \in Unseen /\ a \in Pictures
  BY <1>3, <1>4 DEF Unseen
<1>6. r \in Busy /\ e \in EditRow
  BY <1>2, <1>4, RequestAt
<1>7. PICK f : f = Uploading(e, "send", a)
  OBVIOUS
<1>8. edit' = [edit EXCEPT ![r] = f]
  BY <1>2, <1>4, <1>7 DEF CatalogueTyped, Uploading
<1>9. "send" \in EditStages
  BY DEF EditStages
<1>10. /\ f \in EditRow /\ SameRequest(e, f) /\ f.stage = "send" /\ f.fresh = a
       /\ f.written = e.written /\ f.locks = e.locks
  BY <1>5, <1>6, <1>7, <1>9, FreshSet
<1>11. Goes(r, f)
  BY <1>2, <1>4, <1>5, <1>6, <1>8, <1>10, StorageStage
<1>12. QED
  BY <1>4, <1>5, <1>10, <1>11

\* Another stage, the rest as it was.
LEMMA StageGoes ==
    ASSUME CatalogueTyped, NEW r \in Busy, NEW e, e = edit[r], NEW stage, MoveTo(r, stage),
           UNCHANGED <<shelf, edits, revived>>,
           \/ e.stage = "send" /\ stage = "sent"
           \/ e.stage = "sent" /\ stage = (IF e.kind = "create" THEN "done" ELSE "remove")
           \/ e.stage = "removed" /\ stage = "remove"
    PROVE  \E f : Goes(r, f) /\ f.stage = stage /\ f.fresh = e.fresh /\ f.gone = e.gone
<1>1. e \in EditRow
  BY CatalogueRows
<1>2. PICK f : f = Moved(e, stage)
  OBVIOUS
<1>3. edit' = [edit EXCEPT ![r] = f]
  BY <1>2 DEF CatalogueTyped, MoveTo, Moved, Busy
<1>4. stage \in EditStages
  BY DEF EditStages
<1>5. /\ f \in EditRow /\ SameRequest(e, f) /\ f.stage = stage /\ f.fresh = e.fresh /\ f.gone = e.gone
      /\ f.written = e.written /\ f.locks = e.locks
  BY <1>1, <1>2, <1>4, StageSet
<1>6. Goes(r, f)
  BY <1>3, <1>5, StorageStage
<1>7. QED
  BY <1>5, <1>6

Sized(a) == \E size \in 0..2 : bytes' = [bytes EXCEPT ![a] = size]

LEMMA SentOrActive ==
    ASSUME CatalogueTyped, NEW r \in Clerks, Send(r) \/ Activate(r) \/ Forget(r)
    PROVE  \E f : /\ Goes(r, f) /\ f.fresh = edit[r].fresh /\ f.gone = edit[r].gone
                  /\ \/ /\ edit[r].stage = "send" /\ f.stage = "sent" /\ f.fresh \in Pictures
                        /\ stored' = stored \union {f.fresh} /\ UNCHANGED <<asset, bytes>>
                     \/ /\ edit[r].stage = "sent" /\ f.stage \in {"done", "remove"}
                        /\ asset' = [asset EXCEPT ![f.fresh] = "ACTIVE"] /\ UNCHANGED stored
                        /\ Sized(f.fresh)
                     \/ /\ edit[r].stage = "removed" /\ f.stage = "remove"
                        /\ asset' = [asset EXCEPT ![f.gone] = IF @ = "ACTIVE" THEN "DELETED" ELSE @]
                        /\ UNCHANGED <<bytes, stored>>
<1>1. PICK e : e = edit[r]
  OBVIOUS
<1>2. CASE Send(r)
  <2>1. e.stage = "send" /\ MoveTo(r, "sent") /\ stored' = stored \union {e.fresh} /\ UNCHANGED <<shelf, asset, bytes, edits, revived>>
    BY <1>1, <1>2 DEF Send, InStage
  <2>2. r \in Busy /\ RequestFits(e)
    BY <1>1, <2>1, RequestAt
  <2>3. e.fresh \in Pictures
    BY <2>1, <2>2 DEF RequestFits, PicturesFit
  <2>4. QED
    BY <1>1, <2>1, <2>2, <2>3, StageGoes
<1>3. CASE Activate(r)
  <2>1. PICK stage : stage = IF e.kind = "create" THEN "done" ELSE "remove"
    OBVIOUS
  <2>2. /\ e.stage = "sent" /\ MoveTo(r, stage) /\ asset' = [asset EXCEPT ![e.fresh] = "ACTIVE"]
        /\ Sized(e.fresh) /\ UNCHANGED <<shelf, stored, edits, revived>>
    BY <1>1, <1>3, <2>1 DEF Activate, InStage, Sized
  <2>3. r \in Busy
    BY <1>1, <2>2, RequestAt
  <2>4. stage \in {"done", "remove"}
    BY <2>1
  <2>5. UNCHANGED <<shelf, edits, revived>>
    BY <2>2
  <2>6. \E f : Goes(r, f) /\ f.stage = stage /\ f.fresh = e.fresh /\ f.gone = e.gone
    BY <1>1, <2>1, <2>2, <2>3, <2>5, StageGoes
  <2>7. QED
    BY <1>1, <2>2, <2>4, <2>6
<1>4. CASE Forget(r)
  <2>1. /\ e.stage = "removed" /\ MoveTo(r, "remove")
        /\ asset' = [asset EXCEPT ![e.gone] = IF @ = "ACTIVE" THEN "DELETED" ELSE @]
        /\ UNCHANGED <<shelf, bytes, stored, edits, revived>>
    BY <1>1, <1>4 DEF Forget, InStage
  <2>2. r \in Busy
    BY <1>1, <2>1, RequestAt
  <2>3. UNCHANGED <<shelf, edits, revived>>
    BY <2>1
  <2>4. \E f : Goes(r, f) /\ f.stage = "remove" /\ f.fresh = e.fresh /\ f.gone = e.gone
    BY <1>1, <2>1, <2>2, <2>3, StageGoes
  <2>5. QED
    BY <1>1, <2>1, <2>4
<1>5. QED
  BY <1>2, <1>3, <1>4

LEMMA RemovedOne ==
    ASSUME CatalogueTyped, NEW r \in Clerks, Remove(r)
    PROVE  \E f : /\ Goes(r, f) /\ f.stage = "removed" /\ asset[f.gone] = "ACTIVE" /\ f.gone \in Pictures
                  /\ stored' = stored \ {f.gone} /\ UNCHANGED <<asset, bytes>>
<1>1. PICK e : e = edit[r]
  OBVIOUS
<1>2. PICK a \in Removable(r) : stored' = stored \ {a} /\ edit' = [edit EXCEPT ![r].stage = "removed", ![r].gone = a]
  BY DEF Remove
<1>3. e.stage = "remove" /\ UNCHANGED <<shelf, asset, bytes, edits, revived>>
  BY <1>1 DEF Remove, InStage
<1>4. r \in Busy /\ e \in EditRow
  BY <1>1, <1>3, RequestAt
<1>5. a \in Pictures /\ asset[a] = "ACTIVE"
  BY <1>1, <1>2, <1>4 DEF Removable, EditRow
<1>6. PICK f : f = Removing(e, "removed", a)
  OBVIOUS
<1>7. edit' = [edit EXCEPT ![r] = f]
  BY <1>1, <1>2, <1>6 DEF CatalogueTyped, Removing
<1>8. "removed" \in EditStages
  BY DEF EditStages
<1>9. /\ f \in EditRow /\ SameRequest(e, f) /\ f.stage = "removed" /\ f.gone = a /\ f.fresh = e.fresh
      /\ f.written = e.written /\ f.locks = e.locks
  BY <1>4, <1>5, <1>6, <1>8, GoneSet
<1>10. Goes(r, f)
  BY <1>1, <1>3, <1>4, <1>5, <1>7, <1>9, StorageStage
<1>11. QED
  BY <1>2, <1>3, <1>5, <1>9, <1>10

LEMMA WrittenRow ==
    ASSUME CatalogueTyped, NEW r \in Clerks, Write(r)
    PROVE  \E f : Goes(r, f) /\ UNCHANGED <<asset, bytes, stored>> /\ f.stage \in {"upload", "done"}
<1>1. PICK e : e = edit[r]
  OBVIOUS
<1>2. PICK stage : stage = IF e.kind = "create" /\ e.file THEN "upload" ELSE "done"
  OBVIOUS
<1>3. e.stage \in {"write", "remove"}
  BY <1>1 DEF Write, Removed, InStage
<1>4. /\ edit' = [edit EXCEPT ![r].written = TRUE, ![r].stage = stage]
      /\ UNCHANGED <<shelf, asset, bytes, stored, edits, revived>>
  BY <1>1, <1>2 DEF Write
<1>5. r \in Busy /\ RequestFits(e) /\ e \in EditRow
  BY <1>1, <1>3, RequestAt
<1>6. PICK f : f = Writing(e, stage)
  OBVIOUS
<1>7. edit' = [edit EXCEPT ![r] = f]
  BY <1>1, <1>4, <1>6 DEF CatalogueTyped, Writing
<1>8. stage \in {"upload", "done"} /\ stage \in EditStages
  BY <1>2 DEF EditStages
<1>9. /\ f \in EditRow /\ SameRequest(e, f) /\ f.stage = stage /\ f.seen = e.seen /\ f.fresh = e.fresh
      /\ f.written /\ f.locks = e.locks
  BY <1>5, <1>6, <1>8, WrittenSet
<1>10. RequestFits(f)
  <2>1. CreateFits(f)
    BY <1>3, <1>5, <1>8, <1>9 DEF RequestFits, CreateFits, SameRequest
  <2>2. StageFits(f)
    <3>1. e.kind \in {"create", "update", "delete", "drop"}
      BY <1>5 DEF EditRow
    <3>2. e.kind = "create" => e.asked = {"active", "name"}
      BY <1>5 DEF RequestFits, CreateFits
    <3>3. QED
      BY <1>2, <1>3, <1>5, <1>9, <3>1, <3>2 DEF RequestFits, StageFits, SameRequest
  <2>3. PicturesFit(f)
    BY <1>2, <1>3, <1>5, <1>9 DEF RequestFits, PicturesFit, SameRequest
  <2>4. QED
    BY <1>9, <2>1, <2>2, <2>3 DEF RequestFits
<1>11. /\ ~Waits(r)
       /\ e.kind # "create" => shelf[e.product].live
       /\ e.kind \in {"create", "update"} => ~NameClash(r)
  BY <1>1 DEF Write
<1>12. Goes(r, f)
  BY <1>1, <1>4, <1>5, <1>7, <1>8, <1>9, <1>10, <1>11 DEF Goes
<1>13. QED
  BY <1>4, <1>8, <1>9, <1>12

-----------------------------------------------------------------------------
(* The catalogue: a request ends.                                             *)

\* The row of a product that is created or updated.
ShelfRowOf(r, pictures, sold) ==
    [live |-> TRUE, active |-> edit[r].row.active, name |-> edit[r].row.name, pictures |-> pictures,
     batch |-> IF pictures = shelf[edit[r].product].pictures THEN shelf[edit[r].product].batch
               ELSE shelf[edit[r].product].batch + 1,
     sold |-> sold, variants |-> shelf[edit[r].product].variants \union sold]

Replaces(row, r, p, pictures, sold) ==
    /\ row \in ShelfRow /\ row.batch <= shelf[p].batch + 1 /\ p \in Products
    /\ Shelf(r, pictures, sold) = [shelf EXCEPT ![p] = row]
    /\ row.live /\ row.active = edit[r].row.active /\ row.name = edit[r].row.name /\ row.pictures = pictures
    /\ row.sold = sold /\ row.variants = shelf[p].variants \union sold

LEMMA ShelfChanged ==
    ASSUME CatalogueTyped, NEW r \in Busy, NEW pictures \in SUBSET Pictures, NEW sold \in SUBSET VariantKeys
    PROVE  Replaces(ShelfRowOf(r, pictures, sold), r, edit[r].product, pictures, sold)
<1>11. PICK row : row = ShelfRowOf(r, pictures, sold)
  OBVIOUS
<1>12. PICK p : p = edit[r].product
  OBVIOUS
<1>1. edit[r].product \in Products /\ edit[r].row.name \in ProductNames /\ edit[r].row.active \in BOOLEAN
  BY CatalogueRows DEF EditRow
<1>2. shelf[p] \in ShelfRow /\ p \in Products /\ shelf \in [Products -> ShelfRow]
  BY <1>1, <1>12, CatalogueRows
<1>3. shelf[p].batch \in Nat /\ shelf[p].batch + 1 <= MaxEdits
  <2>1. shelf[p].batch \in Nat /\ edits \in Nat /\ edits <= MaxEdits /\ shelf[p].batch + Cardinality(Busy) <= edits
    BY <1>2, CatalogueBounds DEF CatalogueTyped, CatalogueTypeOK, BatchesCounted, ShelfRow
  <2>2. Cardinality(Busy) # 0
    BY CatalogueBounds, FS_EmptySet
  <2>3. QED
    BY <2>1, <2>2, CatalogueBounds
<1>4. Shelf(r, pictures, sold) = [shelf EXCEPT ![p] = row]
  BY <1>1, <1>2, <1>11, <1>12 DEF Shelf, ShelfRowOf
<1>5. shelf[p].variants \union sold \in SUBSET VariantKeys
  BY <1>2 DEF ShelfRow
<1>6. PICK batch : batch = IF pictures = shelf[p].pictures THEN shelf[p].batch ELSE shelf[p].batch + 1
  OBVIOUS
<1>7. batch \in 0..MaxEdits /\ batch <= shelf[p].batch + 1
  BY <1>3, <1>6, CatalogueBounds
<1>8. row = [live |-> TRUE, active |-> edit[r].row.active, name |-> edit[r].row.name, pictures |-> pictures,
             batch |-> batch, sold |-> sold, variants |-> shelf[p].variants \union sold]
  BY <1>6, <1>11, <1>12 DEF ShelfRowOf
<1>9. row \in ShelfRow
  BY <1>1, <1>5, <1>7, <1>8 DEF ShelfRow
<1>10. Replaces(row, r, p, pictures, sold)
  BY <1>2, <1>4, <1>7, <1>8, <1>9 DEF Replaces
<1>13. QED
  BY <1>10, <1>11, <1>12

\* The product that a request turned down has left behind.
LEMMA TurnedAway ==
    ASSUME CatalogueTyped, NEW r \in Busy, TurnedDown(r), edit[r].stage # "done"
    PROVE  /\ Ends(r) /\ UNCHANGED <<bytes, stored, revived>>
           /\ \/ ~Written(r) /\ UNCHANGED shelf
              \/ /\ Written(r) /\ edit[r].kind = "create" /\ edit[r].row.active /\ <<"products">> \in edit[r].locks
                 /\ \E row \in ShelfRow :
                       /\ shelf' = [shelf EXCEPT ![edit[r].product] = row] /\ row.batch <= shelf[edit[r].product].batch + 1
                       /\ row.live /\ row.active /\ row.name = edit[r].row.name /\ row.pictures = {} /\ row.sold = {}
                       /\ row.variants = shelf[edit[r].product].variants
<1>1. RequestFits(edit[r])
  BY CatalogueRows
<1>2. Ends(r) /\ UNCHANGED <<bytes, stored, revived>>
  BY DEF TurnedDown, Ends
<1>3. CASE ~Written(r)
  BY <1>2, <1>3 DEF TurnedDown
<1>4. CASE Written(r)
  <2>1. edit[r].kind = "create" /\ edit[r].row.active /\ <<"products">> \in edit[r].locks
    BY <1>1, <1>4 DEF RequestFits, StageFits, CreateFits, Written
  <2>2. shelf' = Shelf(r, {}, {})
    BY <1>4 DEF TurnedDown
  <2>3. PICK row : row = ShelfRowOf(r, {}, {})
    OBVIOUS
  <2>4. PICK p : p = edit[r].product
    OBVIOUS
  <2>5. Replaces(row, r, p, {}, {})
    BY <2>3, <2>4, ShelfChanged
  <2>6. QED
    BY <1>2, <1>4, <2>1, <2>2, <2>4, <2>5 DEF Replaces
<1>5. QED
  BY <1>3, <1>4

\* What Finish() makes of the row of the product.
FinishedRow(e, old, row) ==
    /\ row \in ShelfRow /\ row.batch <= old.batch + 1
    /\ e.kind = "delete" => ~row.live /\ ~row.active /\ row.pictures = {} /\ row.sold = {}
    /\ e.kind = "drop" => /\ row.live = old.live /\ row.active = old.active /\ row.name = old.name
                          /\ row.sold = old.sold /\ row.variants = old.variants /\ row.pictures \subseteq old.pictures
    /\ e.kind \in {"create", "update"} =>
          /\ row.live /\ row.active = e.row.active /\ row.name = e.row.name /\ row.variants = old.variants \union row.sold
          /\ e.kind = "update" /\ "variants" \notin e.asked => row.sold = old.sold
          /\ row.sold = old.sold \/ Cardinality(row.sold) <= MaxVariants
          /\ row.pictures = old.pictures \/ Cardinality(row.pictures) <= MaxPictures

LEMMA PictureAdded ==
    ASSUME NEW keep \in SUBSET Pictures, NEW a \in Pictures \union {NoPicture}, NEW file \in BOOLEAN,
           a # NoPicture => file, Cardinality(keep) + (IF file THEN 1 ELSE 0) <= MaxPictures
    PROVE  keep \union ({a} \ {NoPicture}) \in SUBSET Pictures /\ Cardinality(keep \union ({a} \ {NoPicture})) <= MaxPictures
<1>1. IsFiniteSet(keep) /\ Cardinality(keep) \in Nat
  BY CatalogueBounds
<1>2. CASE a = NoPicture
  <2>1. keep \union ({a} \ {NoPicture}) = keep
    BY <1>2
  <2>2. QED
    BY <1>1, <2>1, CatalogueBounds
<1>3. CASE a # NoPicture
  <2>1. keep \union ({a} \ {NoPicture}) = keep \union {a}
    BY <1>3
  <2>2. Cardinality(keep \union {a}) = IF a \in keep THEN Cardinality(keep) ELSE Cardinality(keep) + 1
    BY <1>1, FS_AddElement
  <2>3. Cardinality(keep \union {a}) <= MaxPictures
    BY <1>1, <1>3, <2>2, CatalogueBounds
  <2>4. QED
    BY <1>3, <2>1, <2>3
<1>4. QED
  BY <1>2, <1>3

LEMMA Finished ==
    ASSUME CatalogueTyped, NEW r \in Clerks, Finish(r), NEW e, e = edit[r]
    PROVE  /\ r \in Busy /\ Written(r) /\ Ends(r) /\ UNCHANGED <<asset, bytes, stored>> /\ e.product \in Products
           /\ \E row : FinishedRow(e, shelf[e.product], row) /\ shelf' = [shelf EXCEPT ![e.product] = row]
<1>1. e.stage = "done" /\ edit' = [edit EXCEPT ![r] = Resting] /\ UNCHANGED <<asset, bytes, stored, edits>>
  BY DEF Finish, InStage
<1>2. r \in Busy /\ RequestFits(e) /\ e \in EditRow /\ e.product \in Products /\ shelf[e.product] \in ShelfRow
  BY <1>1, RequestAt
<1>3. Written(r) /\ Ends(r)
  BY <1>1, <1>2 DEF RequestFits, StageFits, Written, Ends
<1>4. PICK old : old = shelf[e.product]
  OBVIOUS
<1>5. old \in ShelfRow /\ old.batch \in 0..MaxEdits /\ old.batch <= old.batch + 1
  BY <1>2, <1>4, CatalogueBounds DEF ShelfRow
<1>6. CASE e.kind = "delete"
  <2>1. shelf' = [shelf EXCEPT ![e.product] = Absent]
    BY <1>6 DEF Finish
  <2>2. (CHOOSE n \in ProductNames : TRUE) \in ProductNames
    BY DEF CatalogueTyped
  <2>3. /\ Absent \in ShelfRow /\ ~Absent.live /\ ~Absent.active /\ Absent.pictures = {} /\ Absent.sold = {}
        /\ Absent.batch = 0
    BY <2>2, CatalogueBounds DEF Absent, ShelfRow
  <2>4. FinishedRow(e, old, Absent)
    BY <1>5, <1>6, <2>3, CatalogueBounds DEF FinishedRow
  <2>5. QED
    BY <1>1, <1>2, <1>3, <1>4, <2>1, <2>4
<1>7. CASE e.kind = "drop"
  <2>1. PICK pictures : pictures = Shown(r)
    OBVIOUS
  <2>2. pictures \subseteq old.pictures /\ pictures \in SUBSET Pictures
    BY <1>2, <1>4, <1>5, <1>7, <2>1 DEF Shown, ShelfRow, RequestFits, StageFits
  <2>3. PICK row : row = [old EXCEPT !.pictures = pictures]
    OBVIOUS
  <2>4. /\ row \in ShelfRow /\ row.live = old.live /\ row.active = old.active /\ row.name = old.name
        /\ row.sold = old.sold /\ row.variants = old.variants /\ row.pictures = pictures /\ row.batch = old.batch
    BY <1>5, <2>2, <2>3 DEF ShelfRow
  <2>5. shelf' = [shelf EXCEPT ![e.product] = row]
    BY <1>2, <1>4, <1>7, <2>1, <2>3, CatalogueRows DEF Finish
  <2>6. FinishedRow(e, old, row)
    BY <1>5, <1>7, <2>2, <2>4 DEF FinishedRow
  <2>7. QED
    BY <1>1, <1>2, <1>3, <1>4, <2>5, <2>6
<1>8. CASE e.kind \in {"create", "update"}
  <2>1. PICK pictures : pictures = Shown(r)
    OBVIOUS
  <2>2. PICK sold : sold = Sold(r)
    OBVIOUS
  <2>3. /\ pictures \in SUBSET Pictures
        /\ pictures = old.pictures \/ Cardinality(pictures) <= MaxPictures
    <3>1. CASE e.kind = "create" \/ "pictures" \in e.asked
      <4>1. pictures = e.keep \union ({e.fresh} \ {NoPicture})
        <5>1. Shown(r) = Pictured(r)
          BY <1>8, <3>1 DEF Shown
        <5>2. Pictured(r) = e.keep \union ({e.fresh} \ {NoPicture})
          BY DEF Pictured
        <5>3. QED
          BY <2>1, <5>1, <5>2
      <4>2. /\ e.keep \in SUBSET Pictures /\ e.fresh \in Pictures \union {NoPicture} /\ e.file \in BOOLEAN
            /\ e.fresh # NoPicture => e.file
            /\ Cardinality(e.keep) + (IF e.file THEN 1 ELSE 0) <= MaxPictures
        BY <1>1, <1>2, <3>1 DEF EditRow, RequestFits, PicturesFit
      <4>3. QED
        BY <4>1, <4>2, PictureAdded
    <3>2. CASE ~(e.kind = "create" \/ "pictures" \in e.asked)
      BY <1>4, <1>5, <1>8, <2>1, <3>2 DEF Shown, ShelfRow
    <3>3. QED
      BY <3>1, <3>2
  <2>4. /\ sold \in SUBSET VariantKeys
        /\ e.kind = "update" /\ "variants" \notin e.asked => sold = old.sold
        /\ sold = old.sold \/ Cardinality(sold) <= MaxVariants
    <3>1. CASE e.kind = "create" \/ "variants" \in e.asked
      <4>1. sold = e.sell /\ e.sell \in SUBSET VariantKeys /\ Cardinality(e.sell) <= MaxVariants
        BY <1>1, <1>2, <2>2, <3>1 DEF Sold, EditRow, RequestFits, PicturesFit
      <4>2. QED
        BY <3>1, <4>1
    <3>2. CASE ~(e.kind = "create" \/ "variants" \in e.asked)
      BY <1>4, <1>5, <2>2, <3>2 DEF Sold, ShelfRow
    <3>3. QED
      BY <3>1, <3>2
  <2>5. shelf' = Shelf(r, pictures, sold)
    BY <1>8, <2>1, <2>2 DEF Finish
  <2>6. PICK row : row = ShelfRowOf(r, pictures, sold)
    OBVIOUS
  <2>7. PICK p : p = e.product
    OBVIOUS
  <2>8. Replaces(row, r, p, pictures, sold)
    BY <1>2, <2>3, <2>4, <2>6, <2>7, ShelfChanged
  <2>9. FinishedRow(e, old, row)
    BY <1>4, <1>8, <2>3, <2>4, <2>7, <2>8 DEF FinishedRow, Replaces
  <2>10. QED
    BY <1>1, <1>2, <1>3, <1>4, <2>5, <2>7, <2>8, <2>9 DEF Replaces
<1>9. e.kind \in {"create", "update", "delete", "drop"}
  BY <1>2 DEF EditRow
<1>10. QED
  BY <1>6, <1>7, <1>8, <1>9

-----------------------------------------------------------------------------
(* The catalogue: the steps.                                                  *)

Proceeds(r, f) == Goes(r, f) /\ UNCHANGED <<asset, bytes, stored>> /\ f.stage \notin {"send", "sent", "removed"}

Stores(r, f) ==
    /\ Goes(r, f)
    /\ \/ /\ f.stage = "send" /\ f.fresh \in Unseen /\ Used < MaxStorage
          /\ asset' = [asset EXCEPT ![f.fresh] = "UPLOADING"]
          /\ bytes' = [bytes EXCEPT ![f.fresh] = 1] /\ UNCHANGED stored
       \/ /\ edit[r].stage = "send" /\ f.stage = "sent" /\ f.fresh = edit[r].fresh /\ f.fresh \in Pictures
          /\ stored' = stored \union {f.fresh} /\ UNCHANGED <<asset, bytes>>
       \/ /\ edit[r].stage = "sent" /\ f.stage \in {"done", "remove"} /\ f.fresh = edit[r].fresh
          /\ asset' = [asset EXCEPT ![f.fresh] = "ACTIVE"] /\ UNCHANGED stored
          /\ Sized(f.fresh)
       \/ /\ f.stage = "removed" /\ asset[f.gone] = "ACTIVE" /\ f.gone \in Pictures
          /\ stored' = stored \ {f.gone} /\ UNCHANGED <<asset, bytes>>
       \/ /\ edit[r].stage = "removed" /\ f.stage = "remove" /\ f.gone = edit[r].gone
          /\ asset' = [asset EXCEPT ![f.gone] = IF @ = "ACTIVE" THEN "DELETED" ELSE @]
          /\ UNCHANGED <<bytes, stored>>

Declined(r) ==
    /\ r \in Busy /\ TurnedDown(r) /\ edit[r].stage # "done"
    /\ \/ UNCHANGED asset
       \/ edit[r].stage \in {"send", "sent"} /\ asset' = [asset EXCEPT ![edit[r].fresh] = "FAILED"]

Undone(r) == r \in Busy /\ Ends(r) /\ UNCHANGED <<shelf, asset, bytes, stored, revived>>

LEMMA StartSteps ==
    ASSUME CatalogueTyped, ShelfTidy, NEW r \in Clerks,
           StartCreate(r) \/ StartUpdate(r) \/ StartDelete(r) \/ StartDrop(r)
    PROVE  \E f : Start(r, f) /\ Begins(f)
<1>1. CASE StartCreate(r)
  BY <1>1, CreateBegins
<1>2. CASE StartUpdate(r)
  BY <1>2, UpdateBegins
<1>3. CASE StartDelete(r) \/ StartDrop(r)
  BY <1>3, DeleteBegins
<1>4. QED
  BY <1>1, <1>2, <1>3

LEMMA OtherSteps ==
    ASSUME CatalogueTyped, NEW r \in Clerks,
           \/ TakePlace(r) \/ CheckName(r) \/ TakeAlbum(r) \/ TakeVariants(r)
           \/ Reserve(r) \/ Send(r) \/ Activate(r) \/ SendFails(r) \/ Remove(r) \/ Forget(r)
           \/ Write(r) \/ Finish(r) \/ Undo(r)
    PROVE  (\E f : Proceeds(r, f) \/ Stores(r, f)) \/ Declined(r) \/ Undone(r) \/ Finish(r)
<1>1. ASSUME NEW stage, edit[r].stage = stage, stage \notin {"idle", "done"}, TurnedDown(r), UNCHANGED asset
      PROVE  Declined(r)
  BY <1>1 DEF Declined, Busy, InStage
<1>2. CASE TakePlace(r)
  <2>1. edit[r].stage = "place"
    BY <1>2 DEF TakePlace, InStage
  <2>2. QED
    BY <1>1, <1>2, <2>1, PlaceTaken DEF Proceeds
<1>3. CASE CheckName(r)
  <2>1. edit[r].stage = "named"
    BY <1>3 DEF CheckName, InStage
  <2>2. QED
    BY <1>1, <1>3, <2>1, NameChecked DEF Proceeds
<1>4. CASE TakeAlbum(r)
  <2>1. edit[r].stage = "pictures"
    BY <1>4 DEF TakeAlbum, InStage
  <2>2. QED
    BY <1>1, <1>4, <2>1, AlbumTaken DEF Proceeds
<1>5. CASE TakeVariants(r)
  <2>1. edit[r].stage = "variants"
    BY <1>5 DEF TakeVariants, InStage
  <2>2. QED
    BY <1>1, <1>5, <2>1, VariantsTaken DEF Proceeds
<1>6. CASE Reserve(r)
  <2>1. edit[r].stage = "upload"
    BY <1>6 DEF Reserve, InStage
  <2>2. CASE TurnedDown(r) /\ UNCHANGED asset
    BY <1>1, <2>1, <2>2
  <2>3. CASE ~(TurnedDown(r) /\ UNCHANGED asset)
    BY <1>6, <2>3, Reserved DEF Stores
  <2>4. QED
    BY <2>2, <2>3
<1>7. CASE Send(r) \/ Activate(r) \/ Forget(r)
  BY <1>7, SentOrActive DEF Stores
<1>8. CASE SendFails(r)
  BY <1>8 DEF SendFails, Declined, Busy, InStage
<1>9. CASE Remove(r)
  BY <1>9, RemovedOne DEF Stores
<1>10. CASE Write(r)
  BY <1>10, WrittenRow DEF Proceeds
<1>11. CASE Undo(r)
  BY <1>11 DEF Undo, Undone, Ends, Busy
<1>12. QED
  BY <1>2, <1>3, <1>4, <1>5, <1>6, <1>7, <1>8, <1>9, <1>10, <1>11

LEMMA CatalogueSteps ==
    ASSUME CatalogueTyped, ShelfTidy, CatalogueNext
    PROVE  \E r \in Clerks :
              \/ \E f : Start(r, f) /\ Begins(f)
              \/ \E f : Proceeds(r, f) \/ Stores(r, f)
              \/ Declined(r) \/ Undone(r) \/ Finish(r)
<1>1. PICK r \in Clerks :
        \/ StartCreate(r) \/ StartUpdate(r) \/ StartDelete(r) \/ StartDrop(r)
        \/ TakePlace(r) \/ CheckName(r) \/ TakeAlbum(r) \/ TakeVariants(r)
        \/ Reserve(r) \/ Send(r) \/ Activate(r) \/ SendFails(r) \/ Remove(r) \/ Forget(r)
        \/ Write(r) \/ Finish(r) \/ Undo(r)
  BY DEF CatalogueNext
<1>2. CASE StartCreate(r) \/ StartUpdate(r) \/ StartDelete(r) \/ StartDrop(r)
  BY <1>2, StartSteps
<1>3. CASE \/ TakePlace(r) \/ CheckName(r) \/ TakeAlbum(r) \/ TakeVariants(r)
           \/ Reserve(r) \/ Send(r) \/ Activate(r) \/ SendFails(r) \/ Remove(r) \/ Forget(r)
           \/ Write(r) \/ Finish(r) \/ Undo(r)
  BY <1>3, OtherSteps
<1>4. QED
  BY <1>1, <1>2, <1>3

\* What a step does to the row of a product.
LEMMA ShelfSteps ==
    ASSUME CatalogueTyped, NEW r \in Clerks, Declined(r) \/ Undone(r) \/ Finish(r)
    PROVE  /\ Ends(r) /\ bytes' = bytes /\ stored' = stored
           /\ \/ shelf' = shelf
              \/ \E p \in Products : \E row \in ShelfRow :
                    shelf' = [shelf EXCEPT ![p] = row] /\ row.batch <= shelf[p].batch + 1
<1>1. CASE Declined(r)
  <2>1. r \in Busy /\ edit[r].product \in Products
    BY <1>1, CatalogueRows DEF Declined, EditRow
  <2>2. QED
    BY <1>1, <2>1, TurnedAway DEF Declined
<1>2. CASE Undone(r)
  BY <1>2 DEF Undone
<1>3. CASE Finish(r)
  BY <1>3, Finished DEF FinishedRow
<1>4. QED
  BY <1>1, <1>2, <1>3

LEMMA AssetSteps ==
    ASSUME CatalogueTyped, NEW r \in Clerks,
           (\E f : Proceeds(r, f) \/ Stores(r, f)) \/ Declined(r) \/ Undone(r) \/ Finish(r)
    PROVE  asset' \in [Pictures -> {"none", "UPLOADING", "ACTIVE", "FAILED", "DELETED"}] /\ stored' \subseteq Pictures
<1>1. asset \in [Pictures -> {"none", "UPLOADING", "ACTIVE", "FAILED", "DELETED"}] /\ stored \subseteq Pictures
  BY CatalogueRows DEF CatalogueTyped, CatalogueTypeOK
<1>2. ASSUME NEW a, NEW v, v \in {"none", "UPLOADING", "ACTIVE", "FAILED", "DELETED"}, asset' = [asset EXCEPT ![a] = v]
      PROVE  asset' \in [Pictures -> {"none", "UPLOADING", "ACTIVE", "FAILED", "DELETED"}]
  BY <1>1, <1>2
<1>3. ASSUME NEW f, Stores(r, f)
      PROVE  asset' \in [Pictures -> {"none", "UPLOADING", "ACTIVE", "FAILED", "DELETED"}] /\ stored' \subseteq Pictures
  <2>1. CASE UNCHANGED asset
    BY <1>1, <1>3, <2>1 DEF Stores
  <2>2. CASE ~UNCHANGED asset
    <3>1. UNCHANGED stored
      BY <1>3, <2>2 DEF Stores
    <3>2. \/ asset' = [asset EXCEPT ![f.fresh] = "UPLOADING"] \/ asset' = [asset EXCEPT ![f.fresh] = "ACTIVE"]
          \/ asset' = [asset EXCEPT ![f.gone] = IF @ = "ACTIVE" THEN "DELETED" ELSE @]
      BY <1>3, <2>2 DEF Stores
    <3>3. QED
      BY <1>1, <3>1, <3>2
  <2>3. QED
    BY <2>1, <2>2
<1>4. CASE \E f : Proceeds(r, f)
  BY <1>1, <1>4 DEF Proceeds
<1>5. CASE Declined(r)
  BY <1>1, <1>5 DEF Declined, TurnedDown
<1>6. CASE Undone(r)
  BY <1>1, <1>6 DEF Undone
<1>7. CASE Finish(r)
  BY <1>1, <1>7 DEF Finish
<1>8. QED
  BY <1>3, <1>4, <1>5, <1>6, <1>7

LEMMA ByteSteps ==
    ASSUME CatalogueTyped, NEW r \in Clerks, NEW f, Proceeds(r, f) \/ Stores(r, f)
    PROVE  bytes' \in [Pictures -> 0..2]
<1>1. bytes \in [Pictures -> 0..2]
  BY CatalogueRows
<1>2. bytes' = bytes \/ \E size \in 0..2 : bytes' = [bytes EXCEPT ![f.fresh] = size]
  BY DEF Proceeds, Stores, Sized
<1>3. QED
  BY <1>1, <1>2

LEMMA CatalogueStepTyped ==
    ASSUME CatalogueTyped, ShelfTidy, CatalogueNext
    PROVE  CatalogueTyped'
<1>1. PICK r \in Clerks :
        \/ \E f : Start(r, f) /\ Begins(f)
        \/ \E f : Proceeds(r, f) \/ Stores(r, f)
        \/ Declined(r) \/ Undone(r) \/ Finish(r)
  BY CatalogueSteps
<1>2. CASE \E f : Start(r, f) /\ Begins(f)
  BY <1>2, StartsTyped
<1>3. CASE \E f : Proceeds(r, f) \/ Stores(r, f)
  <2>1. asset' \in [Pictures -> {"none", "UPLOADING", "ACTIVE", "FAILED", "DELETED"}] /\ stored' \subseteq Pictures
    BY <1>3, AssetSteps
  <2>2. bytes' \in [Pictures -> 0..2] /\ \E f : Goes(r, f)
    BY <1>3, ByteSteps DEF Proceeds, Stores
  <2>3. QED
    BY <2>1, <2>2, GoesTyped
<1>4. CASE Declined(r) \/ Undone(r) \/ Finish(r)
  <2>1. asset' \in [Pictures -> {"none", "UPLOADING", "ACTIVE", "FAILED", "DELETED"}]
    BY <1>4, AssetSteps
  <2>2. revived' \subseteq Products
    <3>1. revived \subseteq Products
      BY DEF CatalogueTyped, CatalogueTypeOK
    <3>2. CASE Finish(r)
      <4>1. edit[r].product \in Products
        BY <3>2, Finished
      <4>2. QED
        BY <3>1, <3>2, <4>1 DEF Finish
    <3>3. QED
      BY <1>4, <3>1, <3>2 DEF Declined, TurnedDown, Undone
  <2>3. QED
    BY <1>4, <2>1, <2>2, ShelfSteps, EndsTyped
<1>5. QED
  BY <1>1, <1>2, <1>3, <1>4

-----------------------------------------------------------------------------
(* The catalogue: requests beside each other.                                 *)

LEMMA Beginning ==
    ASSUME CatalogueTyped, NEW r \in Clerks, NEW f, Start(r, f), Begins(f)
    PROVE  /\ Busy' = Busy \union {r} /\ r \notin Busy /\ edit'[r] = f /\ \A q \in Busy : edit'[q] = edit[q]
           /\ UNCHANGED <<shelf, asset, bytes, stored, revived>>
<1>1. InStage(r, "idle") /\ edit' = [edit EXCEPT ![r] = f] /\ UNCHANGED <<shelf, asset, bytes, stored, revived>>
  BY DEF Start
<1>2. f.stage # "idle"
  BY DEF Begins
<1>3. /\ Busy' = Busy \union {r} /\ r \notin Busy /\ edit'[r] = f /\ \A q \in Clerks \ {r} : edit'[q] = edit[q]
  BY <1>1, <1>2, OneStarts
<1>4. QED
  BY <1>1, <1>3 DEF Busy

LEMMA Going ==
    ASSUME CatalogueTyped, NEW r \in Clerks, NEW f, Goes(r, f)
    PROVE  /\ Busy' = Busy /\ r \in Busy /\ edit'[r] = f /\ \A q \in Busy \ {r} : edit'[q] = edit[q]
           /\ SameRequest(edit[r], f) /\ RequestFits(f) /\ UNCHANGED <<shelf, revived>>
<1>1. r \in Busy /\ edit' = [edit EXCEPT ![r] = f] /\ RequestFits(f) /\ SameRequest(edit[r], f) /\ UNCHANGED <<shelf, revived>>
  BY DEF Goes
<1>2. f.stage # "idle"
  BY <1>1 DEF RequestFits, EditRow, EditStages
<1>3. Busy' = Busy /\ edit'[r] = f /\ \A q \in Clerks \ {r} : edit'[q] = edit[q]
  BY <1>1, <1>2, OneGoes
<1>4. QED
  BY <1>1, <1>3 DEF Busy

LEMMA Ending ==
    ASSUME CatalogueTyped, NEW r \in Clerks, Ends(r)
    PROVE  /\ r \in Busy /\ Busy' = Busy \ {r} /\ r \notin Busy' /\ \A q \in Busy' : q \in Busy /\ q # r /\ edit'[q] = edit[q]
<1>1. r \in Busy /\ Busy' = Busy \ {r} /\ \A q \in Clerks \ {r} : edit'[q] = edit[q]
  BY OneEnds DEF Ends
<1>2. QED
  BY <1>1 DEF Busy

\* A request that ends leaves one row behind, or none.
LEMMA EndSteps ==
    ASSUME CatalogueTyped, NEW r \in Clerks, Declined(r) \/ Undone(r) \/ Finish(r)
    PROVE  /\ Ends(r)
           /\ \/ UNCHANGED shelf
              \/ /\ Written(r)
                 /\ \E row : /\ FinishedRow(edit[r], shelf[edit[r].product], row)
                             /\ shelf' = [shelf EXCEPT ![edit[r].product] = row]
<1>1. CASE Declined(r)
  <2>1. r \in Busy /\ RequestFits(edit[r]) /\ edit[r].product \in Products
    BY <1>1, CatalogueRows DEF Declined, EditRow
  <2>2. CASE UNCHANGED shelf
    BY <1>1, <2>1, <2>2, TurnedAway DEF Declined
  <2>3. CASE ~UNCHANGED shelf
    <3>1. Written(r) /\ edit[r].kind = "create" /\ edit[r].row.active
      BY <1>1, <2>1, <2>3, TurnedAway DEF Declined
    <3>2. PICK row \in ShelfRow :
             /\ shelf' = [shelf EXCEPT ![edit[r].product] = row] /\ row.batch <= shelf[edit[r].product].batch + 1
             /\ row.live /\ row.active /\ row.name = edit[r].row.name /\ row.pictures = {} /\ row.sold = {}
             /\ row.variants = shelf[edit[r].product].variants
      BY <1>1, <2>1, <2>3, TurnedAway DEF Declined
    <3>3. Cardinality({}) = 0
      BY FS_EmptySet
    <3>4. Cardinality(row.pictures) <= MaxPictures /\ Cardinality(row.sold) <= MaxVariants
      BY <3>2, <3>3, CatalogueBounds
    <3>5. row.variants = shelf[edit[r].product].variants \union row.sold
      BY <3>2
    <3>6. FinishedRow(edit[r], shelf[edit[r].product], row)
      BY <3>1, <3>2, <3>4, <3>5 DEF FinishedRow
    <3>7. QED
      BY <1>1, <3>1, <3>2, <3>6, ShelfSteps
  <2>4. QED
    BY <2>2, <2>3
<1>2. CASE Undone(r)
  BY <1>2 DEF Undone
<1>3. CASE Finish(r)
  BY <1>3, Finished
<1>4. QED
  BY <1>1, <1>2, <1>3

LEMMA LocksAloneStep ==
    ASSUME CatalogueTyped, LocksAlone, NEW r \in Clerks,
           (\E f : Start(r, f) /\ Begins(f)) \/ (\E f : Goes(r, f)) \/ Ends(r)
    PROVE  LocksAlone'
<1>1. ASSUME NEW f, Start(r, f), Begins(f)
      PROVE  LocksAlone'
  <2>1. f.locks = {}
    BY <1>1 DEF Begins
  <2>2. QED
    BY <1>1, <2>1, Beginning DEF LocksAlone
<1>2. ASSUME NEW f, Goes(r, f)
      PROVE  LocksAlone'
  <2>1. Busy' = Busy /\ r \in Busy /\ edit'[r] = f /\ \A q \in Busy \ {r} : edit'[q] = edit[q]
    BY <1>2, Going
  <2>2. \A q \in Busy \ {r} : f.locks \cap edit[q].locks = {}
    <3>1. CASE f.locks = edit[r].locks
      BY <2>1, <3>1 DEF LocksAlone
    <3>2. CASE f.locks # edit[r].locks
      <4>1. PICK lock : f.locks = edit[r].locks \union {lock} /\ Free(r, lock)
        BY <1>2, <3>2 DEF Goes
      <4>2. \A q \in Busy \ {r} : lock \notin edit[q].locks
        BY <4>1 DEF Free, Holds, Busy
      <4>3. QED
        BY <2>1, <4>1, <4>2 DEF LocksAlone
    <3>3. QED
      BY <3>1, <3>2
  <2>3. QED
    BY <2>1, <2>2 DEF LocksAlone
<1>3. CASE Ends(r)
  BY <1>3, Ending DEF LocksAlone
<1>4. QED
  BY <1>1, <1>2, <1>3

LEMMA WritersAloneStep ==
    ASSUME CatalogueTyped, WritersAlone, NEW r \in Clerks,
           (\E f : Start(r, f) /\ Begins(f)) \/ (\E f : Goes(r, f)) \/ Ends(r)
    PROVE  WritersAlone'
<1>1. ASSUME NEW f, Start(r, f), Begins(f)
      PROVE  WritersAlone'
  <2>1. ~f.written
    BY <1>1 DEF Begins
  <2>2. QED
    BY <1>1, <2>1, Beginning DEF WritersAlone, Written
<1>2. ASSUME NEW f, Goes(r, f)
      PROVE  WritersAlone'
  <2>1. /\ Busy' = Busy /\ r \in Busy /\ edit'[r] = f /\ \A q \in Busy \ {r} : edit'[q] = edit[q]
        /\ f.product = edit[r].product /\ f.row = edit[r].row
    BY <1>2, Going DEF SameRequest
  <2>2. ASSUME NEW q \in Busy \ {r}, f.written, edit[q].written
        PROVE  f.product # edit[q].product /\ f.row.name # edit[q].row.name
    <3>1. CASE f.written = edit[r].written
      BY <2>1, <2>2, <3>1 DEF WritersAlone, Written
    <3>2. CASE ~Waits(r)
      BY <2>1, <2>2, <3>2 DEF Waits, Written, Busy
    <3>3. QED
      BY <1>2, <3>1, <3>2 DEF Goes
  <2>3. QED
    BY <2>1, <2>2 DEF WritersAlone, Written
<1>3. CASE Ends(r)
  BY <1>3, Ending DEF WritersAlone, Written
<1>4. QED
  BY <1>1, <1>2, <1>3

LEMMA CreatesAloneStep ==
    ASSUME CatalogueTyped, CreatesAlone, NEW r \in Clerks,
           \/ \E f : Start(r, f) /\ Begins(f)
           \/ \E f : Goes(r, f)
           \/ /\ Ends(r)
              /\ shelf' = shelf \/ \E row : shelf' = [shelf EXCEPT ![edit[r].product] = row]
    PROVE  CreatesAlone'
<1>1. ASSUME NEW f, Start(r, f), Begins(f)
      PROVE  CreatesAlone'
  <2>1. /\ f.kind = "create" => ~shelf[f.product].live /\ \A q \in Busy : edit[q].product # f.product
        /\ f.kind # "create" => shelf[f.product].live
    BY <1>1 DEF Begins
  <2>2. /\ Busy' = Busy \union {r} /\ r \notin Busy /\ edit'[r] = f /\ \A q \in Busy : edit'[q] = edit[q]
        /\ shelf' = shelf
    BY <1>1, Beginning
  <2>3. ASSUME NEW s \in Busy', edit'[s].kind = "create"
        PROVE  ~shelf[edit'[s].product].live /\ \A q \in Busy' \ {s} : edit'[q].product # edit'[s].product
    <3>1. CASE s = r
      BY <2>1, <2>2, <2>3, <3>1
    <3>2. CASE s # r
      BY <2>1, <2>2, <2>3, <3>2 DEF CreatesAlone
    <3>3. QED
      BY <3>1, <3>2
  <2>4. QED
    BY <2>2, <2>3 DEF CreatesAlone
<1>2. ASSUME NEW f, Goes(r, f)
      PROVE  CreatesAlone'
  <2>1. /\ Busy' = Busy /\ r \in Busy /\ edit'[r] = f /\ \A q \in Busy \ {r} : edit'[q] = edit[q]
        /\ f.product = edit[r].product /\ f.kind = edit[r].kind /\ shelf' = shelf
    BY <1>2, Going DEF SameRequest
  <2>2. \A q \in Busy : edit'[q].product = edit[q].product /\ edit'[q].kind = edit[q].kind
    BY <2>1
  <2>3. QED
    BY <2>1, <2>2 DEF CreatesAlone
<1>3. ASSUME Ends(r), shelf' = shelf \/ \E row : shelf' = [shelf EXCEPT ![edit[r].product] = row]
      PROVE  CreatesAlone'
  <2>1. r \in Busy /\ Busy' = Busy \ {r} /\ \A q \in Busy' : q \in Busy /\ q # r /\ edit'[q] = edit[q]
    BY <1>3, Ending
  <2>2. \A q \in Busy' : edit[q].kind = "create" => edit[q].product # edit[r].product
    BY <2>1 DEF CreatesAlone
  <2>3. \A p \in Products : p # edit[r].product => shelf'[p] = shelf[p]
    BY <1>3, CatalogueRows
  <2>4. \A q \in Busy : edit[q].product \in Products
    BY CatalogueRows DEF EditRow
  <2>5. QED
    BY <2>1, <2>2, <2>3, <2>4 DEF CreatesAlone
<1>4. QED
  BY <1>1, <1>2, <1>3

\* A row that is written is well made.
LEMMA ShelfTidyStep ==
    ASSUME CatalogueTyped, ShelfTidy, WritesLive, NEW r \in Clerks,
           \/ \E f : Start(r, f) /\ Begins(f)
           \/ \E f : Goes(r, f)
           \/ Declined(r) \/ Undone(r) \/ Finish(r)
    PROVE  ShelfTidy'
<1>1. CASE UNCHANGED shelf
  BY <1>1 DEF ShelfTidy
<1>2. CASE ~UNCHANGED shelf
  <2>1. Declined(r) \/ Undone(r) \/ Finish(r)
    BY <1>2 DEF Start, Goes
  <2>2. PICK p : p = edit[r].product
    OBVIOUS
  <2>3. PICK row : FinishedRow(edit[r], shelf[p], row) /\ shelf' = [shelf EXCEPT ![p] = row] /\ Ends(r)
    BY <1>2, <2>1, <2>2, EndSteps
  <2>4. edit[r].kind \in {"create", "update", "delete", "drop"} /\ p \in Products /\ shelf[p] \in ShelfRow
    BY <2>2, <2>3, CatalogueRows DEF Ends, EditRow
  <2>5. row.sold \subseteq row.variants /\ (~row.live => ~row.active /\ row.pictures = {} /\ row.sold = {})
    <3>1. row \in ShelfRow
      BY <2>3 DEF FinishedRow
    <3>2. CASE edit[r].kind = "delete"
      BY <2>3, <3>2 DEF FinishedRow
    <3>3. CASE edit[r].kind = "drop"
      BY <2>3, <2>4, <3>3 DEF FinishedRow, ShelfTidy
    <3>4. CASE edit[r].kind \in {"create", "update"}
      BY <2>3, <3>4 DEF FinishedRow
    <3>5. QED
      BY <2>4, <3>2, <3>3, <3>4
  <2>6. shelf'[p] = row /\ \A q \in Products \ {p} : shelf'[q] = shelf[q]
    BY <2>3, <2>4, CatalogueRows
  <2>7. QED
    BY <2>5, <2>6 DEF ShelfTidy
<1>3. QED
  BY <1>1, <1>2

LEMMA WritesLiveStep ==
    ASSUME CatalogueTyped, WritesLive, WritersAlone, NEW r \in Clerks,
           \/ \E f : Start(r, f) /\ Begins(f)
           \/ \E f : Goes(r, f)
           \/ Declined(r) \/ Undone(r) \/ Finish(r)
    PROVE  WritesLive'
<1>1. ASSUME NEW f, Start(r, f), Begins(f)
      PROVE  WritesLive'
  <2>1. ~f.written
    BY <1>1 DEF Begins
  <2>2. Busy' = Busy \union {r} /\ edit'[r] = f /\ (\A q \in Busy : edit'[q] = edit[q]) /\ shelf' = shelf
    BY <1>1, Beginning
  <2>3. QED
    BY <2>1, <2>2 DEF WritesLive, Written, Taken
<1>2. ASSUME NEW f, Goes(r, f)
      PROVE  WritesLive'
  <2>1. /\ Busy' = Busy /\ r \in Busy /\ edit'[r] = f /\ \A q \in Busy \ {r} : edit'[q] = edit[q]
        /\ f.product = edit[r].product /\ f.kind = edit[r].kind /\ f.row = edit[r].row /\ shelf' = shelf
    BY <1>2, Going DEF SameRequest
  <2>2. f.written => /\ f.kind # "create" => shelf[f.product].live
                     /\ f.kind \in {"create", "update"} => ~Taken(r)
    <3>1. CASE f.written = edit[r].written
      BY <2>1, <3>1 DEF WritesLive, Written
    <3>2. CASE f.written # edit[r].written
      BY <1>2, <2>1, <3>2 DEF Goes, NameClash
    <3>3. QED
      BY <3>1, <3>2
  <2>3. \A q \in Busy : Taken(q)' = Taken(q)
    BY <2>1 DEF Taken
  <2>4. QED
    BY <2>1, <2>2, <2>3 DEF WritesLive, Written
<1>3. CASE Declined(r) \/ Undone(r) \/ Finish(r)
  <2>1. r \in Busy /\ Busy' = Busy \ {r} /\ \A q \in Busy' : q \in Busy /\ q # r /\ edit'[q] = edit[q]
    BY <1>3, EndSteps, Ending
  <2>2. CASE UNCHANGED shelf
    BY <2>1, <2>2 DEF WritesLive, Written, Taken
  <2>3. CASE ~UNCHANGED shelf
    <3>1. PICK p : p = edit[r].product
      OBVIOUS
    <3>2. PICK row : FinishedRow(edit[r], shelf[p], row) /\ shelf' = [shelf EXCEPT ![p] = row] /\ Written(r)
      BY <1>3, <2>3, <3>1, EndSteps
    <3>3. edit[r].kind \in {"create", "update", "delete", "drop"} /\ p \in Products
      BY <2>1, <3>1, CatalogueRows DEF EditRow
    <3>4. shelf'[p] = row /\ \A q \in Products \ {p} : shelf'[q] = shelf[q]
      BY <3>2, <3>3, CatalogueRows
    <3>5. row.live => row.name = edit[r].row.name \/ (shelf[p].live /\ row.name = shelf[p].name)
      BY <3>2, <3>3 DEF FinishedRow
    <3>6. ASSUME NEW q \in Busy', Written(q)
          PROVE  /\ edit[q].kind # "create" => shelf'[edit[q].product].live
                 /\ edit[q].kind \in {"create", "update"} =>
                       ~\E s \in Products \ {edit[q].product} : shelf'[s].live /\ shelf'[s].name = edit[q].row.name
      <4>1. edit[q].product # p /\ edit[q].row.name # edit[r].row.name /\ q \in Busy
        BY <2>1, <3>1, <3>2, <3>6 DEF WritersAlone
      <4>2. edit[q].product \in Products
        BY <4>1, CatalogueRows DEF EditRow
      <4>3. /\ edit[q].kind # "create" => shelf[edit[q].product].live
            /\ edit[q].kind \in {"create", "update"} =>
                  ~\E s \in Products \ {edit[q].product} : shelf[s].live /\ shelf[s].name = edit[q].row.name
        BY <3>6, <4>1 DEF WritesLive, Taken
      <4>4. QED
        BY <3>3, <3>4, <3>5, <4>1, <4>2, <4>3
    <3>7. QED
      BY <2>1, <3>6 DEF WritesLive, Written, Taken
  <2>4. QED
    BY <2>2, <2>3
<1>4. QED
  BY <1>1, <1>2, <1>3

-----------------------------------------------------------------------------
(* The catalogue: what is on the shelf.                                       *)

LEMMA NamesDifferStep ==
    ASSUME CatalogueTyped, WritesLive, NamesDiffer, NEW r \in Clerks,
           \/ \E f : Start(r, f) /\ Begins(f)
           \/ \E f : Goes(r, f)
           \/ Declined(r) \/ Undone(r) \/ Finish(r)
    PROVE  NamesDiffer'
<1>1. CASE UNCHANGED shelf
  BY <1>1 DEF NamesDiffer
<1>2. CASE ~UNCHANGED shelf
  <2>1. Declined(r) \/ Undone(r) \/ Finish(r)
    BY <1>2 DEF Start, Goes
  <2>2. PICK p : p = edit[r].product
    OBVIOUS
  <2>3. PICK row : FinishedRow(edit[r], shelf[p], row) /\ shelf' = [shelf EXCEPT ![p] = row] /\ Written(r) /\ Ends(r)
    BY <1>2, <2>1, <2>2, EndSteps
  <2>4. edit[r].kind \in {"create", "update", "delete", "drop"} /\ p \in Products /\ r \in Busy
    BY <2>2, <2>3, CatalogueRows DEF Ends, EditRow
  <2>5. shelf'[p] = row /\ \A q \in Products \ {p} : shelf'[q] = shelf[q]
    BY <2>3, <2>4, CatalogueRows
  <2>6. ASSUME NEW q \in Products \ {p}, row.live, shelf[q].live
        PROVE  row.name # shelf[q].name
    <3>1. CASE edit[r].kind \in {"create", "update"}
      BY <2>2, <2>3, <2>4, <2>6, <3>1 DEF FinishedRow, WritesLive, Taken
    <3>2. CASE edit[r].kind = "drop"
      BY <2>3, <2>4, <2>6, <3>2 DEF FinishedRow, NamesDiffer
    <3>3. CASE edit[r].kind = "delete"
      BY <2>3, <2>6, <3>3 DEF FinishedRow
    <3>4. QED
      BY <2>4, <3>1, <3>2, <3>3
  <2>7. QED
    BY <2>5, <2>6 DEF NamesDiffer
<1>3. QED
  BY <1>1, <1>2

LEMMA SizesStep ==
    ASSUME CatalogueTyped, PicturesWithinPlan, VariantsWithinPlan, NEW r \in Clerks,
           \/ \E f : Start(r, f) /\ Begins(f)
           \/ \E f : Goes(r, f)
           \/ Declined(r) \/ Undone(r) \/ Finish(r)
    PROVE  PicturesWithinPlan' /\ VariantsWithinPlan'
<1>1. CASE UNCHANGED shelf
  BY <1>1 DEF PicturesWithinPlan, VariantsWithinPlan
<1>2. CASE ~UNCHANGED shelf
  <2>1. Declined(r) \/ Undone(r) \/ Finish(r)
    BY <1>2 DEF Start, Goes
  <2>2. PICK p : p = edit[r].product
    OBVIOUS
  <2>3. PICK row : FinishedRow(edit[r], shelf[p], row) /\ shelf' = [shelf EXCEPT ![p] = row] /\ Ends(r)
    BY <1>2, <2>1, <2>2, EndSteps
  <2>4. edit[r].kind \in {"create", "update", "delete", "drop"} /\ p \in Products /\ shelf[p] \in ShelfRow
    BY <2>2, <2>3, CatalogueRows DEF Ends, EditRow
  <2>5. shelf'[p] = row /\ \A q \in Products \ {p} : shelf'[q] = shelf[q]
    BY <2>3, <2>4, CatalogueRows
  <2>6. Cardinality(shelf[p].pictures) <= MaxPictures /\ Cardinality(shelf[p].sold) <= MaxVariants
    BY <2>4 DEF PicturesWithinPlan, VariantsWithinPlan
  <2>7. Cardinality({}) = 0
    BY FS_EmptySet
  <2>8. Cardinality(row.pictures) <= MaxPictures
    <3>1. CASE edit[r].kind = "drop"
      <4>1. row.pictures \subseteq shelf[p].pictures /\ shelf[p].pictures \in SUBSET Pictures
        BY <2>3, <2>4, <3>1 DEF FinishedRow, ShelfRow
      <4>2. Cardinality(row.pictures) <= Cardinality(shelf[p].pictures) /\ Cardinality(row.pictures) \in Nat
            /\ Cardinality(shelf[p].pictures) \in Nat
        BY <4>1, CatalogueBounds, FS_Subset
      <4>3. QED
        BY <2>6, <4>2, CatalogueBounds
    <3>2. CASE edit[r].kind = "delete"
      <4>1. row.pictures = {}
        BY <2>3, <3>2 DEF FinishedRow
      <4>2. QED
        BY <2>7, <4>1, CatalogueBounds
    <3>3. CASE edit[r].kind \in {"create", "update"}
      BY <2>3, <2>6, <3>3 DEF FinishedRow
    <3>4. QED
      BY <2>4, <3>1, <3>2, <3>3
  <2>9. Cardinality(row.sold) <= MaxVariants
    <3>1. CASE edit[r].kind = "delete"
      <4>1. row.sold = {}
        BY <2>3, <3>1 DEF FinishedRow
      <4>2. QED
        BY <2>7, <4>1, CatalogueBounds
    <3>2. CASE edit[r].kind = "drop"
      BY <2>3, <2>6, <3>2 DEF FinishedRow
    <3>3. CASE edit[r].kind \in {"create", "update"}
      BY <2>3, <2>6, <3>3 DEF FinishedRow
    <3>4. QED
      BY <2>4, <3>1, <3>2, <3>3
  <2>10. QED
    BY <2>5, <2>8, <2>9 DEF PicturesWithinPlan, VariantsWithinPlan
<1>3. QED
  BY <1>1, <1>2

\* Nobody adds a variant behind the lock of a request.
LEMMA VariantsSeenStep ==
    ASSUME CatalogueTyped, ShelfTidy, WritesLive, LocksAlone, CreatesAlone, VariantsAreSeen, NEW r \in Clerks,
           \/ \E f : Start(r, f) /\ Begins(f)
           \/ \E f : Goes(r, f)
           \/ Declined(r) \/ Undone(r) \/ Finish(r)
    PROVE  VariantsAreSeen'
<1> DEFINE Knows(e, S) == e.stage = "write" /\ "variants" \in e.asked /\ S[e.product].live
                             => e.seen.variants = S[e.product].variants
<1>1. \A q \in Busy : Knows(edit[q], shelf)
  BY DEF VariantsAreSeen, InStage, Busy
<1>2. (\A q \in Busy' : Knows(edit'[q], shelf')) => VariantsAreSeen'
  <2>1. SUFFICES ASSUME \A q \in Busy' : Knows(edit'[q], shelf'), NEW q \in Clerks, edit'[q].stage = "write"
                 PROVE  q \in Busy'
    BY DEF VariantsAreSeen, InStage
  <2>2. QED
    BY <2>1 DEF Busy, InStage
<1>3. ASSUME NEW f, Start(r, f), Begins(f)
      PROVE  VariantsAreSeen'
  <2>1. Busy' = Busy \union {r} /\ edit'[r] = f /\ (\A q \in Busy : edit'[q] = edit[q]) /\ shelf' = shelf
    BY <1>3, Beginning
  <2>2. f.stage = "write" => "variants" \notin f.asked
    BY <1>3 DEF Begins
  <2>3. QED
    BY <1>1, <1>2, <2>1, <2>2
<1>4. ASSUME NEW f, Goes(r, f)
      PROVE  VariantsAreSeen'
  <2>1. Busy' = Busy /\ edit'[r] = f /\ (\A q \in Busy \ {r} : edit'[q] = edit[q]) /\ shelf' = shelf
    BY <1>4, Going
  <2>2. f.stage = "write" /\ "variants" \in f.asked => f.seen = shelf[f.product]
    BY <1>4 DEF Goes
  <2>3. QED
    BY <1>1, <1>2, <2>1, <2>2
<1>5. CASE Declined(r) \/ Undone(r) \/ Finish(r)
  <2>1. r \in Busy /\ Busy' = Busy \ {r} /\ \A q \in Busy' : q \in Busy /\ q # r /\ edit'[q] = edit[q]
    BY <1>5, EndSteps, Ending
  <2>2. CASE UNCHANGED shelf
    BY <1>1, <1>2, <2>1, <2>2
  <2>3. CASE ~UNCHANGED shelf
    <3>1. PICK p : p = edit[r].product
      OBVIOUS
    <3>2. PICK row : FinishedRow(edit[r], shelf[p], row) /\ shelf' = [shelf EXCEPT ![p] = row] /\ Written(r)
      BY <1>5, <2>3, <3>1, EndSteps
    <3>3. edit[r].kind \in {"create", "update", "delete", "drop"} /\ p \in Products /\ RequestFits(edit[r])
      BY <2>1, <3>1, CatalogueRows DEF EditRow
    <3>4. shelf'[p] = row /\ \A q \in Products \ {p} : shelf'[q] = shelf[q]
      BY <3>2, <3>3, CatalogueRows
    <3>5. ASSUME NEW q \in Busy', NEW e, e = edit[q]
          PROVE  Knows(e, shelf')
      <4>1. q \in Busy /\ q # r /\ RequestFits(e) /\ e.product \in Products /\ Knows(e, shelf)
        BY <1>1, <2>1, <3>5, CatalogueRows DEF EditRow
      <4>2. CASE e.product # p
        BY <3>4, <4>1, <4>2
      <4>3. CASE e.product = p
        <5>1. SUFFICES ASSUME e.stage = "write", "variants" \in e.asked, row.live
                       PROVE  e.seen.variants = row.variants
          BY <3>4, <4>1, <4>3
        <5>2. <<"variants", p>> \in e.locks
          BY <4>1, <4>3, <5>1 DEF RequestFits, StageFits
        <5>3. edit[r].kind # "create"
          BY <2>1, <3>1, <3>5, <4>1, <4>3 DEF CreatesAlone
        <5>4. "variants" \notin edit[r].asked
          <6>1. SUFFICES ASSUME "variants" \in edit[r].asked
                         PROVE  <<"variants", p>> \in edit[r].locks
            BY <2>1, <3>5, <4>1, <5>2 DEF LocksAlone
          <6>2. edit[r].stage = "done"
            BY <3>2, <3>3, <5>3 DEF RequestFits, StageFits, Written
          <6>3. QED
            BY <3>1, <3>3, <6>1, <6>2 DEF RequestFits, StageFits
        <5>5. row.variants = shelf[p].variants /\ shelf[p].live
          <6>1. CASE edit[r].kind = "drop"
            BY <3>2, <5>1, <6>1 DEF FinishedRow
          <6>2. CASE edit[r].kind = "update"
            <7>1. row.variants = shelf[p].variants \union shelf[p].sold
              BY <3>2, <5>4, <6>2 DEF FinishedRow
            <7>2. shelf[p].live
              BY <2>1, <3>1, <3>2, <6>2 DEF WritesLive
            <7>3. QED
              BY <3>3, <7>1, <7>2 DEF ShelfTidy
          <6>3. QED
            BY <3>2, <3>3, <5>1, <5>3, <6>1, <6>2 DEF FinishedRow
        <5>6. QED
          BY <4>1, <4>3, <5>1, <5>5
      <4>4. QED
        BY <4>2, <4>3
    <3>6. QED
      BY <1>2, <2>1, <3>5
  <2>4. QED
    BY <2>2, <2>3
<1>6. QED
  BY <1>3, <1>4, <1>5

-----------------------------------------------------------------------------
(* The catalogue: the places of the plan.                                     *)

LEMMA OnSaleCounted ==
    ASSUME NEW S
    PROVE  OnSale(S) \in SUBSET Products
  BY DEF OnSale

LEMMA FewerOnSale ==
    ASSUME PlaceHeld, ActiveWithinPlan,
           OnSale(shelf') \ revived' \subseteq OnSale(shelf) \ revived,
           \A q \in Busy' : <<"products">> \in edit'[q].locks => \E s \in Busy : <<"products">> \in edit[s].locks
    PROVE  PlaceHeld' /\ ActiveWithinPlan'
<1>1. OnSale(shelf) \ revived \in SUBSET Products /\ OnSale(shelf') \ revived' \in SUBSET Products
  BY OnSaleCounted
<1>2. /\ Cardinality(OnSale(shelf) \ revived) \in Nat /\ Cardinality(OnSale(shelf') \ revived') \in Nat
      /\ IsFiniteSet(OnSale(shelf) \ revived)
  BY <1>1, CatalogueBounds
<1>3. Cardinality(OnSale(shelf') \ revived') <= Cardinality(OnSale(shelf) \ revived)
  BY <1>2, FS_Subset
<1>4. Cardinality(OnSale(shelf) \ revived) <= MaxProducts
  BY DEF ActiveWithinPlan
<1>5. Cardinality(OnSale(shelf') \ revived') <= MaxProducts
  BY <1>2, <1>3, <1>4, CatalogueBounds
<1>6. ASSUME NEW q \in Busy', <<"products">> \in edit'[q].locks
      PROVE  Cardinality(OnSale(shelf') \ revived') + 1 <= MaxProducts
  <2>1. Cardinality(OnSale(shelf) \ revived) + 1 <= MaxProducts
    BY <1>6 DEF PlaceHeld
  <2>2. QED
    BY <1>2, <1>3, <2>1, CatalogueBounds
<1>7. QED
  BY <1>5, <1>6 DEF PlaceHeld, ActiveWithinPlan

LEMMA OneMoreOnSale ==
    ASSUME CatalogueTyped, PlaceHeld, LocksAlone, NEW r \in Clerks, Ends(r), <<"products">> \in edit[r].locks,
           NEW p, OnSale(shelf') \ revived' \subseteq (OnSale(shelf) \ revived) \union {p}
    PROVE  PlaceHeld' /\ ActiveWithinPlan'
<1> DEFINE S == OnSale(shelf) \ revived
           T == OnSale(shelf') \ revived'
<1>1. S \in SUBSET Products /\ T \in SUBSET Products
  BY OnSaleCounted
<1>2. Cardinality(S) \in Nat /\ Cardinality(T) \in Nat /\ IsFiniteSet(S)
  BY <1>1, CatalogueBounds
<1>3. r \in Busy /\ \A q \in Busy' : q \in Busy /\ q # r /\ edit'[q] = edit[q]
  BY Ending
<1>4. Cardinality(S) + 1 <= MaxProducts
  BY <1>3 DEF PlaceHeld
<1>5. T \subseteq S \union {p}
  OBVIOUS
<1>6. Cardinality(T) <= MaxProducts
  <2> HIDE DEF S, T
  <2>1. IsFiniteSet(S \union {p}) /\ Cardinality(S \union {p}) = IF p \in S THEN Cardinality(S) ELSE Cardinality(S) + 1
    BY <1>2, FS_AddElement
  <2>2. Cardinality(T) <= Cardinality(S \union {p})
    BY <1>5, <2>1, FS_Subset
  <2>3. Cardinality(S \union {p}) \in Nat
    BY <2>1, FS_CardinalityType
  <2>4. QED
    BY <1>2, <1>4, <2>1, <2>2, <2>3, CatalogueBounds
<1>7. \A q \in Busy' : <<"products">> \notin edit'[q].locks
  BY <1>3 DEF LocksAlone
<1>8. QED
  BY <1>6, <1>7 DEF PlaceHeld, ActiveWithinPlan

LEMMA PlaceStep ==
    ASSUME CatalogueTyped, ShelfTidy, LocksAlone, PlaceHeld, ActiveWithinPlan, NEW r \in Clerks,
           \/ \E f : Start(r, f) /\ Begins(f)
           \/ \E f : Goes(r, f)
           \/ Declined(r) \/ Undone(r) \/ Finish(r)
    PROVE  PlaceHeld' /\ ActiveWithinPlan'
<1>1. ASSUME NEW f, Start(r, f), Begins(f)
      PROVE  PlaceHeld' /\ ActiveWithinPlan'
  <2>1. /\ Busy' = Busy \union {r} /\ edit'[r] = f /\ (\A q \in Busy : edit'[q] = edit[q]) /\ f.locks = {}
        /\ shelf' = shelf /\ revived' = revived
    BY <1>1, Beginning DEF Begins
  <2>2. QED
    BY <2>1 DEF PlaceHeld, ActiveWithinPlan
<1>2. ASSUME NEW f, Goes(r, f)
      PROVE  PlaceHeld' /\ ActiveWithinPlan'
  <2>1. /\ Busy' = Busy /\ r \in Busy /\ edit'[r] = f /\ (\A q \in Busy \ {r} : edit'[q] = edit[q])
        /\ shelf' = shelf /\ revived' = revived
    BY <1>2, Going
  <2>2. <<"products">> \in f.locks => Cardinality(OnSale(shelf) \ revived) + 1 <= MaxProducts
    <3>1. CASE f.locks = edit[r].locks
      BY <2>1, <3>1 DEF PlaceHeld
    <3>2. ASSUME NEW lock, f.locks = edit[r].locks \union {lock},
                 lock = <<"products">> => Cardinality(OnSale(shelf)) < MaxProducts
          PROVE  <<"products">> \in f.locks => Cardinality(OnSale(shelf) \ revived) + 1 <= MaxProducts
      <4>1. CASE <<"products">> \in edit[r].locks
        BY <2>1, <4>1 DEF PlaceHeld
      <4>2. CASE lock = <<"products">>
        <5>1. OnSale(shelf) \in SUBSET Products /\ OnSale(shelf) \ revived \in SUBSET OnSale(shelf)
          BY OnSaleCounted
        <5>2. /\ Cardinality(OnSale(shelf) \ revived) <= Cardinality(OnSale(shelf))
              /\ Cardinality(OnSale(shelf) \ revived) \in Nat /\ Cardinality(OnSale(shelf)) \in Nat
          BY <5>1, CatalogueBounds, FS_Subset
        <5>3. QED
          BY <3>2, <4>2, <5>2, CatalogueBounds
      <4>3. QED
        BY <3>2, <4>1, <4>2
    <3>3. QED
      BY <1>2, <3>1, <3>2 DEF Goes
  <2>3. QED
    BY <2>1, <2>2 DEF PlaceHeld, ActiveWithinPlan
<1>3. CASE Declined(r) \/ Undone(r) \/ Finish(r)
  <2>1. /\ Ends(r) /\ r \in Busy /\ Busy' = Busy \ {r} /\ \A q \in Busy' : q \in Busy /\ q # r /\ edit'[q] = edit[q]
    BY <1>3, EndSteps, Ending
  <2>2. PICK p : p = edit[r].product
    OBVIOUS
  <2>3. ASSUME OnSale(shelf') \ revived' \subseteq OnSale(shelf) \ revived
        PROVE  PlaceHeld' /\ ActiveWithinPlan'
    BY <2>1, <2>3, FewerOnSale
  <2>4. edit[r].kind \in {"create", "update", "delete", "drop"} /\ p \in Products
    BY <2>1, <2>2, CatalogueRows DEF EditRow
  <2>5. CASE UNCHANGED <<shelf, revived>>
    BY <2>3, <2>5
  <2>6. CASE Declined(r) /\ ~UNCHANGED shelf
    <3>1. <<"products">> \in edit[r].locks /\ UNCHANGED revived
      BY <2>1, <2>6, TurnedAway DEF Declined
    <3>2. \E row : shelf' = [shelf EXCEPT ![p] = row]
      BY <2>2, <2>6, EndSteps
    <3>3. \A q \in Products \ {p} : shelf'[q] = shelf[q]
      BY <2>4, <3>2, CatalogueRows
    <3>4. OnSale(shelf') \ revived' \subseteq (OnSale(shelf) \ revived) \union {p}
      BY <3>1, <3>3 DEF OnSale
    <3>5. QED
      BY <2>1, <3>1, <3>4, OneMoreOnSale
  <2>7. CASE Finish(r)
    <3>1. PICK row : FinishedRow(edit[r], shelf[p], row) /\ shelf' = [shelf EXCEPT ![p] = row]
      BY <2>2, <2>7, Finished
    <3>3. shelf'[p] = row /\ \A q \in Products \ {p} : shelf'[q] = shelf[q]
      BY <2>4, <3>1, CatalogueRows
    <3>4. revived' = IF ~Activated(r) THEN revived \ (IF edit[r].kind = "drop" THEN {} ELSE {p})
                     ELSE IF shelf[p].active \/ Holds(r, <<"products">>) THEN revived
                     ELSE revived \union {p}
      BY <2>2, <2>7 DEF Finish
    <3>5. CASE ~Activated(r)
      <4>1. row.live /\ row.active => edit[r].kind = "drop" /\ shelf[p].live /\ shelf[p].active
        BY <2>4, <3>1, <3>5 DEF FinishedRow, Activated
      <4>2. OnSale(shelf') \ revived' \subseteq OnSale(shelf) \ revived
        <5>1. ASSUME NEW q \in OnSale(shelf'), q \notin revived'
              PROVE  q \in OnSale(shelf) /\ q \notin revived
          BY <3>3, <3>4, <3>5, <4>1, <5>1 DEF OnSale
        <5>2. QED
          BY <5>1
      <4>3. QED
        BY <2>3, <4>2
    <3>6. CASE Activated(r) /\ shelf[p].active
      <4>1. shelf[p].live
        BY <2>4, <3>6 DEF ShelfTidy
      <4>2. OnSale(shelf') \ revived' \subseteq OnSale(shelf) \ revived
        BY <3>3, <3>4, <3>6, <4>1 DEF OnSale
      <4>3. QED
        BY <2>3, <4>2
    <3>7. CASE Activated(r) /\ ~shelf[p].active /\ Holds(r, <<"products">>)
      <4>1. OnSale(shelf') \ revived' \subseteq (OnSale(shelf) \ revived) \union {p}
        BY <3>3, <3>4, <3>7 DEF OnSale
      <4>2. <<"products">> \in edit[r].locks
        BY <3>7 DEF Holds
      <4>3. QED
        BY <2>1, <4>1, <4>2, OneMoreOnSale
    <3>8. CASE Activated(r) /\ ~shelf[p].active /\ ~Holds(r, <<"products">>)
      <4>1. OnSale(shelf') \ revived' \subseteq OnSale(shelf) \ revived
        BY <3>3, <3>4, <3>8 DEF OnSale
      <4>2. QED
        BY <2>3, <4>1
    <3>9. QED
      BY <3>5, <3>6, <3>7, <3>8
  <2>8. Declined(r) => UNCHANGED revived
    BY DEF Declined, TurnedDown
  <2>9. QED
    BY <1>3, <2>5, <2>6, <2>7, <2>8 DEF Undone
<1>4. QED
  BY <1>1, <1>2, <1>3

-----------------------------------------------------------------------------
(* The catalogue: the pictures that are stored.                               *)

StorageSound == UploadsAlone /\ RemovalsDone /\ OnTheBooks

\* One picture changes; a request goes on, or ends, or starts, with f as its row.
Marked(a, v) == asset' = [asset EXCEPT ![a] = v]

LEMMA OnePicture ==
    ASSUME CatalogueTyped, StorageSound, NEW r \in Clerks, NEW f, f = Resting \/ f \in EditRow,
           Busy' \subseteq Busy \union {r}, r \in Busy' => edit'[r] = f, \A q \in Busy' \ {r} : edit'[q] = edit[q],
           NEW a \in Pictures, NEW v, Marked(a, v),
           \A q \in Busy \ {r} : edit[q].stage \in {"send", "sent"} => edit[q].fresh # a,
           \A q \in Busy \ {r} : edit[q].stage = "removed" /\ edit[q].gone = a => v \in {"ACTIVE", "DELETED"},
           stored' = stored, a \in stored => v \in {"UPLOADING", "ACTIVE", "FAILED"},
           f.stage \in {"send", "sent"} => f.fresh = a /\ v = "UPLOADING",
           f.stage # "removed"
    PROVE  StorageSound'
<1>1. asset \in [Pictures -> {"none", "UPLOADING", "ACTIVE", "FAILED", "DELETED"}] /\ stored \subseteq Pictures
  BY CatalogueRows DEF CatalogueTyped, CatalogueTypeOK
<1>2. asset'[a] = v /\ \A b \in Pictures \ {a} : asset'[b] = asset[b]
  BY <1>1 DEF Marked
<1>3. \A q \in Busy' \ {r} : q \in Busy
  OBVIOUS
<1>4. \A q \in Busy : /\ edit[q].stage \in {"send", "sent"} => edit[q].fresh \in Pictures
                      /\ edit[q].stage = "removed" => edit[q].gone \in Pictures
  BY CatalogueRows DEF RequestFits, PicturesFit
<1>5. UploadsAlone'
  BY <1>2, <1>3, <1>4 DEF StorageSound, UploadsAlone
<1>6. RemovalsDone'
  BY <1>2, <1>3, <1>4 DEF StorageSound, RemovalsDone
<1>7. OnTheBooks'
  BY <1>1, <1>2 DEF StorageSound, OnTheBooks
<1>8. QED
  BY <1>5, <1>6, <1>7 DEF StorageSound

\* No row of a picture changes.
LEMMA SamePictures ==
    ASSUME CatalogueTyped, StorageSound, NEW r \in Clerks, NEW f, f = Resting \/ f \in EditRow,
           Busy' \subseteq Busy \union {r}, r \in Busy' => edit'[r] = f, \A q \in Busy' \ {r} : edit'[q] = edit[q],
           asset' = asset,
           f.stage \in {"send", "sent"} =>
               /\ asset[f.fresh] = "UPLOADING"
               /\ \A q \in Busy \ {r} : edit[q].stage \in {"send", "sent"} => edit[q].fresh # f.fresh,
           f.stage = "removed" => f.gone \notin stored' /\ asset[f.gone] \in {"ACTIVE", "DELETED"},
           \A a \in stored' : a \in stored \/ asset[a] = "UPLOADING"
    PROVE  StorageSound'
<1>1. \A q \in Busy' \ {r} : q \in Busy
  OBVIOUS
<1>2. UploadsAlone'
  BY <1>1 DEF StorageSound, UploadsAlone
<1>3. RemovalsDone'
  BY <1>1 DEF StorageSound, RemovalsDone
<1>4. OnTheBooks'
  BY DEF StorageSound, OnTheBooks
<1>5. QED
  BY <1>2, <1>3, <1>4 DEF StorageSound

LEMMA StorageStep ==
    ASSUME CatalogueTyped, StorageSound, NEW r \in Clerks,
           \/ \E f : Start(r, f) /\ Begins(f)
           \/ \E f : Proceeds(r, f) \/ Stores(r, f)
           \/ Declined(r) \/ Undone(r) \/ Finish(r)
    PROVE  StorageSound'
<1>1. ASSUME NEW f, Start(r, f), Begins(f)
      PROVE  StorageSound'
  <2>1. /\ Busy' = Busy \union {r} /\ edit'[r] = f /\ (\A q \in Busy : edit'[q] = edit[q])
        /\ asset' = asset /\ stored' = stored
    BY <1>1, Beginning
  <2>2. f \in EditRow /\ f.stage \notin {"send", "sent", "removed"}
    BY <1>1 DEF Begins, RequestFits
  <2>3. QED
    BY <2>1, <2>2, SamePictures
<1>2. ASSUME NEW f, Proceeds(r, f)
      PROVE  StorageSound'
  <2>1. /\ Busy' = Busy /\ edit'[r] = f /\ (\A q \in Busy \ {r} : edit'[q] = edit[q]) /\ f \in EditRow
        /\ asset' = asset /\ stored' = stored /\ f.stage \notin {"send", "sent", "removed"}
    BY <1>2, Going DEF Proceeds, RequestFits
  <2>2. QED
    BY <2>1, SamePictures
<1>3. ASSUME NEW f, Stores(r, f)
      PROVE  StorageSound'
  <2>1. /\ Busy' = Busy /\ r \in Busy /\ edit'[r] = f /\ (\A q \in Busy \ {r} : edit'[q] = edit[q]) /\ f \in EditRow
        /\ RequestFits(f) /\ RequestFits(edit[r])
    BY <1>3, Going, CatalogueRows DEF Stores, RequestFits
  <2>2. asset \in [Pictures -> {"none", "UPLOADING", "ACTIVE", "FAILED", "DELETED"}]
    BY CatalogueRows
  <2>3. /\ \A q \in Busy : edit[q].stage \in {"send", "sent"} => asset[edit[q].fresh] = "UPLOADING"
        /\ \A q \in Busy : edit[q].stage = "removed" =>
              edit[q].gone \notin stored /\ asset[edit[q].gone] \in {"ACTIVE", "DELETED"}
        /\ \A q \in Busy \ {r} : edit[r].stage \in {"send", "sent"} /\ edit[q].stage \in {"send", "sent"} =>
              edit[q].fresh # edit[r].fresh
        /\ \A a \in stored : asset[a] \in {"UPLOADING", "ACTIVE", "FAILED"}
    BY <2>1 DEF StorageSound, UploadsAlone, RemovalsDone, OnTheBooks
  <2>4. CASE /\ f.stage = "send" /\ f.fresh \in Unseen
             /\ asset' = [asset EXCEPT ![f.fresh] = "UPLOADING"] /\ UNCHANGED stored
    <3>1. PICK a : a = f.fresh
      OBVIOUS
    <3>2. a \in Pictures /\ asset[a] = "none" /\ asset' = [asset EXCEPT ![a] = "UPLOADING"]
      BY <2>4, <3>1 DEF Unseen
    <3>3. /\ \A q \in Busy \ {r} : edit[q].stage \in {"send", "sent"} => edit[q].fresh # a
          /\ \A q \in Busy \ {r} : ~(edit[q].stage = "removed" /\ edit[q].gone = a)
      BY <2>3, <3>2
    <3>4. PICK v : v = "UPLOADING"
      OBVIOUS
    <3>5. /\ Marked(a, v) /\ f.fresh = a /\ v = "UPLOADING" /\ f.stage # "removed"
          /\ stored' = stored
      BY <2>4, <3>1, <3>2, <3>4 DEF Marked
    <3>6. QED
      BY <2>1, <3>2, <3>3, <3>4, <3>5, OnePicture
  <2>5. CASE /\ edit[r].stage = "send" /\ f.stage = "sent" /\ f.fresh = edit[r].fresh /\ f.fresh \in Pictures
             /\ stored' = stored \union {f.fresh} /\ UNCHANGED asset
    <3>1. asset[f.fresh] = "UPLOADING" /\ \A q \in Busy \ {r} : edit[q].stage \in {"send", "sent"} => edit[q].fresh # f.fresh
      BY <2>1, <2>3, <2>5
    <3>2. \A a \in stored' : a \in stored \/ asset[a] = "UPLOADING"
      BY <2>5, <3>1
    <3>3. QED
      BY <2>1, <2>5, <3>1, <3>2, SamePictures
  <2>6. CASE /\ edit[r].stage = "sent" /\ f.stage \in {"done", "remove"} /\ f.fresh = edit[r].fresh
             /\ asset' = [asset EXCEPT ![f.fresh] = "ACTIVE"] /\ UNCHANGED stored
    <3>1. PICK a : a = f.fresh
      OBVIOUS
    <3>2. a \in Pictures /\ asset[a] = "UPLOADING" /\ asset' = [asset EXCEPT ![a] = "ACTIVE"]
      BY <2>1, <2>3, <2>6, <3>1 DEF RequestFits, PicturesFit
    <3>3. \A q \in Busy \ {r} : edit[q].stage \in {"send", "sent"} => edit[q].fresh # a
      BY <2>3, <2>6, <3>1
    <3>4. PICK v : v = "ACTIVE"
      OBVIOUS
    <3>5. Marked(a, v) /\ f.stage \notin {"send", "sent", "removed"} /\ stored' = stored
      BY <2>6, <3>2, <3>4 DEF Marked
    <3>6. QED
      BY <2>1, <3>2, <3>3, <3>4, <3>5, OnePicture
  <2>7. CASE /\ f.stage = "removed" /\ asset[f.gone] = "ACTIVE" /\ f.gone \in Pictures
             /\ stored' = stored \ {f.gone} /\ UNCHANGED asset
    BY <2>1, <2>7, SamePictures
  <2>8. CASE /\ edit[r].stage = "removed" /\ f.stage = "remove" /\ f.gone = edit[r].gone
             /\ asset' = [asset EXCEPT ![f.gone] = IF @ = "ACTIVE" THEN "DELETED" ELSE @] /\ UNCHANGED stored
    <3>1. PICK a : a = f.gone
      OBVIOUS
    <3>2. a \in Pictures /\ asset[a] \in {"ACTIVE", "DELETED"} /\ a \notin stored
      BY <2>1, <2>3, <2>8, <3>1 DEF RequestFits, PicturesFit
    <3>3. asset' = [asset EXCEPT ![a] = "DELETED"]
      BY <2>2, <2>8, <3>1, <3>2
    <3>4. \A q \in Busy \ {r} : edit[q].stage \in {"send", "sent"} => edit[q].fresh # a
      BY <2>3, <3>2
    <3>5. PICK v : v = "DELETED"
      OBVIOUS
    <3>6. Marked(a, v) /\ f.stage \notin {"send", "sent", "removed"} /\ stored' = stored
      BY <2>8, <3>3, <3>5 DEF Marked
    <3>7. QED
      BY <2>1, <3>2, <3>4, <3>5, <3>6, OnePicture
  <2>9. QED
    BY <1>3, <2>4, <2>5, <2>6, <2>7, <2>8 DEF Stores
<1>4. CASE Declined(r) \/ Undone(r) \/ Finish(r)
  <2>1. /\ r \in Busy /\ Busy' = Busy \ {r} /\ \A q \in Busy' : q \in Busy /\ q # r /\ edit'[q] = edit[q]
    BY <1>4, EndSteps, Ending
  <2>2. stored' = stored
    BY <1>4, ShelfSteps
  <2>3. Resting.stage = "idle"
    BY CatalogueRows
  <2>4. CASE UNCHANGED asset
    BY <2>1, <2>2, <2>3, <2>4, SamePictures
  <2>5. CASE ~UNCHANGED asset
    <3>1. edit[r].stage \in {"send", "sent"} /\ asset' = [asset EXCEPT ![edit[r].fresh] = "FAILED"]
      BY <1>4, <2>5 DEF Declined, Undone, Finish
    <3>2. PICK a : a = edit[r].fresh
      OBVIOUS
    <3>3. a \in Pictures /\ asset' = [asset EXCEPT ![a] = "FAILED"] /\ asset[a] = "UPLOADING"
      BY <2>1, <3>1, <3>2, CatalogueRows DEF RequestFits, PicturesFit, StorageSound, UploadsAlone
    <3>4. /\ \A q \in Busy \ {r} : edit[q].stage \in {"send", "sent"} => edit[q].fresh # a
          /\ \A q \in Busy \ {r} : ~(edit[q].stage = "removed" /\ edit[q].gone = a)
      BY <2>1, <3>1, <3>2, <3>3 DEF StorageSound, UploadsAlone, RemovalsDone
    <3>5. PICK v, f : v = "FAILED" /\ f = Resting
      OBVIOUS
    <3>6. /\ Marked(a, v) /\ f.stage \notin {"send", "sent", "removed"}
          /\ Busy' \subseteq Busy \union {r} /\ (r \in Busy' => edit'[r] = f) /\ \A q \in Busy' \ {r} : edit'[q] = edit[q]
      BY <2>1, <2>3, <3>3, <3>5 DEF Marked
    <3>7. QED
      BY <2>2, <3>3, <3>4, <3>5, <3>6, OnePicture
  <2>6. QED
    BY <2>4, <2>5
<1>5. QED
  BY <1>1, <1>2, <1>3, <1>4

\* What counts once, and what counts once more.
Small == Counted({"UPLOADING", "ACTIVE"}, 1)
Large == Counted({"UPLOADING", "ACTIVE"}, 2)

LEMMA StorageCounts ==
    /\ Used = Cardinality(Small) + Cardinality(Large)
    /\ StorageHeld <=> Cardinality(Small) + Cardinality(Large) + Cardinality(OnTheWay) <= MaxStorage + Cardinality(Clerks)
    /\ Small \in SUBSET Pictures /\ Large \in SUBSET Pictures /\ OnTheWay \in SUBSET Clerks
<1>1. Small \in SUBSET Pictures /\ Large \in SUBSET Pictures /\ OnTheWay \in SUBSET Clerks
  BY DEF Small, Large, Counted, OnTheWay
<1>2. /\ Used = Cardinality(Small) + Cardinality(Large)
      /\ StorageHeld <=> Cardinality(Small) + Cardinality(Large) + Cardinality(OnTheWay) <= MaxStorage + Cardinality(Clerks)
  BY DEF Used, StorageHeld, BytesOf, Small, Large
<1>3. QED
  BY <1>1, <1>2

\* What may count after a step: no more than before; one picture more, while there
\* was room; or the rest of a picture whose request is no longer sending.
LEMMA StorageRoom ==
    ASSUME StorageHeld, NEW small \in SUBSET Pictures, NEW large \in SUBSET Pictures, NEW going \in SUBSET Clerks,
           \/ small \subseteq Small /\ large \subseteq Large /\ going \subseteq OnTheWay
           \/ Used < MaxStorage /\ large \subseteq Large /\ \E a \in Pictures : small \subseteq Small \union {a}
           \/ /\ small \subseteq Small /\ \E a \in Pictures : large \subseteq Large \union {a}
              /\ \E r \in OnTheWay : going \subseteq OnTheWay \ {r}
    PROVE  Cardinality(small) + Cardinality(large) + Cardinality(going) <= MaxStorage + Cardinality(Clerks)
<1>1. IsFiniteSet(Pictures) /\ IsFiniteSet(Clerks)
  BY CatalogueAssumption
<1>2. IsFiniteSet(Small) /\ IsFiniteSet(Large) /\ IsFiniteSet(OnTheWay)
  <2>1. Small \in SUBSET Pictures /\ Large \in SUBSET Pictures /\ OnTheWay \in SUBSET Clerks
    BY StorageCounts
  <2>2. QED
    BY <1>1, <2>1, FS_Subset
<1>3. ASSUME NEW S, IsFiniteSet(S), NEW T, T \subseteq S
      PROVE  IsFiniteSet(T) /\ Cardinality(T) <= Cardinality(S) /\ Cardinality(T) \in Nat /\ Cardinality(S) \in Nat
  BY <1>3, FS_Subset, FS_CardinalityType
<1>4. ASSUME NEW S, IsFiniteSet(S), NEW a, NEW T, T \subseteq S \union {a}
      PROVE  Cardinality(T) <= Cardinality(S) + 1
  <2>1. /\ IsFiniteSet(S \union {a}) /\ Cardinality(S) \in Nat
        /\ Cardinality(S \union {a}) = Cardinality(S) \/ Cardinality(S \union {a}) = Cardinality(S) + 1
    BY <1>4, FS_AddElement, FS_CardinalityType
  <2>2. Cardinality(T) <= Cardinality(S \union {a}) /\ Cardinality(T) \in Nat
    BY <1>3, <1>4, <2>1
  <2>3. QED
    BY <2>1, <2>2
<1>5. ASSUME NEW r \in OnTheWay
      PROVE  Cardinality(OnTheWay \ {r}) = Cardinality(OnTheWay) - 1
  BY <1>2, FS_RemoveElement
<1>6. /\ Cardinality(Small) \in Nat /\ Cardinality(Large) \in Nat /\ Cardinality(OnTheWay) \in Nat /\ Cardinality(Clerks) \in Nat
      /\ Cardinality(small) \in Nat /\ Cardinality(large) \in Nat /\ Cardinality(going) \in Nat
      /\ Cardinality(going) <= Cardinality(Clerks) /\ MaxStorage \in Nat
  BY <1>1, <1>2, <1>3, CatalogueBounds
<1>7. /\ Cardinality(Small) + Cardinality(Large) + Cardinality(OnTheWay) <= MaxStorage + Cardinality(Clerks)
      /\ Used = Cardinality(Small) + Cardinality(Large)
  BY StorageCounts
<1>8. CASE small \subseteq Small /\ large \subseteq Large /\ going \subseteq OnTheWay
  <2>1. Cardinality(small) <= Cardinality(Small) /\ Cardinality(large) <= Cardinality(Large)
        /\ Cardinality(going) <= Cardinality(OnTheWay)
    BY <1>2, <1>3, <1>8
  <2>2. QED
    BY <1>6, <1>7, <2>1
<1>9. CASE Used < MaxStorage /\ large \subseteq Large /\ \E a \in Pictures : small \subseteq Small \union {a}
  <2>1. Cardinality(small) <= Cardinality(Small) + 1 /\ Cardinality(large) <= Cardinality(Large)
    BY <1>2, <1>3, <1>4, <1>9
  <2>2. QED
    BY <1>6, <1>7, <1>9, <2>1
<1>10. CASE /\ small \subseteq Small /\ \E a \in Pictures : large \subseteq Large \union {a}
            /\ \E r \in OnTheWay : going \subseteq OnTheWay \ {r}
  <2>1. Cardinality(small) <= Cardinality(Small) /\ Cardinality(large) <= Cardinality(Large) + 1
    BY <1>2, <1>3, <1>4, <1>10
  <2>2. PICK r \in OnTheWay : going \subseteq OnTheWay \ {r}
    BY <1>10
  <2>3. IsFiniteSet(OnTheWay \ {r})
    BY <1>2, FS_Subset
  <2>4. Cardinality(going) <= Cardinality(OnTheWay \ {r})
    BY <1>3, <2>2, <2>3
  <2>5. Cardinality(OnTheWay \ {r}) = Cardinality(OnTheWay) - 1
    BY <1>5
  <2>6. QED
    BY <1>6, <1>7, <2>1, <2>4, <2>5
<1>11. QED
  BY <1>8, <1>9, <1>10

LEMMA StorageHeldStep ==
    ASSUME CatalogueTyped, StorageSound, Weighed, StorageHeld, NEW r \in Clerks,
           \/ \E f : Start(r, f) /\ Begins(f)
           \/ \E f : Proceeds(r, f) \/ Stores(r, f)
           \/ Declined(r) \/ Undone(r) \/ Finish(r)
    PROVE  Weighed' /\ StorageHeld'
<1>1. asset \in [Pictures -> {"none", "UPLOADING", "ACTIVE", "FAILED", "DELETED"}] /\ bytes \in [Pictures -> 0..2]
  BY CatalogueRows
<1>2. /\ \A q \in Clerks : q \in Busy \/ edit[q].stage = "idle"
      /\ OnTheWay = {q \in Busy : edit[q].stage \in {"send", "sent"}}
  BY CatalogueRows DEF OnTheWay, Busy, InStage
<1>3. PICK small, large, going : small = Small' /\ large = Large' /\ going = OnTheWay'
  OBVIOUS
<1>4. /\ small = {a \in Pictures : asset'[a] \in {"UPLOADING", "ACTIVE"} /\ bytes'[a] >= 1}
      /\ large = {a \in Pictures : asset'[a] \in {"UPLOADING", "ACTIVE"} /\ bytes'[a] >= 2}
      /\ going = {q \in Clerks : edit'[q].stage \in {"send", "sent"}}
  BY <1>3 DEF Small, Large, Counted, OnTheWay
<1>5. small \in SUBSET Pictures /\ large \in SUBSET Pictures /\ going \in SUBSET Clerks
  BY <1>4
<1>6. ASSUME \/ small \subseteq Small /\ large \subseteq Large /\ going \subseteq OnTheWay
             \/ Used < MaxStorage /\ large \subseteq Large /\ \E a \in Pictures : small \subseteq Small \union {a}
             \/ /\ small \subseteq Small /\ \E a \in Pictures : large \subseteq Large \union {a}
                /\ \E q \in OnTheWay : going \subseteq OnTheWay \ {q}
      PROVE  StorageHeld'
  <2>1. Cardinality(small) + Cardinality(large) + Cardinality(going) <= MaxStorage + Cardinality(Clerks)
    BY <1>5, <1>6, StorageRoom
  <2>2. StorageHeld' <=> Cardinality(Small') + Cardinality(Large') + Cardinality(OnTheWay') <= MaxStorage + Cardinality(Clerks)
    BY DEF StorageHeld, BytesOf, Small, Large
  <2>3. QED
    BY <1>3, <2>1, <2>2
<1>7. ASSUME bytes' = bytes, \A a \in Pictures : asset'[a] = asset[a] \/ asset'[a] \notin {"UPLOADING", "ACTIVE"},
             going \subseteq OnTheWay
      PROVE  Weighed' /\ StorageHeld'
  <2>1. small \subseteq Small /\ large \subseteq Large
    BY <1>4, <1>7 DEF Small, Large, Counted
  <2>2. Weighed'
    BY <1>7 DEF Weighed
  <2>3. QED
    BY <1>6, <1>7, <2>1, <2>2
<1>8. CASE \E f : Start(r, f) /\ Begins(f)
  <2>1. PICK f : Start(r, f) /\ Begins(f)
    BY <1>8
  <2>2. /\ edit'[r] = f /\ f.stage \notin {"send", "sent"} /\ \A q \in Clerks \ {r} : edit'[q] = edit[q]
    BY <2>1 DEF Start, Begins, CatalogueTyped
  <2>3. going \subseteq OnTheWay /\ UNCHANGED <<asset, bytes>>
    BY <1>4, <2>1, <2>2 DEF Start, OnTheWay
  <2>4. QED
    BY <1>7, <2>3
<1>9. CASE \E f : Proceeds(r, f)
  <2>1. PICK f : Proceeds(r, f)
    BY <1>9
  <2>2. /\ edit'[r] = f /\ f.stage \notin {"send", "sent"} /\ \A q \in Clerks \ {r} : edit'[q] = edit[q]
    BY <2>1 DEF Proceeds, Goes, CatalogueTyped
  <2>3. going \subseteq OnTheWay /\ UNCHANGED <<asset, bytes>>
    BY <1>4, <2>1, <2>2 DEF Proceeds, OnTheWay
  <2>4. QED
    BY <1>7, <2>3
<1>10. CASE Declined(r) \/ Undone(r) \/ Finish(r)
  <2>1. Ends(r) /\ bytes' = bytes
    BY <1>10, ShelfSteps
  <2>2. edit'[r] = Resting /\ \A q \in Clerks \ {r} : edit'[q] = edit[q]
    BY <2>1 DEF Ends, CatalogueTyped
  <2>3. going \subseteq OnTheWay
    BY <1>4, <2>2, CatalogueRows DEF OnTheWay
  <2>4. asset' = asset \/ asset' = [asset EXCEPT ![edit[r].fresh] = "FAILED"]
    BY <1>10 DEF Declined, Undone, Finish
  <2>5. \A a \in Pictures : asset'[a] = asset[a] \/ asset'[a] \notin {"UPLOADING", "ACTIVE"}
    BY <1>1, <2>4
  <2>6. QED
    BY <1>7, <2>1, <2>3, <2>5
<1>11. ASSUME NEW f, Stores(r, f)
       PROVE  Weighed' /\ StorageHeld'
  <2>1. /\ r \in Busy /\ RequestFits(edit[r]) /\ edit'[r] = f /\ RequestFits(f) /\ \A q \in Clerks \ {r} : edit'[q] = edit[q]
    BY <1>11, CatalogueRows DEF Stores, Goes, CatalogueTyped
  <2>2. CASE /\ f.stage = "send" /\ f.fresh \in Unseen /\ Used < MaxStorage
             /\ asset' = [asset EXCEPT ![f.fresh] = "UPLOADING"] /\ bytes' = [bytes EXCEPT ![f.fresh] = 1]
    <3>1. PICK a : a = f.fresh
      OBVIOUS
    <3>2. /\ a \in Pictures /\ asset'[a] = "UPLOADING" /\ bytes'[a] = 1
          /\ \A b \in Pictures \ {a} : asset'[b] = asset[b] /\ bytes'[b] = bytes[b]
      BY <1>1, <2>2, <3>1 DEF Unseen
    <3>3. small \subseteq Small \union {a}
      BY <1>4, <3>2 DEF Small, Counted
    <3>4. large \subseteq Large
      BY <1>4, <3>2 DEF Large, Counted
    <3>5. Weighed'
      BY <3>2 DEF Weighed
    <3>6. QED
      BY <1>6, <2>2, <3>2, <3>3, <3>4, <3>5
  <2>3. CASE edit[r].stage = "sent" /\ f.stage \in {"done", "remove"} /\ f.fresh = edit[r].fresh
             /\ asset' = [asset EXCEPT ![f.fresh] = "ACTIVE"] /\ Sized(f.fresh)
    <3>1. PICK a : a = f.fresh
      OBVIOUS
    <3>2. a \in Pictures /\ asset[a] = "UPLOADING" /\ bytes[a] = 1
      BY <2>1, <2>3, <3>1 DEF RequestFits, PicturesFit, StorageSound, UploadsAlone, Weighed
    <3>3. /\ asset'[a] = "ACTIVE" /\ \A b \in Pictures \ {a} : asset'[b] = asset[b] /\ bytes'[b] = bytes[b]
      BY <1>1, <2>3, <3>1, <3>2 DEF Sized
    <3>4. a \in Small
      BY <3>2 DEF Small, Counted
    <3>5. small \subseteq Small
      BY <1>4, <3>3, <3>4 DEF Small, Counted
    <3>6. large \subseteq Large \union {a}
      BY <1>4, <3>3 DEF Large, Counted
    <3>7. r \in OnTheWay /\ going \subseteq OnTheWay \ {r}
      BY <1>4, <2>1, <2>3 DEF OnTheWay
    <3>8. Weighed'
      BY <3>2, <3>3 DEF Weighed
    <3>9. QED
      BY <1>6, <3>2, <3>5, <3>6, <3>7, <3>8
  <2>4. CASE \/ /\ edit[r].stage = "send" /\ f.stage = "sent" /\ UNCHANGED <<asset, bytes>>
             \/ f.stage = "removed" /\ UNCHANGED <<asset, bytes>>
    <3>1. going \subseteq OnTheWay
      BY <1>4, <2>1, <2>4 DEF OnTheWay
    <3>2. QED
      BY <1>7, <2>4, <3>1
  <2>5. CASE /\ edit[r].stage = "removed" /\ f.stage = "remove" /\ f.gone = edit[r].gone
             /\ asset' = [asset EXCEPT ![f.gone] = IF @ = "ACTIVE" THEN "DELETED" ELSE @] /\ UNCHANGED bytes
    <3>1. going \subseteq OnTheWay
      BY <1>4, <2>1, <2>5 DEF OnTheWay
    <3>2. \A a \in Pictures : asset'[a] = asset[a] \/ asset'[a] \notin {"UPLOADING", "ACTIVE"}
      BY <1>1, <2>5
    <3>3. QED
      BY <1>7, <2>5, <3>1, <3>2
  <2>6. QED
    BY <1>11, <2>2, <2>3, <2>4, <2>5 DEF Stores
<1>12. QED
  BY <1>8, <1>9, <1>10, <1>11

-----------------------------------------------------------------------------
(* The catalogue: together.                                                   *)

LEMMA CatalogueKeptStep ==
    ASSUME CatalogueTyped, CatalogueKept, CatalogueNext
    PROVE  CatalogueKept'
<1>1. /\ LocksAlone /\ WritersAlone /\ WritesLive /\ CreatesAlone /\ ShelfTidy /\ PlaceHeld
      /\ ActiveWithinPlan /\ PicturesWithinPlan /\ VariantsWithinPlan /\ VariantsAreSeen /\ NamesDiffer
  BY DEF CatalogueKept, ShelvesHold
<1>2. StorageSound
  BY DEF CatalogueKept, ShelvesHold, StorageSound
<1>3. PICK r \in Clerks :
         \/ \E f : Start(r, f) /\ Begins(f)
         \/ \E f : Proceeds(r, f) \/ Stores(r, f)
         \/ Declined(r) \/ Undone(r) \/ Finish(r)
  BY <1>1, CatalogueSteps
<1>4. \/ \E f : Start(r, f) /\ Begins(f)
      \/ \E f : Goes(r, f)
      \/ Declined(r) \/ Undone(r) \/ Finish(r)
  BY <1>3 DEF Proceeds, Stores
<1>5. Declined(r) \/ Undone(r) \/ Finish(r) =>
         Ends(r) /\ (shelf' = shelf \/ \E row : shelf' = [shelf EXCEPT ![edit[r].product] = row])
  BY EndSteps
<1>6. LocksAlone' /\ WritersAlone'
  <2>1. (\E f : Start(r, f) /\ Begins(f)) \/ (\E f : Goes(r, f)) \/ Ends(r)
    BY <1>4, <1>5
  <2>2. QED
    BY <1>1, <2>1, LocksAloneStep, WritersAloneStep
<1>7. CreatesAlone'
  <2>1. \/ \E f : Start(r, f) /\ Begins(f)
        \/ \E f : Goes(r, f)
        \/ /\ Ends(r)
           /\ shelf' = shelf \/ \E row : shelf' = [shelf EXCEPT ![edit[r].product] = row]
    BY <1>4, <1>5
  <2>2. QED
    BY <1>1, <2>1, CreatesAloneStep
<1>8. ShelfTidy' /\ WritesLive'
  BY <1>1, <1>4, ShelfTidyStep, WritesLiveStep
<1>9. NamesDiffer' /\ PicturesWithinPlan' /\ VariantsWithinPlan'
  BY <1>1, <1>4, NamesDifferStep, SizesStep
<1>10. VariantsAreSeen'
  BY <1>1, <1>4, VariantsSeenStep
<1>11. PlaceHeld' /\ ActiveWithinPlan'
  BY <1>1, <1>4, PlaceStep
<1>12. StorageSound'
  BY <1>2, <1>3, StorageStep
<1>13. Weighed' /\ StorageHeld'
  <2>1. Weighed /\ StorageHeld
    BY DEF CatalogueKept, ShelvesHold
  <2>2. QED
    BY <1>2, <1>3, <2>1, StorageHeldStep
<1>14. QED
  BY <1>6, <1>7, <1>8, <1>9, <1>10, <1>11, <1>12, <1>13 DEF CatalogueKept, ShelvesHold, StorageSound

LEMMA InitCatalogue ==
    ASSUME CatalogueInit
    PROVE  CatalogueTyped /\ CatalogueKept
<1> DEFINE Shown1(n, a, k) == [OnShelf([active |-> TRUE, name |-> n]) EXCEPT !.pictures = {a}, !.sold = {k}, !.variants = {k}]
<1>1. PICK p \in Products, n \in ProductNames, a \in Pictures, k \in VariantKeys :
         /\ shelf = [q \in Products |-> IF q # p THEN Absent ELSE Shown1(n, a, k)]
         /\ asset = [b \in Pictures |-> IF b = a THEN "ACTIVE" ELSE "none"]
         /\ bytes = [b \in Pictures |-> IF b = a THEN 1 ELSE 0]
         /\ stored = {a}
  BY DEF CatalogueInit
<1>2. edit = [r \in Clerks |-> Resting] /\ edits = 0 /\ revived = {}
  BY DEF CatalogueInit
<1>3. Busy = {} /\ Cardinality(Busy) = 0
  <2>1. Busy = {}
    BY <1>2 DEF Busy, InStage, Resting
  <2>2. QED
    BY <2>1, FS_EmptySet
<1>4. PICK here : here = Shown1(n, a, k)
  OBVIOUS
<1>5. /\ here \in ShelfRow /\ here.live /\ here.pictures = {a} /\ here.sold = {k} /\ here.variants = {k} /\ here.batch = 0
  <2>1. 0 \in 0..MaxEdits
    BY CatalogueBounds
  <2>2. here = [live |-> TRUE, active |-> TRUE, name |-> n, pictures |-> {a}, batch |-> 0, sold |-> {k}, variants |-> {k}]
    BY <1>4 DEF OnShelf
  <2>3. here.live /\ here.pictures = {a} /\ here.sold = {k} /\ here.variants = {k} /\ here.batch = 0
    BY <2>2
  <2>4. here \in ShelfRow
    BY <1>1, <2>1, <2>2 DEF ShelfRow
  <2>5. QED
    BY <2>3, <2>4
<1>6. /\ Absent \in ShelfRow /\ ~Absent.live /\ ~Absent.active /\ Absent.pictures = {} /\ Absent.sold = {}
      /\ Absent.variants = {} /\ Absent.batch = 0
  <2>1. (CHOOSE m \in ProductNames : TRUE) \in ProductNames
    BY <1>1
  <2>2. QED
    BY <2>1, CatalogueBounds DEF Absent, ShelfRow
<1>7. shelf \in [Products -> ShelfRow] /\ \A q \in Products : shelf[q] = IF q # p THEN Absent ELSE here
  BY <1>1, <1>4, <1>5, <1>6
<1>8. CatalogueTyped
  <2>1. asset \in [Pictures -> {"none", "UPLOADING", "ACTIVE", "FAILED", "DELETED"}]
    BY <1>1
  <2>2. edits \in 0..MaxEdits
    BY <1>2, CatalogueBounds
  <2>3. CatalogueTypeOK
    <3>1. bytes \in [Pictures -> 0..2]
      BY <1>1
    <3>2. QED
      BY <1>1, <1>2, <1>7, <2>1, <2>2, <3>1 DEF CatalogueTypeOK, ShelfRow
  <2>4. BatchesCounted
    BY <1>2, <1>3, <1>5, <1>6, <1>7 DEF BatchesCounted
  <2>5. QED
    BY <1>1, <1>2, <2>3, <2>4 DEF CatalogueTyped
<1>9. LocksAlone /\ WritersAlone /\ WritesLive /\ CreatesAlone /\ PlaceHeld /\ UploadsAlone /\ RemovalsDone
  BY <1>3 DEF LocksAlone, WritersAlone, WritesLive, CreatesAlone, PlaceHeld, UploadsAlone, RemovalsDone
<1>10. ShelfTidy
  BY <1>5, <1>6, <1>7 DEF ShelfTidy
<1>11. \A x : Cardinality({x}) = 1
  BY FS_Singleton
<1>12. Cardinality({}) = 0
  BY FS_EmptySet
<1>13. ActiveWithinPlan
  <2>1. OnSale(shelf) \ revived \subseteq {p}
    BY <1>6, <1>7 DEF OnSale
  <2>2. IsFiniteSet({p}) /\ {p} \in SUBSET Products
    BY <1>1, FS_Singleton
  <2>3. Cardinality(OnSale(shelf) \ revived) <= Cardinality({p}) /\ Cardinality(OnSale(shelf) \ revived) \in Nat
    BY <2>1, <2>2, FS_Subset, FS_CardinalityType
  <2>4. Cardinality({p}) = 1
    BY <1>11
  <2>5. Cardinality(OnSale(shelf) \ revived) <= 1 /\ 1 <= MaxProducts /\ MaxProducts \in Nat
    BY <2>3, <2>4, CatalogueBounds
  <2>6. \A n1, n2 \in Nat : n1 <= 1 /\ 1 <= n2 => n1 <= n2
    OBVIOUS
  <2>7. QED
    BY <2>3, <2>5, <2>6 DEF ActiveWithinPlan
<1>14. PicturesWithinPlan /\ VariantsWithinPlan
  <2>1. ASSUME NEW q \in Products
        PROVE  Cardinality(shelf[q].pictures) \in {0, 1} /\ Cardinality(shelf[q].sold) \in {0, 1}
    <3>1. Cardinality({a}) = 1 /\ Cardinality({k}) = 1
      BY <1>11
    <3>2. shelf[q].pictures \in {{}, {a}} /\ shelf[q].sold \in {{}, {k}}
      BY <1>5, <1>6, <1>7
    <3>3. QED
      BY <1>12, <3>1, <3>2
  <2>2. QED
    BY <2>1, CatalogueBounds DEF PicturesWithinPlan, VariantsWithinPlan
<1>15. VariantsAreSeen
  BY <1>2 DEF VariantsAreSeen, InStage, Resting
<1>16. Weighed /\ StorageHeld
  <2>1. Small = {a} /\ Large = {} /\ OnTheWay = {}
    BY <1>1, <1>2 DEF Small, Large, Counted, OnTheWay, Resting
  <2>2. Cardinality(Small) = 1 /\ Cardinality(Large) = 0 /\ Cardinality(OnTheWay) = 0
    BY <1>11, <1>12, <2>1
  <2>3. Cardinality(Clerks) \in Nat /\ MaxStorage \in Nat /\ 1 <= MaxStorage
    BY CatalogueAssumption, CatalogueBounds, FS_CardinalityType
  <2>4. StorageHeld
    BY <2>2, <2>3, StorageCounts
  <2>5. Weighed
    BY <1>1 DEF Weighed
  <2>6. QED
    BY <2>4, <2>5
<1>17. NamesDiffer
  BY <1>6, <1>7 DEF NamesDiffer
<1>18. OnTheBooks
  BY <1>1 DEF OnTheBooks
<1>19. QED
  BY <1>8, <1>9, <1>10, <1>13, <1>14, <1>15, <1>16, <1>17, <1>18 DEF CatalogueKept, ShelvesHold

LEMMA CatalogueStays ==
    ASSUME CatalogueTyped, CatalogueKept, UNCHANGED catalogueVars
    PROVE  CatalogueTyped' /\ CatalogueKept'
<1>1. /\ shelf' = shelf /\ asset' = asset /\ bytes' = bytes /\ stored' = stored /\ edit' = edit /\ edits' = edits
      /\ revived' = revived
  BY DEF catalogueVars
<1>2. Busy' = Busy /\ OnSale(shelf)' = OnSale(shelf)
  BY <1>1 DEF Busy, InStage, OnSale
<1>3. CatalogueTyped'
  BY <1>1, <1>2 DEF CatalogueTyped, CatalogueTypeOK, BatchesCounted, RequestFits, CreateFits, StageFits, PicturesFit
<1>4. LocksAlone' /\ WritersAlone' /\ PlaceHeld' /\ CreatesAlone' /\ WritesLive'
  BY <1>1, <1>2 DEF CatalogueKept, LocksAlone, WritersAlone, PlaceHeld, CreatesAlone, WritesLive, Written, Taken
<1>5. ShelfTidy' /\ UploadsAlone' /\ RemovalsDone'
  BY <1>1, <1>2 DEF CatalogueKept, ShelfTidy, UploadsAlone, RemovalsDone
<1>6. ActiveWithinPlan' /\ PicturesWithinPlan' /\ VariantsWithinPlan' /\ StorageHeld' /\ Weighed'
  BY <1>1, <1>2 DEF CatalogueKept, ShelvesHold, ActiveWithinPlan, PicturesWithinPlan, VariantsWithinPlan, StorageHeld,
                    BytesOf, Counted, OnTheWay, Weighed
<1>7. VariantsAreSeen' /\ NamesDiffer' /\ OnTheBooks'
  BY <1>1 DEF CatalogueKept, ShelvesHold, VariantsAreSeen, NamesDiffer, OnTheBooks, InStage
<1>8. QED
  BY <1>3, <1>4, <1>5, <1>6, <1>7 DEF CatalogueKept, ShelvesHold

LEMMA CatalogueIsKept == AccountsSpec => [](CatalogueTyped /\ CatalogueKept)
<1> DEFINE Kept == CatalogueTyped /\ CatalogueKept
<1>1. AccountsInit => Kept
  BY InitCatalogue DEF AccountsInit
<1>2. Kept /\ [AccountsNext]_accountsVars => Kept'
  <2>1. SUFFICES ASSUME CatalogueTyped, CatalogueKept, [AccountsNext]_accountsVars
                 PROVE  CatalogueTyped' /\ CatalogueKept'
    OBVIOUS
  <2>2. CASE CatalogueNext
    <3>1. ShelfTidy
      BY <2>1 DEF CatalogueKept
    <3>2. QED
      BY <2>1, <2>2, <3>1, CatalogueStepTyped, CatalogueKeptStep
  <2>3. CASE UNCHANGED catalogueVars
    BY <2>1, <2>3, CatalogueStays
  <2>4. QED
    BY <2>1, <2>2, <2>3, StepOfAccounts
<1>3. QED
  BY <1>1, <1>2, PTL DEF AccountsSpec, accountsVars

-----------------------------------------------------------------------------
\* The rows of users, letters, products, pictures and codes are what they should
\* be in all four components; no picture of a product is counted more often than
\* there were requests.
THEOREM AccountsTyped == AccountsSpec => []AccountsTypeOK
<1>1. AccountsSound /\ OfficeSound /\ CatalogueTyped => AccountsTypeOK
  <2>1. SUFFICES ASSUME AccountsSound, OfficeSound, CatalogueTyped
                 PROVE  AccountsTypeOK
    OBVIOUS
  <2>2. RegistrationTypeOK /\ CredentialsTypeOK
    BY <2>1 DEF AccountsSound, RegistrationSound, RegistrationTyped, CredentialsTyped
  <2>3. OfficeTypeOK
    BY <2>1 DEF OfficeSound, OfficeTyped
  <2>4. CatalogueTypeOK
    BY <2>1 DEF CatalogueTyped
  <2>5. QED
    BY <2>2, <2>3, <2>4 DEF AccountsTypeOK
<1>2. QED
  BY <1>1, AccountsAreSound, OfficeIsSound, CatalogueIsKept, PTL

\* No two requests give one place of the plan away twice: one pending letter for an
\* address, no more stores, products on sale, pictures and variants than the plan
\* allows, storage beyond it only by what the renditions of pictures on their way
\* add, and no two products of one name, however the requests overlap, fail and are
\* undone.  The stores need that no update of a store runs beside another
\* request, as it counts them before it writes.
THEOREM ThePlanHolds ==
    ASSUME "updateStore" \notin Aside
    PROVE  AccountsSpec => []PlanHolds
<1>1. OfficeSound /\ CatalogueKept => PlanHolds
  <2>1. SUFFICES ASSUME OfficeSound, CatalogueKept
                 PROVE  PlanHolds
    OBVIOUS
  <2>2. OneLetter /\ StoresHold
    BY <2>1, LettersOneHolds DEF OfficeSound, StoresKept
  <2>3. ShelvesHold
    BY <2>1 DEF CatalogueKept
  <2>4. QED
    BY <2>2, <2>3 DEF PlanHolds, PlacesHold
<1>2. QED
  BY <1>1, OfficeIsSound, CatalogueIsKept, PTL
=============================================================================
