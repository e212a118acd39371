----------------------------- MODULE Registration -----------------------------
(* Owners sign up, prove that an e-mail or a phone is theirs, and get one     *)
(* trial: modules/registration.                                               *)
(*                                                                            *)
(* A request is a process of several steps, the transactions and the calls of *)
(* the code: assess() and signup(), resendVerification(), verifyEmail() and   *)
(* provision().  Requests of one owner and of several owners interleave.      *)
EXTENDS Integers, FiniteSets

CONSTANTS
    Owners,         \* one identity (an e-mail or a phone) each
    Requests,       \* requests that may be handled together
    Device,         \* the device of an owner
    Name,           \* the number in the slug of the owner's business: "acme", "acme-2"
    EmailLimit,     \* signups of an identity in one window
    DeviceLimit,    \* signups of a device in one window
    OtpMax,         \* whatsappOtpMaxAttempts
    MaxCredentials, \* bound on the credentials that are made
    MaxInvited,     \* bound on the owners who become employees
    MaxWindows      \* bound of the clock

Windows == 0..MaxWindows
Slugs == 1..(2 * Cardinality(Owners))
Devices == {Device[o] : o \in Owners}

ASSUME RegistrationAssumption ==
    /\ {EmailLimit, DeviceLimit, OtpMax, MaxCredentials, MaxInvited, MaxWindows} \subseteq Nat
    /\ Owners \cap Devices = {}
    /\ IsFiniteSet(Owners) /\ Name \in [Owners -> 1..Cardinality(Owners)]

VARIABLES
    window,     \* the clock: rate limits, credentials and tokens last one window
    reg,        \* table OwnerRegistration
    sent,       \* the last credential made
    mailed,     \* owners whom the credential in force has reached
    request,    \* requests in flight
    users,      \* owners who have a User row
    invited,    \* those who got it as an employee of another tenant
    trial,      \* the tenants, by owner: their slugs
    bucket,     \* table SignupRateLimitBucket, of the present window
    admitted,   \* signups let through in the present window without an override
    review      \* table SignupAbuseEvent: the override of support

registrationVars == <<window, reg, sent, mailed, request, users, invited, trial, bucket,
                      admitted, review>>

NoRow == [status |-> "NONE", cred |-> 0, until |-> 0, fails |-> 0, token |-> 0, tokenUntil |-> 0]
NoRequest == [at |-> "idle"]
NoReview == [status |-> "NONE", until |-> 0]
Keys == Owners \union Devices
KeysOf(o) == {o, Device[o]}
LimitOf(k) == IF k \in Owners THEN EmailLimit ELSE DeviceLimit

RegistrationInit ==
    /\ window = 0
    /\ reg = [o \in Owners |-> NoRow]
    /\ sent = 0
    /\ mailed = {}
    /\ request = [r \in Requests |-> NoRequest]
    /\ users = {}
    /\ invited = {}
    /\ trial = [o \in Owners |-> 0]
    /\ bucket = [k \in Keys |-> 0]
    /\ admitted = [k \in Keys |-> 0]
    /\ review = [o \in Owners |-> NoReview]

Idle(r) == request[r] = NoRequest
In(r, step) == request[r].at = step
Goto(r, step, o) == request' = [request EXCEPT ![r] = [at |-> step, owner |-> o]]
Answer(r) == request' = [request EXCEPT ![r] = NoRequest]

\* A window ends: the buckets of the new one are empty, an override is over.
NextWindow ==
    /\ window < MaxWindows
    /\ window' = window + 1
    /\ bucket' = [k \in Keys |-> 0]
    /\ admitted' = [k \in Keys |-> 0]
    /\ UNCHANGED <<reg, sent, mailed, request, users, invited, trial, review>>

-----------------------------------------------------------------------------
(* OwnerSignupAbuseService.assess().                                          *)

Overridden(o) == review[o].status = "FALSE_POSITIVE" /\ review[o].until > window

\* recordRejection(): the review stays until its override is over.
Rejected(o) ==
    review' = [review EXCEPT ![o] = IF Overridden(o) THEN @
                                        ELSE [status |-> "UNREVIEWED", until |-> 0]]

\* A mutant: one too many.
ExceedsByTwo(attempts, k) == attempts > LimitOf(k) + 1

Exceeds(attempts, k) == attempts > LimitOf(k)

\* consumeLimits(): every attempt counts, refused ones too; the advisory locks
\* of its keys make it one step.
ConsumeLimits(r, o) ==
    /\ Idle(r)
    /\ \A k \in KeysOf(o) : bucket[k] <= LimitOf(k)     \* a bound of the model
    /\ bucket' = [k \in Keys |-> IF k \in KeysOf(o) THEN bucket[k] + 1 ELSE bucket[k]]
    /\ IF (\E k \in KeysOf(o) : Exceeds(bucket'[k], k)) /\ ~Overridden(o)
       THEN Rejected(o) /\ UNCHANGED <<request, admitted>>
       ELSE /\ Goto(r, "captcha", o)
            /\ admitted' = IF Overridden(o) THEN admitted
                           ELSE [k \in Keys |-> IF k \in KeysOf(o) THEN admitted[k] + 1
                                                ELSE admitted[k]]
            /\ UNCHANGED review
    /\ UNCHANGED <<window, reg, sent, mailed, users, invited, trial>>

\* findPreviouslyConsumedTrial(): by identity or by device.
HadTrial(o) == \E p \in Owners : trial[p] # 0 /\ KeysOf(p) \cap KeysOf(o) # {}

\* The captcha is verified, or fails, or cannot be reached.
CaptchaAnswers(r) ==
    LET o == request[r].owner
    IN  /\ In(r, "captcha")
        /\ \/ (HadTrial(o) => Overridden(o)) /\ Goto(r, "signup", o) /\ UNCHANGED review
           \/ Answer(r) /\ Rejected(o)
        /\ UNCHANGED <<window, reg, sent, mailed, users, invited, trial, bucket, admitted>>

\* Support reviews a rejection (the platform, outside this code).
ReviewRejection(o) ==
    /\ review[o].status = "UNREVIEWED"
    /\ review' = [review EXCEPT ![o] = [status |-> "FALSE_POSITIVE", until |-> window + 1]]
    /\ UNCHANGED <<window, reg, sent, mailed, request, users, invited, trial, bucket, admitted>>

-----------------------------------------------------------------------------
(* OwnerRegistrationService.signup() and resendVerification().                *)

Verifiable(row) == row.status \in {"EMAIL_PENDING", "EMAIL_VERIFIED"}

\* A credential that is void or past its time may be renewed by a signup.
Lapsed(row) == row.cred = 0 \/ row.until <= window

Renewed(row, c) == [row EXCEPT !.cred = c, !.until = window + 1, !.fails = 0]

\* A new credential of owner o, on its way.
Renew(r, o, row) ==
    /\ sent < MaxCredentials
    /\ sent' = sent + 1
    /\ reg' = [reg EXCEPT ![o] = Renewed(row, sent + 1)]
    /\ mailed' = mailed \ {o}
    /\ request' = [request EXCEPT ![r] = [at |-> "send", owner |-> o, cred |-> sent + 1]]

\* Only a pending registration whose credential is void is renewed.
MayRenew(row) == row.status = "EMAIL_PENDING" /\ Lapsed(row)

\* The transaction: ON CONFLICT DO NOTHING, then the renewal.
SignupCommit(r) ==
    LET o == request[r].owner
    IN  /\ In(r, "signup")
        /\ IF o \notin users /\ reg[o].status = "NONE"
           THEN Renew(r, o, [NoRow EXCEPT !.status = "EMAIL_PENDING"])
           ELSE IF o \notin users /\ MayRenew(reg[o])
           THEN Renew(r, o, reg[o])
           ELSE Answer(r) /\ UNCHANGED <<reg, sent, mailed>>
        /\ UNCHANGED <<window, users, invited, trial, bucket, admitted, review>>

\* resendVerification(): the password was right when the row was read ...
ResendRead(r, o) ==
    /\ Idle(r)
    /\ Verifiable(reg[o])
    /\ Goto(r, "resend", o)
    /\ UNCHANGED <<window, reg, sent, mailed, users, invited, trial, bucket, admitted, review>>

\* ... and the UPDATE asks for the status again.
ResendRenew(r) ==
    LET o == request[r].owner
    IN  /\ In(r, "resend")
        /\ IF Verifiable(reg[o]) THEN Renew(r, o, reg[o])
           ELSE Answer(r) /\ UNCHANGED <<reg, sent, mailed>>
        /\ UNCHANGED <<window, users, invited, trial, bucket, admitted, review>>

\* The message leaves after the commit.
Delivered(r) ==
    /\ In(r, "send")
    /\ mailed' = IF reg[request[r].owner].cred = request[r].cred
                  THEN mailed \union {request[r].owner} ELSE mailed
    /\ Answer(r)
    /\ UNCHANGED <<window, reg, sent, users, invited, trial, bucket, admitted, review>>

\* A mutant: whatever credential is in force is voided.
VoidAny(row, c) == TRUE

\* The hash in the WHERE: another request's credential is left alone.
VoidOwn(row, c) == row.cred = c

\* The channel fails: the credential it could not deliver is voided.
DeliveryFails(r) ==
    LET o == request[r].owner
    IN  /\ In(r, "send")
        /\ reg' = IF VoidOwn(reg[o], request[r].cred)
                  THEN [reg EXCEPT ![o].cred = 0, ![o].until = 0] ELSE reg
        /\ mailed' = IF reg' = reg THEN mailed ELSE mailed \ {o}
        /\ Answer(r)
        /\ UNCHANGED <<window, sent, users, invited, trial, bucket, admitted, review>>

-----------------------------------------------------------------------------
(* OwnerRegistrationService.verifyEmail(), with a code of six digits.         *)

Active(row) == Verifiable(row) /\ row.until > window /\ row.fails < OtpMax

\* The row is read; the code is the one in force, or a wrong one.
VerifyRead(r, o) ==
    /\ Idle(r)
    /\ Active(reg[o])
    /\ \/ Goto(r, "wrong", o)
       \/ /\ o \in mailed
          /\ request' = [request EXCEPT ![r] = [at |-> "right", owner |-> o, cred |-> reg[o].cred]]
    /\ UNCHANGED <<window, reg, sent, mailed, users, invited, trial, bucket, admitted, review>>

\* A mutant: the increment has no condition.
CountsAlways(row) == TRUE

\* The WHERE of the increment.
Counts(row) == row.fails < OtpMax

VerifyWrong(r) ==
    LET o == request[r].owner
    IN  /\ In(r, "wrong")
        /\ reg' = IF Counts(reg[o]) THEN [reg EXCEPT ![o].fails = @ + 1] ELSE reg
        /\ Answer(r)
        /\ UNCHANGED <<window, sent, mailed, users, invited, trial, bucket, admitted, review>>

\* The WHERE of the acceptance.
Accepts(row, c) == Active(row) /\ row.cred = c

\* The credential is spent and a token for the trial handed out, in one UPDATE.
VerifyAccept(r) ==
    LET o == request[r].owner
    IN  /\ In(r, "right")
        /\ reg' = IF Accepts(reg[o], request[r].cred)
                  THEN [reg EXCEPT ![o] = [status |-> "EMAIL_VERIFIED", cred |-> 0, until |-> 0,
                                           fails |-> 0, token |-> request[r].cred,
                                           tokenUntil |-> window + 1]]
                  ELSE reg
        /\ mailed' = IF reg' = reg THEN mailed ELSE mailed \ {o}
        /\ Answer(r)
        /\ UNCHANGED <<window, sent, users, invited, trial, bucket, admitted, review>>

-----------------------------------------------------------------------------
(* TrialProvisioningService.provision(): one transaction.                     *)

\* The token of the last verification is looked up; a consumed one is replayed.
ProvisionRead(r, o) ==
    /\ Idle(r)
    /\ reg[o].token # 0 /\ reg[o].tokenUntil > window
    /\ reg[o].status = "EMAIL_VERIFIED"
    /\ request' = [request EXCEPT ![r] = [at |-> "check", owner |-> o, token |-> reg[o].token]]
    /\ UNCHANGED <<window, reg, sent, mailed, users, invited, trial, bucket, admitted, review>>

\* Owner o works in a tenant on trial: the own one, just made, or, when it came
\* by an invitation, one that may be on trial or not.
OnTrial(o) == trial[o] # 0

\* The next statement asks for a trial of the identity.  A retry that read the
\* registration before the first request committed finds the trial of the first
\* one here, and is refused like an employee of a tenant on trial.
ProvisionCheck(r) ==
    LET o == request[r].owner
    IN  /\ In(r, "check")
        /\ \/ /\ OnTrial(o) \/ o \in invited
              /\ Goto(r, "limit", o)
           \/ /\ ~OnTrial(o)
              /\ request' = [request EXCEPT ![r] =
                                [at |-> "claim", owner |-> o, token |-> request[r].token]]
        /\ UNCHANGED <<window, reg, sent, mailed, users, invited, trial, bucket, admitted, review>>

\* The row of the owner is locked, and so is the name of the business.
Locked(o) == \E r \in Requests : In(r, "commit") /\ request[r].owner = o
Allocating(o) == \E r \in Requests : In(r, "commit") /\ Name[request[r].owner] = Name[o]

Claims(row, t) == row.status = "EMAIL_VERIFIED" /\ row.token = t /\ row.tokenUntil > window

\* allocateSlug(): the name of the business, or its name with the next free
\* number: "acme", "acme-2", "acme-3".
FreeSlug(o) ==
    CHOOSE n \in Slugs :
        /\ n >= Name[o] /\ \A p \in Owners : trial[p] # n
        /\ \A m \in Name[o]..(n - 1) : \E p \in Owners : trial[p] = m

\* The UPDATE waits for the row, the allocation for the name.  Whoever comes
\* second replays; who has become a user meanwhile is told so.
ProvisionClaim(r) ==
    LET o == request[r].owner
    IN  /\ In(r, "claim")
        /\ ~Locked(o)
        /\ IF ~Claims(reg[o], request[r].token) THEN Answer(r)
           ELSE IF o \in users THEN Goto(r, "conflict", o)
           ELSE /\ ~Allocating(o)
                /\ request' = [request EXCEPT ![r] =
                                  [at |-> "commit", owner |-> o, slug |-> FreeSlug(o)]]
        /\ UNCHANGED <<window, reg, sent, mailed, users, invited, trial, bucket, admitted, review>>

\* A mutant: nothing but the slug is unique.
RefusedBySlug(o, slug) == \E p \in Owners : trial[p] = slug

\* The unique indexes User.email and Tenant.slug.
Refused(o, slug) == o \in users \/ \E p \in Owners : trial[p] = slug

\* createTrial(): user, tenant, claim and registration are committed together,
\* or an index refuses them all.
ProvisionCommit(r) ==
    LET o == request[r].owner
    IN  /\ In(r, "commit")
        /\ IF Refused(o, request[r].slug)
           THEN Goto(r, "conflict", o) /\ UNCHANGED <<reg, users, trial>>
           ELSE /\ users' = users \union {o}
                /\ trial' = [trial EXCEPT ![o] = request[r].slug]
                /\ reg' = [reg EXCEPT ![o].status = "CONSUMED"]
                /\ Answer(r)
        /\ UNCHANGED <<window, sent, mailed, invited, bucket, admitted, review>>

ProvisionAbort(r) ==
    /\ request[r].at \in {"check", "claim", "commit", "conflict", "limit"}
    /\ Answer(r)
    /\ UNCHANGED <<window, reg, sent, mailed, users, invited, trial, bucket, admitted, review>>

\* The owner becomes an employee somewhere else (TenantInvitationService).
BecomeUser(o) ==
    /\ o \notin users /\ Cardinality(invited) < MaxInvited
    /\ users' = users \union {o}
    /\ invited' = invited \union {o}
    /\ UNCHANGED <<window, reg, sent, mailed, request, trial, bucket, admitted, review>>

-----------------------------------------------------------------------------

RegistrationNext ==
    \/ NextWindow
    \/ \E o \in Owners :
        \/ ReviewRejection(o)
        \/ BecomeUser(o)
        \/ \E r \in Requests :
            \/ ConsumeLimits(r, o)
            \/ ResendRead(r, o)
            \/ VerifyRead(r, o)
            \/ ProvisionRead(r, o)
    \/ \E r \in Requests :
        \/ CaptchaAnswers(r)
        \/ SignupCommit(r)
        \/ ResendRenew(r)
        \/ Delivered(r)
        \/ DeliveryFails(r)
        \/ VerifyWrong(r)
        \/ VerifyAccept(r)
        \/ ProvisionCheck(r)
        \/ ProvisionClaim(r)
        \/ ProvisionCommit(r)
        \/ ProvisionAbort(r)

-----------------------------------------------------------------------------
(* What the registration promises.                                            *)

\* Types.  A code is tried at most OtpMax times, however the tries interleave.
RegistrationTypeOK ==
    /\ window \in Windows
    /\ reg \in [Owners -> [status : {"NONE", "EMAIL_PENDING", "EMAIL_VERIFIED", "CONSUMED"},
                           cred : 0..MaxCredentials, until : 0..(MaxWindows + 1), fails : 0..OtpMax,
                           token : 0..MaxCredentials, tokenUntil : 0..(MaxWindows + 1)]]
    /\ sent \in 0..MaxCredentials
    /\ mailed \subseteq Owners
    /\ invited \subseteq users /\ users \subseteq Owners
    /\ trial \in [Owners -> {0} \union Slugs]
    /\ bucket \in [Keys -> Nat]

\* The limits hold: in one window an identity or a device is let through at
\* most that often, unless support has overridden a rejection.
LimitsHold == \A k \in Keys : admitted[k] <= LimitOf(k)

\* A credential that reached its owner is in force until it is used, replaced
\* by a newer one or expires: the failed delivery of another request does not
\* void it, nor does a second signup of the same identity.
DeliveredStaysValid ==
    [][\A o \in Owners :
          o \in mailed /\ reg'[o].cred # reg[o].cred =>
             \/ reg[o].until <= window
             \/ reg'[o].status = "EMAIL_VERIFIED" /\ reg'[o].token = reg[o].cred
             \/ \E r \in Requests : In(r, "resend") /\ request[r].owner = o]_<<reg, window>>

\* The token of a trial is handed out for the credential that was in force: a
\* code read before a newer one was sent is not accepted.
NewestIsAccepted ==
    [][\A o \in Owners : reg'[o].token # reg[o].token => reg'[o].token = reg[o].cred]_reg

\* A request for a trial is told that the identity belongs to a user only when
\* that is so through another tenant, or when a business with another name took
\* the slug meanwhile: never because of the trial that the token itself gave.
ConflictHasCause ==
    \A r \in Requests : In(r, "conflict") =>
        \/ request[r].owner \in invited
        \/ \E o \in Owners : Name[o] # Name[request[r].owner]

\* A request is told that the identity has a trial only when it has one, or works
\* in a tenant of another.  A retry that overlaps the request it repeats may be
\* told so instead of being given its trial again; then it has it.
LimitHasCause ==
    \A r \in Requests : In(r, "limit") =>
        OnTrial(request[r].owner) \/ request[r].owner \in invited

\* Whoever is invited as an employee while a trial is being set up does not get
\* the tenant as well: one identity, one user.
EmployeeOrOwner == \A o \in invited : trial[o] = 0

\* One identity, one user: an owner without a trial and without a job elsewhere is
\* not refused one, and an employee is not taken for an owner.
OneUserEach == ConflictHasCause /\ LimitHasCause /\ EmployeeOrOwner

\* The code in the owner's hands is the one that counts.
CodesHold == DeliveredStaysValid /\ NewestIsAccepted
=============================================================================
