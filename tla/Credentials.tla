------------------------------ MODULE Credentials ------------------------------
(* How one person gets in and stays in: the password, the codes that replace    *)
(* it (modules/auth/password-reset.service.ts), the session a login gives       *)
(* (presentation/services/auth.service.ts) and what a request is admitted on    *)
(* (presentation/auth/middleware.ts).  The queries of a call are commits of     *)
(* their own; only the change of the password is a transaction.                 *)
EXTENDS Naturals, Sequences, FiniteSets, FiniteSetsExt

CONSTANTS
    Clients,    \* calls in flight
    Channels,   \* how a code is sent: "email", "whatsapp"
    Cooldown,   \* after a code, until the next one
    Lifetime,   \* of a code, by channel
    MaxTries,   \* whatsappOtpMaxAttempts
    MaxCodes,   \* bound on codes
    MaxTime,    \* bound on the clock
    MaxCalls    \* bound on calls

ASSUME CredentialsAssumption ==
    /\ Channels \subseteq {"email", "whatsapp"}
    /\ {Cooldown, MaxTries, MaxCodes, MaxTime, MaxCalls} \subseteq Nat
    /\ Lifetime \in [Channels -> Nat]

VARIABLES
    clock,
    password,   \* User.password: the code it was set with, 0 at first
    version,    \* User.authVersion
    belongs,    \* TenantMembership.status = ACTIVE
    code,       \* PasswordResetToken, in the order of createdAt
    sessions,   \* tokens given out, with the password they were given for
    client,     \* the calls
    calls,      \* how many there were
    set,        \* history: how often each code set the password
    stood,      \* history: the codes there were when the password was last set
    died        \* history: a call was cut short

credentialsVars == <<clock, password, version, belongs, code, sessions, client, calls, set, stood, died>>
accountVars == <<password, version, belongs, code, sessions, set, stood>>

FreeClient == [call |-> "none", stage |-> "idle"]
FirstSession == [version |-> 0, password |-> 0]

CredentialsInit ==
    /\ clock = 0 /\ password = 0 /\ version = 0 /\ belongs = TRUE
    /\ code = <<>>
    /\ sessions = {FirstSession}
    /\ client = [c \in Clients |-> FreeClient]
    /\ calls = 0
    /\ set = [i \in 1..MaxCodes |-> 0]
    /\ stood = {} /\ died = FALSE

AtDesk(c, stage) == client[c].stage = stage
Turns(c, rec) == client' = [client EXCEPT ![c] = rec] /\ UNCHANGED <<clock, calls, died>>

Calls(c, rec) ==
    /\ AtDesk(c, "idle") /\ calls < MaxCalls
    /\ calls' = calls + 1
    /\ client' = [client EXCEPT ![c] = rec]
    /\ UNCHANGED <<clock, died, accountVars>>

\* Rows that are neither used nor, at that time, expired; the last is the newest.
Live(now) == {i \in DOMAIN code : ~code[i].gone /\ ~code[i].used /\ code[i].expires > now}
Newest(now) == IF Live(now) = {} THEN 0 ELSE Max(Live(now))

-----------------------------------------------------------------------------
(* request(): a code is asked for.                                            *)

AskCode(c) == \E channel \in Channels :
    Calls(c, [call |-> "request", stage |-> "recent", channel |-> channel, now |-> clock])

ReadRecent(c) ==
    /\ AtDesk(c, "recent")
    /\ Turns(c, IF \E i \in DOMAIN code : ~code[i].gone /\ code[i].created + Cooldown >= client[c].now
                THEN FreeClient ELSE [client[c] EXCEPT !.stage = "create"])
    /\ UNCHANGED accountVars

\* createdAt is the clock of the database, expiresAt that of the program.
CreateCode(c) ==
    /\ AtDesk(c, "create") /\ Len(code) < MaxCodes
    /\ code' = Append(code, [channel |-> client[c].channel, created |-> clock,
                             expires |-> client[c].now + Lifetime[client[c].channel],
                             used |-> FALSE, failed |-> 0, gone |-> FALSE, known |-> FALSE])
    /\ Turns(c, [call |-> "request", stage |-> "send", id |-> Len(code) + 1])
    /\ UNCHANGED <<password, version, belongs, sessions, set, stood>>

\* A mutant: a code that nobody got is left as it is.
Left(i) == code

Withdrawn(i) == [code EXCEPT ![i].gone = TRUE]

\* The message arrives, or the row is deleted.
SendCode(c) ==
    LET i == client[c].id
    IN  /\ AtDesk(c, "send")
        /\ code' \in {[code EXCEPT ![i].known = TRUE], Withdrawn(i)}
        /\ Turns(c, FreeClient)
        /\ UNCHANGED <<password, version, belongs, sessions, set, stood>>

-----------------------------------------------------------------------------
(* confirm(): a code is given back with a new password.                       *)

\* A code that was received, or for WhatsApp a wrong one.
ConfirmCode(c) == \E i \in {j \in DOMAIN code : code[j].known} \union {0} :
    /\ i = 0 => "whatsapp" \in Channels
    /\ Calls(c, [call |-> "confirm", stage |-> "look", given |-> i, id |-> 0, now |-> clock,
                 otp |-> IF i = 0 THEN TRUE ELSE code[i].channel = "whatsapp"])

\* A link is looked up by itself; a code of six digits is compared with the newest
\* row of the person, of whichever channel.
Looked(c) == IF client[c].otp THEN Newest(client[c].now) ELSE client[c].given

Spent(c, i) ==
    \/ i \notin Live(client[c].now)
    \/ client[c].otp /\ code[i].failed >= MaxTries

LookUp(c) ==
    LET i == Looked(c)
    IN  /\ AtDesk(c, "look")
        /\ Turns(c, IF i = 0 \/ Spent(c, i) THEN FreeClient
                    ELSE [client[c] EXCEPT !.id = i, !.stage = IF i = client[c].given THEN "newest" ELSE "fail"])
        /\ UNCHANGED accountVars

\* A mutant: the tries are counted without a limit.
CountsEvery(i) == TRUE

CountsTry(i) == ~code[i].gone /\ ~code[i].used /\ code[i].failed < MaxTries

FailTry(c) ==
    LET i == client[c].id
    IN  /\ AtDesk(c, "fail")
        /\ code' = IF CountsTry(i) THEN [code EXCEPT ![i].failed = @ + 1] ELSE code
        /\ Turns(c, FreeClient)
        /\ UNCHANGED <<password, version, belongs, sessions, set, stood>>

\* Only the newest row will do; then the password is hashed, which takes its time.
CheckNewest(c) ==
    /\ AtDesk(c, "newest")
    /\ Turns(c, IF Newest(client[c].now) = client[c].id THEN [client[c] EXCEPT !.stage = "claim"] ELSE FreeClient)
    /\ UNCHANGED accountVars

\* A mutant: what was looked up before is trusted.
TrustsLook(c, i) == TRUE

StillGood(c, i) ==
    /\ i \in Live(client[c].now)
    /\ client[c].otp => code[i].failed < MaxTries

\* A mutant: the other codes of the person stay good.
MarksOwn(i) == [code EXCEPT ![i].used = TRUE]

MarksAll(i) == [j \in DOMAIN code |-> [code[j] EXCEPT !.used = @ \/ ~code[j].gone]]

\* A mutant: the sessions of the old password go on.
KeepsVersion == version

NextVersion == version + 1

ChangePassword(c) ==
    LET i == client[c].id
    IN  /\ AtDesk(c, "claim")
        /\ Turns(c, FreeClient)
        /\ IF StillGood(c, i)
           THEN /\ password' = i
                /\ version' = NextVersion
                /\ code' = MarksAll(i)
                /\ set' = [set EXCEPT ![i] = @ + 1]
                /\ stood' = DOMAIN code
                /\ UNCHANGED <<belongs, sessions>>
           ELSE UNCHANGED accountVars

-----------------------------------------------------------------------------
(* login() and validateJWT().                                                 *)

\* The password is compared with what was read, and with it the version.
Login(c) ==
    Calls(c, [call |-> "login", stage |-> "context", password |-> password, version |-> version])

\* A mutant: the version is read again for the token.
SignedLate(c) == [version |-> version, password |-> client[c].password]

Signed(c) == [version |-> client[c].version, password |-> client[c].password]

\* resolveForLogin(): the membership.
GiveSession(c) ==
    /\ AtDesk(c, "context")
    /\ sessions' = IF belongs THEN sessions \union {Signed(c)} ELSE sessions
    /\ Turns(c, FreeClient)
    /\ UNCHANGED <<password, version, belongs, code, set, stood>>

\* A request that presents a session of another version is refused.
Present(c) == \E s \in sessions :
    /\ s.version = version
    /\ Calls(c, [call |-> "serve", stage |-> "member", session |-> s])

\* resolveAuthenticatedContext(); the answer carries a fresh token of the version.
Serve(c) ==
    /\ AtDesk(c, "member")
    /\ sessions' = IF belongs THEN sessions \union {client[c].session} ELSE sessions
    /\ Turns(c, FreeClient)
    /\ UNCHANGED <<password, version, belongs, code, set, stood>>

\* UserService.updateUser(): somebody of the company suspends the person or not.
ChangeMembership ==
    /\ belongs' = ~belongs
    /\ UNCHANGED <<clock, password, version, code, sessions, client, calls, set, stood, died>>

PassTime ==
    /\ clock < MaxTime /\ clock' = clock + 1
    /\ UNCHANGED <<accountVars, client, calls, died>>

\* The process dies or the database is away.
CutShort(c) ==
    /\ ~AtDesk(c, "idle")
    /\ client' = [client EXCEPT ![c] = FreeClient]
    /\ died' = TRUE
    /\ UNCHANGED <<clock, calls, accountVars>>

CredentialsNext ==
    \/ \E c \in Clients :
          \/ AskCode(c) \/ ReadRecent(c) \/ CreateCode(c) \/ SendCode(c)
          \/ ConfirmCode(c) \/ LookUp(c) \/ FailTry(c) \/ CheckNewest(c) \/ ChangePassword(c)
          \/ Login(c) \/ GiveSession(c) \/ Present(c) \/ Serve(c)
          \/ CutShort(c)
    \/ ChangeMembership \/ PassTime

CredentialsSpec == CredentialsInit /\ [][CredentialsNext]_credentialsVars

-----------------------------------------------------------------------------
CredentialsTypeOK ==
    /\ clock \in 0..MaxTime /\ calls \in 0..MaxCalls
    /\ password \in 0..MaxCodes /\ version \in Nat
    /\ belongs \in BOOLEAN /\ died \in BOOLEAN
    /\ code \in Seq([channel : Channels, created : Nat, expires : Nat, used : BOOLEAN,
                     failed : 0..MaxTries, gone : BOOLEAN, known : BOOLEAN])
    /\ sessions \subseteq [version : Nat, password : 0..MaxCodes]
    /\ stood \subseteq 1..MaxCodes

\* A code sets the password once, however often and on how many calls at once it
\* is given back.
OncePerCode == \A i \in 1..MaxCodes : set[i] <= 1

\* Whoever is admitted got in with the password that is in force: with a new one
\* the sessions of the old one end, also of a login that was under way.
SessionsFollowPassword == \A s \in sessions : s.version = version => s.password = password

\* With a new password the codes that were out at that time are spent.
OldCodesEnd == \A i \in stood : code[i].used \/ code[i].gone

\* A code that the person never got does not stand before one that arrived, unless
\* the process died before it could be withdrawn.
NewestArrived ==
    LET sending == {client[c].id : c \in {c \in Clients : AtDesk(c, "send")}}
    IN  ~died => \A i \in Live(clock) : code[i].known \/ i \in sending

\* The four above.
EntryHolds == OncePerCode /\ SessionsFollowPassword /\ OldCodesEnd /\ NewestArrived
=============================================================================
