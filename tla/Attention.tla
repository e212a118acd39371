------------------------------ MODULE Attention -------------------------------
(* The inbox of the customers over WhatsApp: modules/attention and             *)
(* modules/whatsapp.  Meta delivers batches of messages, in any order and again  *)
(* until it is answered 200; clerks reply through Meta and settle conversations; *)
(* owners connect their shop to a number.                                       *)
(*                                                                            *)
(* One customer writes to every shop.  A batch is handled with one transaction   *)
(* for each shop; here it has at most one message for a shop.                   *)
EXTENDS Naturals, FiniteSets

CONSTANTS
    Shops,          \* tenants
    Numbers,        \* telephone numbers of shops
    Legacy,         \* the shop the environment gives a number to, or NoShop
    NoShop,
    Messages,       \* of the customer
    Addressee,      \* the number a message is for
    Spoiled,        \* messages the service refuses: 4096 characters are legal, 4000 are taken
    Batches,        \* sets of messages that Meta delivers together
    Talks,          \* conversations that may be begun
    Replies,        \* bound: replies that are tried
    Posts,          \* webhooks handled at once
    Clerks,         \* requests about a conversation handled at once
    MaxDeeds,       \* bound on what owners and clerks do and on what goes wrong
    Chosen,         \* bound: what a clerk sets a conversation to
    AtFirst         \* connections a behaviour begins with

ASSUME AttentionAssumption ==
    /\ Legacy \in [Numbers -> Shops \union {NoShop}] /\ NoShop \notin Shops
    /\ Addressee \in [Messages -> Numbers] /\ Spoiled \subseteq Messages
    /\ Batches \subseteq SUBSET Messages
    /\ MaxDeeds \in Nat

VARIABLES
    linked,     \* WhatsAppConnection of a shop: number and status
    linking,    \* connect() of a shop, between its check and its write
    talk,       \* AttentionConversation: shop, status, unreadCount
    inbox,      \* AttentionMessage, INBOUND with a providerMessageId
    post,       \* webhooks in flight
    answered,   \* batches that were answered 200
    clerk,      \* requests about a conversation in flight
    reply,      \* AttentionMessage, OUTBOUND: what the row says, what Meta did
    unseen,     \* history: messages since the conversation was marked as read
    late,       \* history: a message was stored since the conversation was resolved
    dropped,    \* history: messages answered 200 for a number nobody had connected
    served,     \* history: which shop had which number connected
    deeds

attentionVars == <<linked, linking, talk, inbox, post, answered, clerk, reply, unseen, late,
                   dropped, served, deeds>>

TalkStatus == {"PENDING", "ATTENDING", "RESOLVED", "REOPENED"}

\* What a clerk may choose, and what the unique index on the numbers lets be
\* connected at first.
ASSUME ChoicesAssumption ==
    /\ Chosen \subseteq TalkStatus /\ "none" \notin Numbers
    /\ \A first \in AtFirst :
          /\ first \in [Shops -> {[number |-> "none", status |-> "none"]}
                                \union [number : Numbers, status : {"CONNECTED", "ACTION_REQUIRED"}]]
          /\ \A s, u \in Shops : s # u /\ first[s].number # "none" => first[s].number # first[u].number

NoLink == [number |-> "none", status |-> "none"]
NoTalk == [status |-> "none"]
NoPost == [stage |-> "idle"]
NoErrand == [stage |-> "idle"]
NoReply == [meta |-> "none", row |-> "none"]

AttentionInit ==
    /\ linked \in AtFirst
    /\ linking = [s \in Shops |-> NoLink]
    /\ talk = [v \in Talks |-> NoTalk]
    /\ inbox = {}
    /\ post = [w \in Posts |-> NoPost]
    /\ answered = {}
    /\ clerk = [k \in Clerks |-> NoErrand]
    /\ reply = [r \in Replies |-> NoReply]
    /\ unseen = [v \in Talks |-> 0]
    /\ late = [v \in Talks |-> FALSE]
    /\ dropped = {}
    /\ served = {x \in Shops \X Numbers : linked[x[1]] = [number |-> x[2], status |-> "CONNECTED"]}
    /\ deeds = 0

Deed == deeds < MaxDeeds /\ deeds' = deeds + 1
IsConnected(s) == linked[s].status = "CONNECTED"

-----------------------------------------------------------------------------
(* WhatsAppConnectionService.                                                 *)

Takes(s, n) == \E u \in Shops \ {s} : linked[u].number = n

\* connect(): the number is not of another shop, and Meta authorises it; when it
\* does not subscribe or register the number the owner has to act.
LinkCheck(s, n) ==
    /\ linking[s] = NoLink /\ Deed
    /\ ~Takes(s, n)
    /\ \E status \in {"CONNECTED", "ACTION_REQUIRED"} :
          linking' = [linking EXCEPT ![s] = [number |-> n, status |-> status]]
    /\ UNCHANGED <<linked, talk, inbox, post, answered, clerk, reply, unseen, late, dropped, served>>

\* A mutant: no unique index on the number.
TakenUnnoticed(s, n) == FALSE

\* The unique index on phoneNumberId refuses the upsert.
Taken(s, n) == Takes(s, n)

LinkWrite(s) ==
    /\ linking[s] # NoLink
    /\ IF Taken(s, linking[s].number) THEN UNCHANGED <<linked, served>>
       ELSE /\ linked' = [linked EXCEPT ![s] = linking[s]]
            /\ served' = IF linking[s].status = "CONNECTED"
                         THEN served \union {<<s, linking[s].number>>} ELSE served
    /\ linking' = [linking EXCEPT ![s] = NoLink]
    /\ UNCHANGED <<talk, inbox, post, answered, clerk, reply, unseen, late, dropped, deeds>>

\* disconnect().
Unlink(s) ==
    /\ linked[s] # NoLink /\ Deed
    /\ linked' = [linked EXCEPT ![s] = NoLink]
    /\ UNCHANGED <<linking, talk, inbox, post, answered, clerk, reply, unseen, late, dropped, served>>

\* A mutant: the status of the connection is not asked for.
LinkedShops(n) == {s \in Shops : linked[s].number = n}

\* tenantForPhoneNumber().
ShopsOf(n) == {s \in Shops : linked[s].number = n /\ IsConnected(s)}

\* The shops a message may go to: none or one.
Destination(n) == IF ShopsOf(n) # {} THEN ShopsOf(n) ELSE {Legacy[n]} \ {NoShop}

-----------------------------------------------------------------------------
(* The webhook.                                                               *)

HasMessage(s, m) == \E row \in inbox : row.shop = s /\ row.message = m
TalksOf(s) == {v \in Talks : talk[v] # NoTalk /\ talk[v].shop = s}
Posted(w, rec) == post' = [post EXCEPT ![w] = rec]

\* receive(): the messages are sorted by shop, those for nobody are left aside.
PostArrives(w, b) ==
    /\ post[w] = NoPost
    /\ IF b \in answered THEN Deed ELSE UNCHANGED deeds
    /\ LET known == {m \in b : Destination(Addressee[m]) # {}}
       IN  Posted(w, [stage |-> "next", batch |-> b, left |-> known,
                      to |-> [m \in known |-> CHOOSE s \in Destination(Addressee[m]) : TRUE]])
    /\ UNCHANGED <<linked, linking, talk, inbox, answered, clerk, reply, unseen, late, dropped, served>>

\* The reads of receiveExternal(), in the transaction of one shop.  A message it
\* refuses ends the webhook with 400; one that is there is skipped.  The
\* conversation is that of the newest message; a date is that of the beginning
\* of its transaction, so with two conversations it may be either.
PostReads(w) ==
    /\ post[w].stage = "next"
    /\ \E m \in post[w].left :
          LET p == post[w]
              s == p.to[m]
          IN  \/ m \in Spoiled /\ Posted(w, NoPost)
              \/ m \notin Spoiled /\ HasMessage(s, m) /\ Posted(w, [p EXCEPT !.left = @ \ {m}])
              \/ /\ m \notin Spoiled /\ ~HasMessage(s, m)
                 /\ \E found \in IF TalksOf(s) = {} THEN {{}} ELSE {{v} : v \in TalksOf(s)} :
                       Posted(w, [stage |-> "write", batch |-> p.batch, left |-> p.left \ {m},
                                  to |-> p.to, message |-> m,
                                  seen |-> {<<v, talk[v].status, talk[v].unread>> : v \in found}])
    /\ UNCHANGED <<linked, linking, talk, inbox, answered, clerk, reply, unseen, late, dropped, served,
                   deeds>>

\* A mutant: the status is written only to reopen a conversation.
ReopenedOnly(v, seen) == IF seen = "RESOLVED" THEN "REOPENED" ELSE talk[v].status

\* What was read is written back, or the conversation is reopened.
Reopened(v, seen) == IF seen = "RESOLVED" THEN "REOPENED" ELSE seen

\* A mutant: the counter that was read is written back.
CountedFromRead(v, seen) == seen + 1

\* unreadCount: { increment: 1 }.
Counted(v, seen) == talk[v].unread + 1

\* An INBOUND row, and its conversation as it was read.
MessageStored(v, status, unread) ==
    /\ talk' = [talk EXCEPT ![v].status = Reopened(v, status), ![v].unread = Counted(v, unread)]
    /\ unseen' = [unseen EXCEPT ![v] = @ + 1]
    /\ late' = [late EXCEPT ![v] = TRUE]

TalkBegun(v, s, status, messages) ==
    /\ talk[v] = NoTalk
    /\ talk' = [talk EXCEPT ![v] = [shop |-> s, status |-> status, unread |-> messages]]
    /\ unseen' = [unseen EXCEPT ![v] = messages]
    /\ late' = [late EXCEPT ![v] = messages > 0]

\* A mutant: the index on the identifiers of the provider is missing.
NoDuplicate(s, m) == FALSE

\* unique(tenantId, providerMessageId): the insert fails, the transaction with it.
Duplicate(s, m) == HasMessage(s, m)

PostWrites(w) ==
    /\ post[w].stage = "write"
    /\ LET p == post[w]
           s == p.to[p.message]
       IN  IF Duplicate(s, p.message) THEN Posted(w, NoPost) /\ UNCHANGED <<talk, inbox, unseen, late>>
           ELSE \E v \in Talks :
                   /\ \/ \E seen \in p.seen : seen[1] = v /\ MessageStored(v, seen[2], seen[3])
                      \/ p.seen = {} /\ TalkBegun(v, s, "PENDING", 1)
                   /\ inbox' = inbox \union {[message |-> p.message, shop |-> s, talk |-> v]}
                   /\ Posted(w, [stage |-> "next", batch |-> p.batch, left |-> p.left, to |-> p.to])
    /\ UNCHANGED <<linked, linking, answered, clerk, reply, dropped, served, deeds>>

\* A mutant: the webhook is answered 200 whatever is left.
AnswersAtOnce(p) == p.stage = "next"

\* 200: the transactions of all the shops have committed.
AllHandled(p) == p.stage = "next" /\ p.left = {}

PostAnswers(w) ==
    /\ AllHandled(post[w])
    /\ answered' = answered \union {post[w].batch}
    /\ dropped' = dropped \union (post[w].batch \ DOMAIN post[w].to)
    /\ Posted(w, NoPost)
    /\ UNCHANGED <<linked, linking, talk, inbox, clerk, reply, unseen, late, served, deeds>>

\* The process dies, or the answer is lost.
PostDies(w) ==
    /\ post[w] # NoPost /\ Deed
    /\ Posted(w, NoPost)
    /\ UNCHANGED <<linked, linking, talk, inbox, answered, clerk, reply, unseen, late, dropped, served>>

\* updateProviderStatus(): in the order of arrival; it is lost when the row of the
\* reply is not there yet.
StatusArrives(r) ==
    /\ reply[r].meta = "accepted" /\ reply[r].row = "SENT"
    /\ reply' = [reply EXCEPT ![r].row = "REPORTED"]
    /\ UNCHANGED <<linked, linking, talk, inbox, post, answered, clerk, unseen, late, dropped, served,
                   deeds>>

-----------------------------------------------------------------------------
(* The clerks.                                                                *)

Errand(k, rec) == clerk' = [clerk EXCEPT ![k] = rec]

\* createAttentionMessagingProvider().
Provider(s) ==
    IF IsConnected(s) THEN "META"
    ELSE IF linked[s] # NoLink THEN "UNAVAILABLE"
    ELSE IF s \in {Legacy[n] : n \in Numbers} THEN "META"
    ELSE "LOCAL"

\* send(): Meta takes a free text only for a day after a message of the customer.
ReplyBegins(k, v) ==
    /\ clerk[k] = NoErrand /\ talk[v] # NoTalk /\ Deed
    /\ LET provider == Provider(talk[v].shop)
       IN  /\ provider # "UNAVAILABLE"
           /\ provider = "META" => \E row \in inbox : row.talk = v
           /\ Errand(k, [stage |-> "send", talk |-> v, provider |-> provider])
    /\ UNCHANGED <<linked, linking, talk, inbox, post, answered, reply, unseen, late, dropped, served>>

\* sendText(): Meta refuses, or accepts and its answer is lost.
ReplyFails(k) ==
    /\ clerk[k].stage = "send" /\ clerk[k].provider = "META" /\ Deed
    /\ \/ UNCHANGED reply
       \/ \E r \in Replies : reply[r] = NoReply /\ reply' = [reply EXCEPT ![r].meta = "accepted"]
    /\ Errand(k, NoErrand)
    /\ UNCHANGED <<linked, linking, talk, inbox, post, answered, unseen, late, dropped, served>>

ReplyAccepted(k) ==
    /\ clerk[k].stage = "send"
    /\ \E r \in Replies :
          /\ reply[r] = NoReply
          /\ reply' = [reply EXCEPT ![r].meta =
                          IF clerk[k].provider = "META" THEN "accepted" ELSE "simulated"]
          /\ Errand(k, [stage |-> "save", talk |-> clerk[k].talk, reply |-> r])
    /\ UNCHANGED <<linked, linking, talk, inbox, post, answered, unseen, late, dropped, served, deeds>>

\* The transaction of the request: the row, and the conversation marked as read,
\* with the messages that came while Meta was called.
ReplySaved(k) ==
    /\ clerk[k].stage = "save"
    /\ LET v == clerk[k].talk
           r == clerk[k].reply
       IN  /\ reply' = [reply EXCEPT ![r].row = IF reply[r].meta = "accepted" THEN "SENT" ELSE "SIMULATED"]
           /\ talk' = [talk EXCEPT ![v].status = "ATTENDING", ![v].unread = 0]
           /\ unseen' = [unseen EXCEPT ![v] = 0]
    /\ Errand(k, NoErrand)
    /\ UNCHANGED <<linked, linking, inbox, post, answered, late, dropped, served, deeds>>

\* create(): a conversation, perhaps with a message that was dictated.
TalkOpened(s) ==
    /\ Deed
    /\ \E v \in Talks, dictated \in {0, 1} : TalkBegun(v, s, "ATTENDING", dictated)
    /\ UNCHANGED <<linked, linking, inbox, post, answered, clerk, reply, dropped, served>>

\* update(): one statement with the values of the request.
TalkUpdated(v) ==
    /\ talk[v] # NoTalk /\ Deed
    /\ \E status \in Chosen, read \in BOOLEAN :
          /\ talk' = [talk EXCEPT ![v].status = status, ![v].unread = IF read THEN 0 ELSE @]
          /\ unseen' = [unseen EXCEPT ![v] = IF read THEN 0 ELSE @]
          /\ late' = [late EXCEPT ![v] = @ /\ status # "RESOLVED"]
          /\ talk' # talk
    /\ UNCHANGED <<linked, linking, inbox, post, answered, clerk, reply, dropped, served>>

\* receiveLocal(): a message that is typed in, read and write.
LocalBegins(k, v) ==
    /\ clerk[k] = NoErrand /\ talk[v] # NoTalk /\ Deed
    /\ Errand(k, [stage |-> "local", talk |-> v, status |-> talk[v].status, unread |-> talk[v].unread])
    /\ UNCHANGED <<linked, linking, talk, inbox, post, answered, reply, unseen, late, dropped, served>>

LocalStored(k) ==
    /\ clerk[k].stage = "local"
    /\ MessageStored(clerk[k].talk, clerk[k].status, clerk[k].unread)
    /\ Errand(k, NoErrand)
    /\ UNCHANGED <<linked, linking, inbox, post, answered, reply, dropped, served, deeds>>

ClerkDies(k) ==
    /\ clerk[k] # NoErrand /\ Deed
    /\ Errand(k, NoErrand)
    /\ UNCHANGED <<linked, linking, talk, inbox, post, answered, reply, unseen, late, dropped, served>>

-----------------------------------------------------------------------------
AttentionNext ==
    \/ \E s \in Shops : LinkWrite(s) \/ Unlink(s) \/ TalkOpened(s) \/ \E n \in Numbers : LinkCheck(s, n)
    \/ \E w \in Posts :
          \/ PostReads(w) \/ PostWrites(w) \/ PostAnswers(w) \/ PostDies(w)
          \/ \E b \in Batches : PostArrives(w, b)
    \/ \E r \in Replies : StatusArrives(r)
    \/ \E k \in Clerks :
          \/ ReplyFails(k) \/ ReplyAccepted(k) \/ ReplySaved(k) \/ LocalStored(k) \/ ClerkDies(k)
          \/ \E v \in Talks : ReplyBegins(k, v) \/ LocalBegins(k, v)
    \/ \E v \in Talks : TalkUpdated(v)

AttentionSpec == AttentionInit /\ [][AttentionNext]_attentionVars

-----------------------------------------------------------------------------
AttentionTypeOK ==
    /\ \A s \in Shops : {linked[s], linking[s]} \subseteq
          {NoLink} \union [number : Numbers, status : {"CONNECTED", "ACTION_REQUIRED"}]
    /\ talk \in [Talks -> {NoTalk} \union [shop : Shops, status : TalkStatus, unread : Nat]]
    /\ inbox \subseteq [message : Messages \ Spoiled, shop : Shops, talk : Talks]
    /\ answered \subseteq Batches /\ dropped \subseteq Messages
    /\ reply \in [Replies -> [meta : {"none", "accepted", "simulated"},
                              row : {"none", "SENT", "SIMULATED", "REPORTED"}]]

\* What Meta was told is received is stored, whatever is delivered twice, crashes
\* or is refused; only a number nobody had connected loses its messages.
AnsweredIsStored ==
    \A b \in answered : \A m \in b : m \in dropped \/ \E row \in inbox : row.message = m

\* A message is stored once in a shop, in a conversation of that shop, and the
\* shop had the number it was sent to.
StoredWhereItBelongs ==
    \A row \in inbox :
        /\ talk[row.talk].shop = row.shop
        /\ <<row.shop, Addressee[row.message]>> \in served \/ Legacy[Addressee[row.message]] = row.shop
        /\ \A other \in inbox :
              other.message = row.message /\ other.shop = row.shop => other = row

\* The counter of the list is the number of messages since it was last set to
\* zero: no two webhooks, nor a webhook and a clerk, lose an increment.
UnreadIsCounted == \A v \in Talks : talk[v] # NoTalk => talk[v].unread = unseen[v]

\* No message was stored in a conversation after it was resolved, also when the
\* webhook had read the conversation before the clerk resolved it.
ResolvedIsQuiet == \A v \in Talks : talk[v].status = "RESOLVED" => ~late[v]

\* Two shops that connect the same number at once do not both get it.
NumberHasOneShop ==
    \A s, u \in Shops : s # u /\ linked[s] # NoLink => linked[s].number # linked[u].number

\* The inbox shows what the customer wrote, to the shop he wrote to.
InboxHolds ==
    /\ AnsweredIsStored /\ StoredWhereItBelongs /\ UnreadIsCounted /\ ResolvedIsQuiet
    /\ NumberHasOneShop
=============================================================================
