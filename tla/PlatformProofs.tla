---------------------------- MODULE PlatformProofs ----------------------------
(* Machine-checked proofs about the life of a tenant, the feed of events and a *)
(* request to the API, for any number of webhooks, processes and screens and   *)
(* any bounds on time, crashes and faults.  The three components stand side by *)
(* side in MCPlatform: the invariant of each is proved by itself.              *)
EXTENDS MCPlatform, FiniteSetTheorems, WellFoundedInduction, TLAPS

platformVars == <<part, tenancyVars, feedVars, apiVars>>

\* A step of one component leaves the others alone.
LEMMA StepOfPlatform ==
    ASSUME [PlatformNext]_platformVars
    PROVE  /\ TenancyNext \/ UNCHANGED tenancyVars
           /\ EventFeedNext \/ UNCHANGED feedVars
           /\ ApiNext \/ UNCHANGED apiVars
  BY DEF PlatformNext, platformVars

-----------------------------------------------------------------------------
(* A request to the API.                                                      *)

Codes == {0, 200, 400, 401, 403, 404, 409, 500}
RowsOf(h) == [change : {"none", "part", "whole"}, history : h.history \union {NoHistory},
              events : SUBSET h.events, audit : Codes]
TxnOf(h) == [open : BOOLEAN, broken : BOOLEAN, rows : RowsOf(h)]

\* What a transaction holds when the answer is `code'.
RightRows(rows, code) ==
    /\ code = 200 /\ call.handler.changes =>
          rows.change # "part" /\ rows.history = call.history /\ rows.events = call.handler.events
    /\ code # 200 => rows.history = NoHistory /\ rows.events = {} /\ rows.change # "whole"
    /\ rows.change # "none" => ~call.readOnly /\ call.planned /\ FitsChannel
    /\ rows.history \in {NoHistory, call.history}

Serving == call.handler.changes /\ ~call.readOnly /\ Allowed /\ FitsChannel

CallFits ==
    /\ call.handler \in Handlers /\ call.held \subseteq call.handler.rights
    /\ call.history \in call.handler.history \union {NoHistory}

\* How far the request has come, and what is written by then.
StageHolds ==
    /\ stage \in {"idle", "received"} => txn = NoTxn
    /\ stage # "over" => kept = Unwritten /\ news = {}
    /\ stage \in {"idle", "received", "open", "changed", "noted", "announced"} => status = 0
    /\ stage # "audited" => txn.rows.audit = 0
    /\ stage = "open" => ~txn.broken /\ txn.rows = Unwritten /\ (call.readOnly => ~call.handler.changes)
    /\ stage \in {"changed", "noted", "announced"} => Serving /\ txn.rows.change \in {"none", "whole"}
    /\ stage = "changed" => ~txn.broken /\ txn.rows.history = NoHistory /\ txn.rows.events = {}
    /\ stage = "noted" => txn.rows.events = {} /\ (~txn.broken => txn.rows.history = call.history)
    /\ stage = "announced" =>
          ~txn.broken /\ txn.rows.history = call.history /\ txn.rows.events = call.handler.events
    /\ stage \in {"answered", "audited"} => status # 0 /\ (~txn.broken => RightRows(txn.rows, status))
    /\ stage = "audited" /\ ~txn.broken => txn.rows.audit = status

KeptRight ==
    \/ kept.change = "none" /\ kept.history = NoHistory /\ kept.events = {} /\ kept.audit # 200
    \/ kept.audit = status /\ status # 0 /\ RightRows(kept, status)

ApiSound ==
    /\ CallFits
    /\ stage \in {"idle", "received", "open", "changed", "noted", "announced", "answered", "audited", "over"}
    /\ status \in Codes
    /\ txn \in TxnOf(call.handler) /\ txn.rows.audit \in {0, status}
    /\ kept \in RowsOf(call.handler) /\ kept.audit \in {0, status}
    /\ news \subseteq kept.events
    /\ StageHolds /\ KeptRight

\* How rows and transactions are written.
LEMMA WrittenRows ==
    ASSUME NEW h, NEW t \in TxnOf(h)
    PROVE  /\ t.rows \in RowsOf(h) /\ t.open \in BOOLEAN /\ t.broken \in BOOLEAN
           /\ \A u : u = [t EXCEPT !.open = TRUE] =>
                 u \in TxnOf(h) /\ u.rows = t.rows /\ u.broken = t.broken
           /\ \A u : u = [t EXCEPT !.broken = TRUE] => u \in TxnOf(h) /\ u.rows = t.rows /\ u.broken
           /\ \A c \in {"none", "part", "whole"} : \A u : u = [t EXCEPT !.rows.change = c] =>
                 /\ u \in TxnOf(h) /\ u.broken = t.broken /\ u.rows.change = c
                 /\ u.rows.history = t.rows.history /\ u.rows.events = t.rows.events /\ u.rows.audit = t.rows.audit
           /\ \A x \in h.history \union {NoHistory} : \A u : u = [t EXCEPT !.rows.history = x] =>
                 /\ u \in TxnOf(h) /\ u.broken = t.broken /\ u.rows.change = t.rows.change
                 /\ u.rows.history = x /\ u.rows.events = t.rows.events /\ u.rows.audit = t.rows.audit
           /\ \A x \in SUBSET h.events : \A u : u = [t EXCEPT !.rows.events = x] =>
                 /\ u \in TxnOf(h) /\ u.broken = t.broken /\ u.rows.change = t.rows.change
                 /\ u.rows.history = t.rows.history /\ u.rows.events = x /\ u.rows.audit = t.rows.audit
           /\ \A x \in Codes : \A u : u = [t EXCEPT !.rows.audit = x] =>
                 /\ u \in TxnOf(h) /\ u.broken = t.broken /\ u.rows.change = t.rows.change
                 /\ u.rows.history = t.rows.history /\ u.rows.events = t.rows.events /\ u.rows.audit = x
<1>1. t.rows \in RowsOf(h) /\ t.open \in BOOLEAN /\ t.broken \in BOOLEAN
  BY DEF TxnOf
<1>2. \A u : u = [t EXCEPT !.open = TRUE] =>
         u \in TxnOf(h) /\ u.rows = t.rows /\ u.broken = t.broken
  BY DEF TxnOf
<1>3. \A u : u = [t EXCEPT !.broken = TRUE] => u \in TxnOf(h) /\ u.rows = t.rows /\ u.broken
  BY DEF TxnOf
<1>4. \A c \in {"none", "part", "whole"} : \A u : u = [t EXCEPT !.rows.change = c] =>
         /\ u \in TxnOf(h) /\ u.broken = t.broken /\ u.rows.change = c
         /\ u.rows.history = t.rows.history /\ u.rows.events = t.rows.events /\ u.rows.audit = t.rows.audit
  BY DEF TxnOf, RowsOf
<1>5. \A x \in h.history \union {NoHistory} : \A u : u = [t EXCEPT !.rows.history = x] =>
         /\ u \in TxnOf(h) /\ u.broken = t.broken /\ u.rows.change = t.rows.change
         /\ u.rows.history = x /\ u.rows.events = t.rows.events /\ u.rows.audit = t.rows.audit
  BY DEF TxnOf, RowsOf
<1>6. \A x \in SUBSET h.events : \A u : u = [t EXCEPT !.rows.events = x] =>
         /\ u \in TxnOf(h) /\ u.broken = t.broken /\ u.rows.change = t.rows.change
         /\ u.rows.history = t.rows.history /\ u.rows.events = x /\ u.rows.audit = t.rows.audit
  BY DEF TxnOf, RowsOf
<1>7. \A x \in Codes : \A u : u = [t EXCEPT !.rows.audit = x] =>
         /\ u \in TxnOf(h) /\ u.broken = t.broken /\ u.rows.change = t.rows.change
         /\ u.rows.history = t.rows.history /\ u.rows.events = t.rows.events /\ u.rows.audit = x
  BY DEF TxnOf, RowsOf
<1>8. QED
  BY <1>1, <1>2, <1>3, <1>4, <1>5, <1>6, <1>7

LEMMA FirstRows ==
    ASSUME NEW h
    PROVE  /\ Unwritten \in RowsOf(h) /\ NoTxn \in TxnOf(h) /\ NoTxn.rows = Unwritten /\ ~NoTxn.broken
           /\ Unwritten.change = "none" /\ Unwritten.history = NoHistory /\ Unwritten.events = {} /\ Unwritten.audit = 0
  BY DEF Unwritten, NoTxn, RowsOf, TxnOf, Codes

LEMMA CallStays ==
    ASSUME call' = call
    PROVE  /\ CallFits => CallFits'
           /\ Serving' = Serving
           /\ \A rows, code : RightRows(rows, code)' = RightRows(rows, code)
  BY DEF CallFits, Serving, Allowed, RightRows, FitsChannel

LEMMA ApiBegins == ApiInit => ApiSound
<1> SUFFICES ASSUME ApiInit
             PROVE  ApiSound
  OBVIOUS
<1>1. call = NoCall /\ stage = "idle" /\ status = 0 /\ txn = NoTxn /\ kept = Unwritten /\ news = {}
  BY DEF ApiInit
<1>2. listOrders \in Handlers
  BY DEF Handlers, OrderHandlers
<1>3. CallFits
  BY <1>1, <1>2 DEF CallFits, NoCall
<1>4. QED
  BY <1>1, <1>3, FirstRows DEF ApiSound, StageHolds, KeptRight, Codes

LEMMA ReceiveSound ==
    ASSUME ApiSound, Receive
    PROVE  ApiSound'
<1>1. stage = "idle" /\ stage' = "received" /\ status' = status /\ txn' = txn /\ kept' = kept /\ news' = news
  BY DEF Receive
<1>2. txn = NoTxn /\ kept = Unwritten /\ news = {} /\ status = 0
  BY <1>1 DEF ApiSound, StageHolds
<1>3. PICK h \in Handlers, planned \in BOOLEAN, readOnly \in BOOLEAN :
         \E held \in SUBSET h.rights :
            \E history \in IF h.history = {} THEN {NoHistory} ELSE h.history :
               call' = [handler |-> h, history |-> history, held |-> held,
                        planned |-> planned \/ h.feature = "", readOnly |-> readOnly]
  BY DEF Receive
<1>4. PICK held \in SUBSET h.rights, history \in IF h.history = {} THEN {NoHistory} ELSE h.history :
         call' = [handler |-> h, history |-> history, held |-> held,
                  planned |-> planned \/ h.feature = "", readOnly |-> readOnly]
  BY <1>3
<1>5. call'.handler = h /\ call'.held = held /\ call'.history = history
  BY <1>4
<1>6. CallFits'
  BY <1>4, <1>5 DEF CallFits
<1>7. QED
  BY <1>1, <1>2, <1>6, FirstRows DEF ApiSound, StageHolds, KeptRight, Codes

\* Before the transaction is open the request is turned away, or goes on.
LEMMA AdmitSound ==
    ASSUME ApiSound, Unauthenticated \/ ReadOnlyRefused \/ Open
    PROVE  ApiSound'
<1>1. call' = call /\ stage = "received" /\ news' = news
  BY DEF Unauthenticated, ReadOnlyRefused, Open
<1>2. txn = NoTxn /\ kept = Unwritten /\ news = {} /\ status = 0 /\ CallFits'
  BY <1>1, CallStays DEF ApiSound, StageHolds
<1>3. CASE Unauthenticated
  <2>1. PICK audit \in {0, 401} : kept' = [kept EXCEPT !.audit = audit]
    BY <1>3 DEF Unauthenticated
  <2>2. /\ kept' \in RowsOf(call.handler) /\ kept'.change = "none" /\ kept'.history = NoHistory
        /\ kept'.events = {} /\ kept'.audit \in {0, 401}
    BY <1>2, <2>1, FirstRows DEF RowsOf, Codes
  <2>3. status' = 401 /\ stage' = "over" /\ txn' = txn
    BY <1>3 DEF Unauthenticated
  <2>4. QED
    BY <1>1, <1>2, <2>2, <2>3, FirstRows DEF ApiSound, StageHolds, KeptRight, Codes
<1>4. CASE ReadOnlyRefused
  <2>1. status' = 403 /\ stage' = "over" /\ txn' = txn /\ kept' = kept
    BY <1>4 DEF ReadOnlyRefused
  <2>2. QED
    BY <1>1, <1>2, <2>1, FirstRows DEF ApiSound, StageHolds, KeptRight, Codes
<1>5. CASE Open
  <2>1. /\ txn' = [txn EXCEPT !.open = TRUE] /\ stage' = "open" /\ status' = status /\ kept' = kept
        /\ call.readOnly => ~call.handler.changes
    BY <1>5 DEF Open
  <2>2. txn \in TxnOf(call.handler)
    BY DEF ApiSound
  <2>3. txn' \in TxnOf(call.handler) /\ txn'.rows = txn.rows /\ txn'.broken = txn.broken
    BY <2>1, <2>2, WrittenRows
  <2>4. QED
    BY <1>1, <1>2, <2>1, <2>3, FirstRows DEF ApiSound, StageHolds, KeptRight, Codes
<1>6. QED
  BY <1>3, <1>4, <1>5

\* A request that is answered with an error although nothing was refused.
LEMMA TurnedAwaySound ==
    ASSUME ApiSound, Forbid \/ Refuse
    PROVE  ApiSound'
<1>1. /\ call' = call /\ stage = "open" /\ stage' = "answered" /\ status' \in {400, 403}
      /\ txn' = txn /\ kept' = kept /\ news' = news
  BY DEF Forbid, Refuse, Answer
<1>2. txn.rows = Unwritten /\ kept = Unwritten /\ news = {} /\ CallFits'
  BY <1>1, CallStays DEF ApiSound, StageHolds
<1>3. RightRows(txn.rows, status)'
  BY <1>1, <1>2, FirstRows DEF RightRows
<1>4. QED
  BY <1>1, <1>2, <1>3, FirstRows DEF ApiSound, StageHolds, KeptRight, Codes

LEMMA ServeSound ==
    ASSUME ApiSound, Serve
    PROVE  ApiSound'
<1>1. /\ call' = call /\ stage = "open" /\ kept' = kept /\ news' = news /\ Allowed /\ FitsChannel
  BY DEF Serve
<1>2. /\ txn.rows = Unwritten /\ ~txn.broken /\ kept = Unwritten /\ news = {} /\ status = 0
      /\ CallFits' /\ txn \in TxnOf(call.handler) /\ (call.readOnly => ~call.handler.changes)
  BY <1>1, CallStays DEF ApiSound, StageHolds
<1>3. ASSUME NEW change \in {"none", "part", "whole"}, call.handler.changes, txn' = [txn EXCEPT !.rows.change = change]
      PROVE  /\ txn' \in TxnOf(call.handler) /\ txn'.rows.audit = 0 /\ ~txn'.broken
             /\ txn'.rows.change = change /\ txn'.rows.history = NoHistory /\ txn'.rows.events = {}
             /\ Serving
             /\ change # "whole" => \A code : code # 200 => RightRows(txn'.rows, code)
  <2>1. /\ txn' \in TxnOf(call.handler) /\ txn'.rows.audit = 0 /\ ~txn'.broken
        /\ txn'.rows.change = change /\ txn'.rows.history = NoHistory /\ txn'.rows.events = {}
    BY <1>2, <1>3, WrittenRows, FirstRows
  <2>2. Serving
    BY <1>1, <1>2, <1>3 DEF Serving
  <2>3. QED
    BY <1>1, <1>2, <1>3, <2>1, <2>2 DEF RightRows, Serving, Allowed
<1>4. CASE /\ call.handler.changes
           /\ \E change \in {"none", "whole"} : txn' = [txn EXCEPT !.rows.change = change]
           /\ stage' = "changed" /\ UNCHANGED status
  <2>1. PICK change \in {"none", "whole"} : txn' = [txn EXCEPT !.rows.change = change]
    BY <1>4
  <2>2. /\ txn' \in TxnOf(call.handler) /\ txn'.rows.audit = 0 /\ ~txn'.broken
        /\ txn'.rows.change = change /\ txn'.rows.history = NoHistory /\ txn'.rows.events = {} /\ Serving
    BY <1>3, <1>4, <2>1
  <2>3. Serving'
    BY <1>1, <2>2, CallStays
  <2>4. QED
    BY <1>1, <1>2, <1>4, <2>2, <2>3, FirstRows DEF ApiSound, StageHolds, KeptRight, Codes
<1>5. CASE /\ call.handler.changes
           /\ \E change \in {"none", "part"} : txn' = [txn EXCEPT !.rows.change = change]
           /\ Answer(409)
  <2>1. PICK change \in {"none", "part"} : txn' = [txn EXCEPT !.rows.change = change]
    BY <1>5
  <2>2. stage' = "answered" /\ status' = 409
    BY <1>5 DEF Answer
  <2>3. /\ txn' \in TxnOf(call.handler) /\ txn'.rows.audit = 0 /\ ~txn'.broken /\ RightRows(txn'.rows, 409)
    BY <1>3, <1>5, <2>1
  <2>4. RightRows(txn.rows, status)'
    BY <1>1, <2>2, <2>3 DEF RightRows, FitsChannel
  <2>5. QED
    BY <1>1, <1>2, <2>2, <2>3, <2>4, FirstRows DEF ApiSound, StageHolds, KeptRight, Codes
<1>6. CASE ~call.handler.changes /\ (Answer(200) \/ Answer(404)) /\ UNCHANGED txn
  <2>1. stage' = "answered" /\ status' \in {200, 404} /\ txn' = txn
    BY <1>6 DEF Answer
  <2>2. RightRows(txn.rows, status)'
    BY <1>1, <1>2, <1>6, <2>1, FirstRows DEF RightRows
  <2>3. QED
    BY <1>1, <1>2, <2>1, <2>2, FirstRows DEF ApiSound, StageHolds, KeptRight, Codes
<1>7. QED
  BY <1>4, <1>5, <1>6 DEF Serve

\* Whatever was written, a transaction with a refused statement keeps nothing.
LEMMA BrokenSound ==
    ASSUME ApiSound, stage \in {"open", "changed", "noted", "announced"}, call' = call, txn' = Broken,
           kept' = kept, news' = news,
           \/ stage' = "answered" /\ status' = 500
           \/ stage = "changed" /\ stage' = "noted" /\ status' = status
    PROVE  ApiSound'
<1>1. /\ kept = Unwritten /\ news = {} /\ status = 0 /\ txn.rows.audit = 0
      /\ txn \in TxnOf(call.handler) /\ CallFits'
  BY CallStays DEF ApiSound, StageHolds
<1>2. txn' \in TxnOf(call.handler) /\ txn'.rows = txn.rows /\ txn'.broken
  BY <1>1, WrittenRows DEF Broken
<1>3. stage' = "noted" => Serving' /\ txn'.rows.change \in {"none", "whole"} /\ txn'.rows.events = {}
  <2>1. stage' = "noted" => stage = "changed"
    OBVIOUS
  <2>2. stage = "changed" => Serving /\ txn.rows.change \in {"none", "whole"} /\ txn.rows.events = {}
    BY DEF ApiSound, StageHolds
  <2>3. QED
    BY <1>2, <2>1, <2>2, CallStays
<1>4. QED
  BY <1>1, <1>2, <1>3, FirstRows DEF ApiSound, StageHolds, KeptRight, Codes

LEMMA NoteSound ==
    ASSUME ApiSound, Note
    PROVE  ApiSound'
<1>1. call' = call /\ stage = "changed" /\ stage' = "noted" /\ status' = status /\ kept' = kept /\ news' = news
  BY DEF Note
<1>2. CASE txn' = [txn EXCEPT !.rows.history = call.history]
  <2>1. /\ kept = Unwritten /\ news = {} /\ status = 0 /\ txn.rows.audit = 0 /\ txn.rows.events = {} /\ Serving
        /\ txn.rows.change \in {"none", "whole"}
        /\ txn \in TxnOf(call.handler) /\ CallFits /\ CallFits'
    BY <1>1, CallStays DEF ApiSound, StageHolds
  <2>2. PICK h, x : h = call.handler /\ x = call.history
    OBVIOUS
  <2>3. /\ txn' \in TxnOf(call.handler) /\ txn'.broken = txn.broken /\ txn'.rows.change = txn.rows.change
        /\ txn'.rows.history = call.history /\ txn'.rows.events = txn.rows.events /\ txn'.rows.audit = txn.rows.audit
    <3>1. x \in h.history \union {NoHistory} /\ txn \in TxnOf(h) /\ txn' = [txn EXCEPT !.rows.history = x]
      BY <1>2, <2>1, <2>2 DEF CallFits
    <3>2. QED
      BY <2>2, <3>1, WrittenRows
  <2>4. Serving'
    BY <1>1, <2>1, CallStays
  <2>5. QED
    BY <1>1, <2>1, <2>3, <2>4, FirstRows DEF ApiSound, StageHolds, KeptRight, Codes
<1>3. CASE txn' = Broken
  BY <1>1, <1>3, BrokenSound
<1>4. QED
  BY <1>2, <1>3 DEF Note

LEMMA AnnounceSound ==
    ASSUME ApiSound, Announce
    PROVE  ApiSound'
<1>1. call' = call /\ stage = "noted" /\ kept' = kept
  BY DEF Announce
<1>2. /\ kept = Unwritten /\ news = {} /\ status = 0 /\ txn.rows.audit = 0 /\ Serving
      /\ txn.rows.change \in {"none", "whole"} /\ (~txn.broken => txn.rows.history = call.history)
      /\ txn \in TxnOf(call.handler) /\ CallFits /\ CallFits' /\ Serving'
  BY <1>1, CallStays DEF ApiSound, StageHolds
<1>3. CASE /\ ~txn.broken
           /\ txn' = [txn EXCEPT !.rows.events = call.handler.events]
           /\ news' = news \union ToldLater
           /\ stage' = "announced" /\ UNCHANGED <<status, apiFaults>>
  <2>1. PICK h, events : h = call.handler /\ events = h.events
    OBVIOUS
  <2>2. events \in SUBSET h.events /\ txn' = [txn EXCEPT !.rows.events = events] /\ txn \in TxnOf(h)
    BY <1>2, <1>3, <2>1
  <2>3. /\ txn' \in TxnOf(h) /\ txn'.broken = txn.broken /\ txn'.rows.change = txn.rows.change
        /\ txn'.rows.history = txn.rows.history /\ txn'.rows.events = events /\ txn'.rows.audit = txn.rows.audit
    BY <2>2, WrittenRows
  <2>4. news' = {} /\ status' = 0 /\ stage' = "announced" /\ ~txn.broken
    BY <1>2, <1>3 DEF ToldLater
  <2>5. QED
    BY <1>1, <1>2, <2>1, <2>3, <2>4, FirstRows DEF ApiSound, StageHolds, KeptRight, Codes
<1>4. CASE txn.broken /\ Answer(500) /\ UNCHANGED <<txn, news, apiFaults>>
  <2>1. stage' = "answered" /\ status' = 500 /\ txn' = txn /\ news' = news /\ txn.broken
    BY <1>4 DEF Answer
  <2>2. QED
    BY <1>1, <1>2, <2>1, FirstRows DEF ApiSound, StageHolds, KeptRight, Codes
<1>5. CASE txn' = Broken /\ Answer(500) /\ UNCHANGED news
  BY <1>1, <1>5, BrokenSound DEF Answer
<1>6. QED
  BY <1>3, <1>4, <1>5 DEF Announce

LEMMA SucceedSound ==
    ASSUME ApiSound, Succeed
    PROVE  ApiSound'
<1>1. call' = call /\ stage = "announced" /\ kept' = kept /\ news' = news
  BY DEF Succeed
<1>2. CASE Answer(200) /\ UNCHANGED <<txn, apiFaults>>
  <2>1. stage' = "answered" /\ status' = 200 /\ txn' = txn
    BY <1>2 DEF Answer
  <2>2. /\ kept = Unwritten /\ news = {} /\ status = 0 /\ txn.rows.audit = 0 /\ Serving
        /\ txn.rows.change \in {"none", "whole"} /\ ~txn.broken
        /\ txn.rows.history = call.history /\ txn.rows.events = call.handler.events /\ CallFits'
    BY <1>1, CallStays DEF ApiSound, StageHolds
  <2>3. RightRows(txn.rows, 200)
    BY <2>2 DEF RightRows, Serving, Allowed
  <2>4. RightRows(txn.rows, status)'
    BY <1>1, <2>1, <2>3 DEF RightRows, FitsChannel
  <2>5. QED
    BY <1>1, <2>1, <2>2, <2>4, FirstRows DEF ApiSound, StageHolds, KeptRight, Codes
<1>3. CASE txn' = Broken /\ Answer(500)
  BY <1>1, <1>3, BrokenSound DEF Answer
<1>4. QED
  BY <1>2, <1>3 DEF Succeed

LEMMA AuditSound ==
    ASSUME ApiSound, Audit
    PROVE  ApiSound'
<1>1. call' = call /\ stage = "answered" /\ stage' = "audited" /\ status' = status /\ kept' = kept /\ news' = news
  BY DEF Audit
<1>2. /\ kept = Unwritten /\ news = {} /\ status # 0 /\ status \in Codes /\ (~txn.broken => RightRows(txn.rows, status))
      /\ txn \in TxnOf(call.handler) /\ CallFits' /\ txn.rows.audit = 0
  BY <1>1, CallStays DEF ApiSound, StageHolds
<1>3. CASE ~txn.broken /\ txn' = [txn EXCEPT !.rows.audit = status]
  <2>1. /\ txn' \in TxnOf(call.handler) /\ txn'.broken = txn.broken /\ txn'.rows.change = txn.rows.change
        /\ txn'.rows.history = txn.rows.history /\ txn'.rows.events = txn.rows.events /\ txn'.rows.audit = status
    BY <1>2, <1>3, WrittenRows
  <2>2. RightRows(txn.rows, status)'
    BY <1>1, <1>2, <1>3, <2>1 DEF RightRows, FitsChannel
  <2>3. QED
    BY <1>1, <1>2, <2>1, <2>2, FirstRows DEF ApiSound, StageHolds, KeptRight, Codes
<1>4. CASE txn.broken /\ txn' = txn
  BY <1>1, <1>2, <1>4, FirstRows DEF ApiSound, StageHolds, KeptRight, Codes
<1>5. CASE ~txn.broken /\ txn' = Broken
  <2>1. txn' \in TxnOf(call.handler) /\ txn'.rows = txn.rows /\ txn'.broken
    BY <1>2, <1>5, WrittenRows DEF Broken
  <2>2. QED
    BY <1>1, <1>2, <2>1, FirstRows DEF ApiSound, StageHolds, KeptRight, Codes
<1>6. QED
  BY <1>3, <1>4, <1>5 DEF Audit

LEMMA CommitSound ==
    ASSUME ApiSound, CommitRequest
    PROVE  ApiSound'
<1>1. /\ call' = call /\ stage = "audited" /\ stage' = "over" /\ status' = status /\ news' = news
      /\ txn' = NoTxn /\ kept' = IF txn.broken THEN kept ELSE txn.rows
  BY DEF CommitRequest, Committed
<1>2. /\ kept = Unwritten /\ news = {} /\ status # 0 /\ status \in Codes /\ CallFits'
      /\ ~txn.broken => RightRows(txn.rows, status) /\ txn.rows.audit = status
      /\ txn.rows \in RowsOf(call.handler)
  BY <1>1, CallStays, WrittenRows DEF ApiSound, StageHolds
<1>3. CASE txn.broken
  BY <1>1, <1>2, <1>3, FirstRows DEF ApiSound, StageHolds, KeptRight, Codes
<1>4. CASE ~txn.broken
  <2>1. RightRows(kept, status)'
    BY <1>1, <1>2, <1>4 DEF RightRows, FitsChannel
  <2>2. QED
    BY <1>1, <1>2, <1>4, <2>1, FirstRows DEF ApiSound, StageHolds, KeptRight, Codes
<1>5. QED
  BY <1>3, <1>4

LEMMA KeptStays ==
    ASSUME KeptRight, call' = call, kept' = kept, status' = status
    PROVE  KeptRight'
  BY DEF KeptRight, RightRows, FitsChannel

\* A request that is lost, and the events that are dispatched.
LEMMA AfterwardsSound ==
    ASSUME ApiSound, Lose \/ Dispatch
    PROVE  ApiSound'
<1>1. call' = call /\ kept' = kept /\ status' = status /\ stage' = "over"
  BY DEF Lose, Dispatch
<1>2. KeptRight' /\ CallFits'
  BY <1>1, KeptStays, CallStays DEF ApiSound
<1>3. CASE Lose
  <2>1. txn' = NoTxn /\ news' = news
    BY <1>3 DEF Lose
  <2>2. QED
    BY <1>1, <1>2, <2>1, FirstRows DEF ApiSound, StageHolds
<1>4. CASE Dispatch
  <2>1. txn' = txn /\ stage = "over" /\ news' \subseteq kept.events
    BY <1>4 DEF Dispatch, ApiSound
  <2>2. QED
    BY <1>1, <1>2, <2>1 DEF ApiSound, StageHolds
<1>5. QED
  BY <1>3, <1>4

LEMMA ApiStays ==
    ASSUME ApiSound, UNCHANGED apiVars
    PROVE  ApiSound'
<1>1. /\ call' = call /\ stage' = stage /\ status' = status /\ txn' = txn /\ kept' = kept /\ news' = news
  BY DEF apiVars
<1>2. KeptRight' /\ CallFits'
  BY <1>1, KeptStays, CallStays DEF ApiSound
<1>3. StageHolds'
  BY <1>1 DEF ApiSound, StageHolds, Serving, Allowed, RightRows, FitsChannel
<1>4. QED
  BY <1>1, <1>2, <1>3 DEF ApiSound

LEMMA ApiStep ==
    ASSUME ApiSound, ApiNext \/ UNCHANGED apiVars
    PROVE  ApiSound'
<1>1. CASE ServeFails
  <2>1. stage = "open" /\ call' = call /\ txn' = Broken /\ kept' = kept /\ news' = news /\ stage' = "answered" /\ status' = 500
    BY <1>1 DEF ServeFails, Answer
  <2>2. QED
    BY <2>1, BrokenSound
<1>2. QED
  BY <1>1, ReceiveSound, AdmitSound, TurnedAwaySound, ServeSound, NoteSound, AnnounceSound, SucceedSound,
     AuditSound, CommitSound, AfterwardsSound, ApiStays DEF ApiNext

LEMMA ApiIsSound == PlatformSpec => []ApiSound
<1>1. PlatformInit => ApiSound
  BY ApiBegins DEF PlatformInit
<1>2. ApiSound /\ [PlatformNext]_platformVars => ApiSound'
  BY StepOfPlatform, ApiStep
<1>3. QED
  BY <1>1, <1>2, PTL DEF PlatformSpec, platformVars

LEMMA ApiPromises ==
    ASSUME ApiSound
    PROVE  ApiTypeOK /\ NewsIsTrue
<1>1. KeptRight /\ CallFits /\ news \subseteq kept.events /\ txn.rows \in RowsOf(call.handler) /\ kept \in RowsOf(call.handler)
  BY WrittenRows DEF ApiSound
<1>2. ApiTypeOK
  BY <1>1 DEF ApiSound, CallFits, ApiTypeOK, RowsOf, Codes
<1>3. CASE kept.change = "none" /\ kept.history = NoHistory /\ kept.events = {} /\ kept.audit # 200
  <2>1. RecordsAgree /\ CreatedByRight
    BY <1>3 DEF RecordsAgree, CreatedByRight
  <2>2. QED
    BY <1>1, <1>2, <2>1 DEF NewsIsTrue, NewsOfKept
<1>4. CASE kept.audit = status /\ status # 0 /\ RightRows(kept, status)
  <2>1. RecordsAgree
    BY <1>4 DEF RecordsAgree, RightRows
  <2>2. CreatedByRight
    BY <1>4 DEF CreatedByRight, RightRows, FitsChannel, NoHistory
  <2>3. QED
    BY <1>1, <1>2, <2>1, <2>2 DEF NewsIsTrue, NewsOfKept
<1>5. QED
  BY <1>1, <1>2, <1>3, <1>4 DEF KeptRight

-----------------------------------------------------------------------------
(* The life of the tenant: types, and the webhooks in flight.                 *)

TenantRow == [status : TenantStatus, kind : {"TRIAL", "CUSTOMER"}, grace : TenancyDates, prod : BOOLEAN]
HookRow == [event : EventIds, type : EventTypes, paid : TenancyDates, seen : TenantRow]

\* An event in flight is new, and in flight once; the tenant it has read is not gone.
HooksHold ==
    /\ hook \in [Deliveries -> HookRow \union {NoHook}]
    /\ \A d \in HooksInFlight : event[hook[d].event] = "NEW" /\ ten.status # "PURGED"
    /\ \A c, d \in HooksInFlight : hook[c].event = hook[d].event => c = d
    /\ \A e \in EventIds : applied[e] = IF event[e] = "PROCESSED" THEN 1 ELSE 0

\* A tenant that pays has no grace period that could end.
PaidHolds == sub = "ACTIVE" => ten.status = "PURGED" \/ (ten.status = "ACTIVE" /\ ten.grace = NoTime)

JobRow == [status : JobStatus, due : TenancyDates, attempts : 0..MaxAttempts]
Phases == {"idle", "down", "files", "read", "mark", "members", "rows", "log", "users", "complete"}

\* There is a job as soon as the trial has expired, due when the grace has ended or
\* later; the worker has it in its hands only then.
PurgeHolds ==
    /\ job \in JobRow /\ purge.phase \in Phases
    /\ purge.phase = "mark" /\ purge.seen = "PURGED" => ten.status = "PURGED"
    /\ ten.status = "TRIAL" => job.status = "NONE"
    /\ job.status # "NONE" => lapsed \in Nat /\ job.due \in Nat /\ lapsed + Grace <= job.due
    /\ job.status = "RUNNING" => job.due <= now
    /\ purge.phase \notin {"idle", "down"} => job.status = "RUNNING"

TenancySound == TenancyTypeOK /\ HooksHold /\ PaidHolds /\ PurgeHolds

\* Nothing of a tenant is deleted before the grace period has ended.
Fairly ==
    \/ files /\ ~files'
    \/ data' # data
    \/ ten.status # "PURGED" /\ ten'.status = "PURGED"
    => lapsed # NoTime /\ lapsed + Grace <= now

LEMMA TenancyDomains ==
    /\ MaxTime \in Nat /\ MaxCrashes \in Nat /\ MaxAttempts \in Nat /\ MaxAttempts > 0 /\ NoTime \notin Nat /\ Grace = 1
    /\ \A t : t \in TenancyDates <=> t = NoTime \/ (t \in Nat /\ t <= MaxTime)
    /\ \A t : t \in TenancyTime <=> t \in Nat /\ t <= MaxTime
  BY TenancyAssumption DEF TenancyDates, TenancyTime, Grace

LEMMA HookRows ==
    ASSUME HooksHold
    PROVE  /\ HooksInFlight \subseteq Deliveries /\ \A d \in HooksInFlight : hook[d] \in HookRow
           /\ \A h \in HookRow : h # NoHook
<1>1. \A h \in HookRow : h # NoHook
  BY TenancyAssumption DEF HookRow, NoHook
<1>2. QED
  BY <1>1 DEF HooksHold, HooksInFlight

LEMMA TenancyBegins == TenancyInit => TenancySound
<1> SUFFICES ASSUME TenancyInit
             PROVE  TenancySound
  OBVIOUS
<1>1. /\ now = 0 /\ ten = [status |-> "TRIAL", kind |-> "TRIAL", grace |-> NoTime, prod |-> FALSE]
      /\ sub = "TRIALING" /\ event = [e \in EventIds |-> "NEW"] /\ hook = [d \in Deliveries |-> NoHook]
      /\ applied = [e \in EventIds |-> 0] /\ job = NoJob /\ purge = IdleWorker
      /\ data = {"rows", "users"} /\ crashes = 0
  BY DEF TenancyInit
<1>2. ten \in TenantRow
  BY <1>1, TenancyDomains DEF TenantRow, TenantStatus
<1>7. job \in JobRow
  BY <1>1, TenancyDomains DEF NoJob, JobRow, JobStatus
<1>3. TenancyTypeOK
  BY <1>1, <1>2, <1>7, TenancyDomains DEF TenancyTypeOK, TenantRow, SubscriptionStatus, JobRow
<1>4. HooksInFlight = {}
  BY <1>1 DEF HooksInFlight
<1>5. HooksHold
  BY <1>1, <1>4 DEF HooksHold
<1>6. QED
  <2>1. PurgeHolds
    BY <1>1, <1>7, TenancyDomains DEF PurgeHolds, IdleWorker, NoJob, AtWork, PurgeAt, Phases
  <2>2. PaidHolds
    BY <1>1 DEF PaidHolds
  <2>3. QED
    BY <1>3, <1>5, <2>1, <2>2 DEF TenancySound

\* Time, a voucher, the trial, the grace period, production: one row is written.
LEMMA TenancyAloneStep ==
    ASSUME TenancySound, Tick \/ EmitVoucher \/ ExpireTrial \/ SuspendUnpaid \/ ApproveRead \/ ApproveWrite
    PROVE  TenancySound' /\ Fairly
<1>1. /\ now \in Nat /\ now <= MaxTime /\ ten \in TenantRow /\ sub \in SubscriptionStatus
      /\ event' = event /\ hook' = hook /\ applied' = applied /\ purge' = purge /\ data' = data /\ crashes' = crashes
  BY TenancyDomains DEF TenancySound, TenancyTypeOK, TenantRow, Tick, EmitVoucher, ExpireTrial, SuspendUnpaid,
     ApproveRead, ApproveWrite
<1>2. HooksInFlight' = HooksInFlight
  BY <1>1 DEF HooksInFlight
<1>3. (ten'.status = "PURGED" => ten.status = "PURGED") => HooksHold'
  BY <1>1, <1>2 DEF TenancySound, HooksHold
<1>4. CASE Tick
  <2>1. /\ now' = now + 1 /\ now < MaxTime /\ ten' = ten /\ sub' = sub /\ job' = job /\ lapsed' = lapsed /\ files' = files
    BY <1>4 DEF Tick
  <2>2. TenancyTypeOK' /\ now' \in Nat
    BY <1>1, <2>1, TenancyDomains DEF TenancySound, TenancyTypeOK
  <2>3. PaidHolds' /\ Fairly
    BY <1>1, <2>1 DEF TenancySound, PaidHolds, Fairly
  <2>4. PurgeHolds'
    <3>1. PurgeHolds /\ (job.status # "NONE" => job.due \in Nat)
      BY DEF TenancySound, PurgeHolds
    <3>2. QED
      BY <1>1, <2>1, <3>1 DEF PurgeHolds
  <2>5. QED
    BY <1>3, <2>1, <2>2, <2>3, <2>4 DEF TenancySound
<1>5. CASE EmitVoucher
  <2>1. /\ files' = TRUE /\ now' = now /\ ten' = ten /\ sub' = sub /\ job' = job /\ lapsed' = lapsed
    BY <1>5 DEF EmitVoucher
  <2>2. QED
    BY <1>1, <1>3, <2>1 DEF TenancySound, TenancyTypeOK, PaidHolds, PurgeHolds, Fairly
<1>6. CASE ExpireTrial
  <2>1. /\ ten.status = "TRIAL" /\ now + Grace \in TenancyDates
        /\ ten' = [ten EXCEPT !.status = "EXPIRED", !.grace = now + Grace, !.prod = FALSE]
        /\ job' = [NoJob EXCEPT !.status = "PENDING", !.due = now + Grace] /\ lapsed' = now
        /\ now' = now /\ sub' = sub /\ files' = files
    BY <1>6 DEF ExpireTrial, GraceEnd
  <2>2. ten' \in TenantRow /\ ten'.status = "EXPIRED"
    BY <1>1, <2>1 DEF TenantRow, TenantStatus
  <2>7. job' \in JobRow /\ job'.status = "PENDING" /\ job'.due = now + Grace
    <3>1. PICK d \in TenancyDates : d = now + Grace
      BY <2>1
    <3>2. job' = [status |-> "PENDING", due |-> d, attempts |-> 0]
      BY <2>1, <3>1 DEF NoJob
    <3>3. 0 \in 0..MaxAttempts
      BY TenancyDomains
    <3>4. QED
      BY <3>1, <3>2, <3>3 DEF JobRow, JobStatus
  <2>3. TenancyTypeOK'
    BY <1>1, <2>1, <2>2, <2>7 DEF TenancySound, TenancyTypeOK, TenantRow, JobRow
  <2>4. sub # "ACTIVE" /\ purge.phase \in {"idle", "down"}
    BY <2>1 DEF TenancySound, PaidHolds, PurgeHolds
  <2>5. PurgeHolds'
    BY <1>1, <2>1, <2>2, <2>4, <2>7 DEF PurgeHolds, Phases, Grace
  <2>6. QED
    BY <1>1, <1>3, <2>1, <2>2, <2>3, <2>4, <2>5 DEF TenancySound, PaidHolds, Fairly
<1>7. CASE SuspendUnpaid
  <2>1. /\ ten.status = "ACTIVE" /\ ten.grace # NoTime /\ ten' = [ten EXCEPT !.status = "SUSPENDED"]
        /\ sub' = (IF sub = "PAST_DUE" THEN "SUSPENDED" ELSE sub)
        /\ now' = now /\ job' = job /\ lapsed' = lapsed /\ files' = files
    BY <1>7 DEF SuspendUnpaid, InGrace
  <2>2. ten' \in TenantRow /\ ten'.status = "SUSPENDED"
    BY <1>1, <2>1 DEF TenantRow, TenantStatus
  <2>3. TenancyTypeOK'
    BY <1>1, <2>1, <2>2 DEF TenancySound, TenancyTypeOK, TenantRow, SubscriptionStatus
  <2>4. sub' # "ACTIVE"
    BY <2>1 DEF TenancySound, PaidHolds
  <2>5. PurgeHolds'
    BY <1>1, <2>1, <2>2 DEF TenancySound, PurgeHolds
  <2>6. QED
    BY <1>1, <1>3, <2>1, <2>2, <2>3, <2>4, <2>5 DEF TenancySound, PaidHolds, Fairly
<1>8. CASE ApproveRead
  <2>1. /\ now' = now /\ ten' = ten /\ sub' = sub /\ job' = job /\ lapsed' = lapsed /\ files' = files
    BY <1>8 DEF ApproveRead
  <2>2. QED
    BY <1>1, <1>3, <2>1 DEF TenancySound, TenancyTypeOK, PaidHolds, PurgeHolds, Fairly
<1>9. CASE ApproveWrite
  <2>1. /\ now' = now /\ ten' = [ten EXCEPT !.prod = TRUE] /\ sub' = sub /\ job' = job /\ lapsed' = lapsed /\ files' = files
    BY <1>9 DEF ApproveWrite
  <2>2. ten' \in TenantRow /\ ten'.status = ten.status /\ ten'.grace = ten.grace
    BY <1>1, <2>1 DEF TenantRow
  <2>3. TenancyTypeOK'
    BY <1>1, <2>1, <2>2 DEF TenancySound, TenancyTypeOK, TenantRow
  <2>4. QED
    BY <1>1, <1>3, <2>1, <2>2, <2>3 DEF TenancySound, PaidHolds, PurgeHolds, Fairly
<1>10. QED
  BY <1>4, <1>5, <1>6, <1>7, <1>8, <1>9

LEMMA DeliverReadStep ==
    ASSUME TenancySound, NEW d \in Deliveries, NEW e \in EventIds, DeliverRead(d, e)
    PROVE  TenancySound' /\ Fairly
<1>1. /\ hook[d] = NoHook /\ event[e] = "NEW" /\ (\A c \in HooksInFlight : hook[c].event # e)
      /\ now' = now /\ ten' = ten /\ sub' = sub /\ applied' = applied /\ job' = job /\ purge' = purge
      /\ files' = files /\ data' = data /\ lapsed' = lapsed /\ crashes' = crashes
  BY DEF DeliverRead, Fresh
<1>2. TenancyTypeOK /\ HooksHold /\ ten \in TenantRow
  BY DEF TenancySound, TenancyTypeOK, TenantRow
<1>3. Fairly /\ PaidHolds' /\ PurgeHolds'
  BY <1>1 DEF TenancySound, PaidHolds, PurgeHolds, Fairly
<1>4. CASE Gone(ten)
  <2>1. event' = [event EXCEPT ![e] = "REJECTED"] /\ hook' = hook
    BY <1>4 DEF DeliverRead
  <2>2. HooksInFlight' = HooksInFlight
    BY <2>1 DEF HooksInFlight
  <2>3. event' \in [EventIds -> {"NEW", "PROCESSED", "REJECTED"}] /\ event'[e] = "REJECTED" /\ \A x \in EventIds \ {e} : event'[x] = event[x]
    BY <1>2, <2>1 DEF TenancyTypeOK
  <2>4. \A c \in HooksInFlight : hook[c].event \in EventIds /\ hook[c].event # e
    BY <1>1, <1>2, HookRows DEF HookRow
  <2>5. HooksHold'
    BY <1>1, <1>2, <2>1, <2>2, <2>3, <2>4 DEF HooksHold
  <2>6. TenancyTypeOK'
    BY <1>1, <1>2, <2>3 DEF TenancyTypeOK
  <2>7. QED
    BY <1>3, <2>5, <2>6 DEF TenancySound
<1>5. CASE ~Gone(ten)
  <2>1. PICK type \in EventTypes, paid \in {NoTime, now, now + 1} :
           /\ paid \in TenancyDates
           /\ hook' = [hook EXCEPT ![d] = [event |-> e, type |-> type, paid |-> paid, seen |-> ten]]
    BY <1>5 DEF DeliverRead
  <2>2. PICK h : h = [event |-> e, type |-> type, paid |-> paid, seen |-> ten]
    OBVIOUS
  <2>3. h \in HookRow /\ h # NoHook /\ h.event = e
    BY <1>2, <2>1, <2>2, HookRows DEF HookRow
  <2>4. /\ hook' \in [Deliveries -> HookRow \union {NoHook}]
        /\ hook'[d] = h /\ \A c \in Deliveries \ {d} : hook'[c] = hook[c]
    BY <1>2, <2>1, <2>2, <2>3 DEF HooksHold
  <2>5. HooksInFlight' = HooksInFlight \union {d}
    BY <2>3, <2>4 DEF HooksInFlight
  <2>6. event' = event /\ ten.status # "PURGED"
    BY <1>5 DEF DeliverRead, Gone
  <2>7. HooksHold'
    <3>1. \A c \in HooksInFlight' : c = d \/ (c \in HooksInFlight /\ hook'[c] = hook[c] /\ c # d)
      BY <1>1, <2>4, <2>5 DEF HooksInFlight
    <3>2. \A c \in HooksInFlight' : event'[hook'[c].event] = "NEW" /\ ten'.status # "PURGED"
      BY <1>1, <1>2, <2>3, <2>4, <2>6, <3>1 DEF HooksHold
    <3>3. \A b, c \in HooksInFlight' : hook'[b].event = hook'[c].event => b = c
      BY <1>1, <1>2, <2>3, <2>4, <3>1 DEF HooksHold
    <3>4. QED
      BY <1>1, <1>2, <2>4, <2>6, <3>2, <3>3 DEF HooksHold
  <2>8. TenancyTypeOK'
    BY <1>1, <1>2, <2>6 DEF TenancyTypeOK
  <2>9. QED
    BY <1>3, <2>7, <2>8 DEF TenancySound
<1>6. QED
  BY <1>4, <1>5

\* A webhook ends: with one of fewer in flight.
LEMMA HookEnds ==
    ASSUME TenancySound, NEW d \in HooksInFlight, hook' = [hook EXCEPT ![d] = NoHook],
           ten'.status = "PURGED" => ten.status = "PURGED",
           \A e \in EventIds : e = hook[d].event \/ event'[e] = event[e],
           \A e \in EventIds : applied'[e] = IF event'[e] = "PROCESSED" THEN 1 ELSE 0
    PROVE  HooksHold'
<1>1. HooksHold /\ d \in Deliveries
  BY DEF TenancySound, HooksInFlight
<1>2. hook' \in [Deliveries -> HookRow \union {NoHook}] /\ hook'[d] = NoHook /\ \A c \in Deliveries \ {d} : hook'[c] = hook[c]
  BY <1>1 DEF HooksHold
<1>3. HooksInFlight' = HooksInFlight \ {d}
  BY <1>2 DEF HooksInFlight
<1>4. \A c \in HooksInFlight' : c \in HooksInFlight /\ c # d /\ hook'[c] = hook[c] /\ hook[c].event \in EventIds
  BY <1>1, <1>2, <1>3, HookRows DEF HookRow
<1>5. \A c \in HooksInFlight' : event'[hook'[c].event] = "NEW" /\ ten'.status # "PURGED"
  BY <1>1, <1>4 DEF HooksHold
<1>6. \A b, c \in HooksInFlight' : hook'[b].event = hook'[c].event => b = c
  BY <1>1, <1>4 DEF HooksHold
<1>7. QED
  BY <1>2, <1>5, <1>6 DEF HooksHold

LEMMA DeliverWriteStep ==
    ASSUME TenancySound, NEW d \in Deliveries, DeliverWrite(d)
    PROVE  TenancySound' /\ Fairly
<1>1. PICK h : h = hook[d]
  OBVIOUS
<1>2. /\ d \in HooksInFlight /\ GraceAfter(h) \in TenancyDates /\ sub' = SubscriptionAfter(h)
      /\ ten' = [status |-> IF StaysActive(h) THEN "ACTIVE" ELSE "SUSPENDED",
                 kind |-> IF Activates(h) THEN "CUSTOMER" ELSE h.seen.kind,
                 grace |-> GraceAfter(h), prod |-> h.seen.prod]
      /\ event' = [event EXCEPT ![h.event] = "PROCESSED"]
      /\ applied' = [applied EXCEPT ![h.event] = @ + 1]
      /\ hook' = [hook EXCEPT ![d] = NoHook]
      /\ now' = now /\ job' = job /\ purge' = purge /\ files' = files /\ data' = data /\ lapsed' = lapsed /\ crashes' = crashes
  BY <1>1 DEF DeliverWrite, HooksInFlight
<1>3. TenancyTypeOK /\ HooksHold
  BY DEF TenancySound
<1>4. h \in HookRow /\ event[h.event] = "NEW" /\ ten.status # "PURGED"
  BY <1>1, <1>2, <1>3, HookRows DEF HooksHold
<1>5. h.event \in EventIds /\ h.type \in EventTypes /\ h.seen \in TenantRow
  BY <1>4 DEF HookRow
<1>6. ten' \in TenantRow /\ ten'.status \in {"ACTIVE", "SUSPENDED"} /\ ten'.grace = GraceAfter(h)
      /\ (Activates(h) => ten'.status = "ACTIVE" /\ ten'.grace = NoTime)
  <2>1. h.seen.kind \in {"TRIAL", "CUSTOMER"} /\ h.seen.prod \in BOOLEAN
    BY <1>5 DEF TenantRow
  <2>2. Activates(h) => GraceAfter(h) = NoTime
    BY DEF GraceAfter, StillPaid, Activates
  <2>3. Activates(h) => StaysActive(h)
    BY DEF StaysActive
  <2>4. QED
    BY <1>2, <2>1, <2>2, <2>3 DEF TenantRow, TenantStatus
<1>7. sub' \in SubscriptionStatus /\ (sub' = "ACTIVE" => Activates(h))
  BY <1>2, <1>5 DEF SubscriptionAfter, SubscriptionStatus, EventTypes, Activates
<1>8. applied[h.event] = 0
  BY <1>3, <1>4, <1>5 DEF HooksHold
<1>9. /\ event' \in [EventIds -> {"NEW", "PROCESSED", "REJECTED"}] /\ applied' \in [EventIds -> Nat]
      /\ event'[h.event] = "PROCESSED" /\ applied'[h.event] = 1
      /\ \A e \in EventIds \ {h.event} : event'[e] = event[e] /\ applied'[e] = applied[e]
  BY <1>2, <1>3, <1>5, <1>8 DEF TenancyTypeOK
<1>10. HooksHold'
  <2>1. ten'.status = "PURGED" => ten.status = "PURGED"
    BY <1>6
  <2>2. \A e \in EventIds : e = hook[d].event \/ event'[e] = event[e]
    BY <1>1, <1>9
  <2>3. \A e \in EventIds : applied'[e] = IF event'[e] = "PROCESSED" THEN 1 ELSE 0
    BY <1>3, <1>9 DEF HooksHold
  <2>4. QED
    BY <1>2, <2>1, <2>2, <2>3, HookEnds
<1>11. TenancyTypeOK'
  BY <1>2, <1>3, <1>6, <1>7, <1>9 DEF TenancyTypeOK, TenantRow
<1>12. PaidHolds' /\ Fairly
  BY <1>2, <1>6, <1>7 DEF PaidHolds, Fairly
<1>13. PurgeHolds'
  BY <1>2, <1>4, <1>6 DEF TenancySound, PurgeHolds
<1>14. QED
  BY <1>10, <1>11, <1>12, <1>13 DEF TenancySound

LEMMA DeliverAbortStep ==
    ASSUME TenancySound, NEW d \in Deliveries, DeliverAbort(d)
    PROVE  TenancySound' /\ Fairly
<1>1. /\ d \in HooksInFlight /\ hook' = [hook EXCEPT ![d] = NoHook]
      /\ now' = now /\ ten' = ten /\ sub' = sub /\ event' = event /\ applied' = applied /\ job' = job /\ purge' = purge
      /\ files' = files /\ data' = data /\ lapsed' = lapsed /\ crashes' = crashes
  BY DEF DeliverAbort, HooksInFlight
<1>2. \A e \in EventIds : applied'[e] = IF event'[e] = "PROCESSED" THEN 1 ELSE 0
  BY <1>1 DEF TenancySound, HooksHold
<1>3. HooksHold'
  BY <1>1, <1>2, HookEnds
<1>4. QED
  BY <1>1, <1>3 DEF TenancySound, TenancyTypeOK, PaidHolds, PurgeHolds, Fairly

\* The worker goes on with the purge: nothing but the mark touches the tenant.
LEMMA WorkerGoesOn ==
    ASSUME TenancySound, ten' = ten, UNCHANGED <<now, sub, event, hook, applied, lapsed>>,
           job.status # "NONE", job' \in JobRow, job'.status # "NONE",
           job'.due = job.due \/ (job.status = "RUNNING" /\ job'.due = now),
           job'.status = "RUNNING" => job'.due <= now,
           purge'.phase \in Phases, purge'.phase \notin {"idle", "down"} => job'.status = "RUNNING",
           purge'.phase = "mark" => purge'.seen = ten.status,
           data' \subseteq data, crashes' \in 0..MaxCrashes,
           ~AtWork => files' = files /\ data' = data
    PROVE  TenancySound' /\ Fairly
<1>1. TenancyTypeOK /\ HooksHold /\ PaidHolds /\ PurgeHolds
  BY DEF TenancySound
<1>2. HooksInFlight' = HooksInFlight /\ now \in Nat
  BY <1>1, TenancyDomains DEF HooksInFlight, TenancyTypeOK
<1>3. job.status = "RUNNING" => lapsed \in Nat /\ lapsed + Grace <= now
  BY <1>1, <1>2, TenancyDomains DEF PurgeHolds
<1>4. Fairly
  <2>1. AtWork => lapsed \in Nat /\ lapsed + Grace <= now
    BY <1>1, <1>3 DEF PurgeHolds, AtWork, PurgeAt
  <2>2. QED
    BY <2>1, TenancyDomains DEF Fairly
<1>5. HooksHold' /\ PaidHolds'
  BY <1>1, <1>2 DEF HooksHold, PaidHolds
<1>6. lapsed \in Nat /\ job'.due \in Nat /\ lapsed + Grace <= job'.due
  BY <1>1, <1>2, <1>3, TenancyDomains DEF PurgeHolds
<1>7. PurgeHolds'
  <2>1. ten'.status # "TRIAL" /\ (purge'.phase = "mark" /\ purge'.seen = "PURGED" => ten'.status = "PURGED")
    BY <1>1 DEF PurgeHolds
  <2>2. now' = now /\ lapsed' = lapsed
    OBVIOUS
  <2>3. QED
    BY <1>6, <2>1, <2>2 DEF PurgeHolds, Grace
<1>8. TenancyTypeOK'
  BY <1>1 DEF TenancyTypeOK, JobRow
<1>9. QED
  BY <1>4, <1>5, <1>7, <1>8 DEF TenancySound

\* What the queue makes of the row.
LEMMA RowsOfTheJob ==
    ASSUME TenancySound
    PROVE  /\ [job EXCEPT !.status = "SUCCEEDED"] \in JobRow /\ Failed \in JobRow
           /\ \A r \in {[job EXCEPT !.status = "SUCCEEDED"], Failed} :
                 r.due = job.due /\ r.status \notin {"NONE", "RUNNING"}
           /\ \/ Recovered = job
              \/ job.status = "RUNNING" /\ Recovered \in JobRow /\ Recovered.due = now /\ Recovered.status = "FAILED"
           /\ AttemptsLeft =>
                 \A r : r = [job EXCEPT !.status = "RUNNING", !.attempts = job.attempts + 1] =>
                          r \in JobRow /\ r.due = job.due /\ r.status = "RUNNING"
           /\ now \in TenancyDates
<1>1. job \in JobRow /\ now \in TenancyDates /\ now \in Nat
  BY TenancyDomains DEF TenancySound, PurgeHolds, TenancyTypeOK
<1>2. /\ [job EXCEPT !.status = "SUCCEEDED"] \in JobRow /\ Failed \in JobRow
      /\ \A r \in {[job EXCEPT !.status = "SUCCEEDED"], Failed} :
            r.due = job.due /\ r.status \notin {"NONE", "RUNNING"}
  BY <1>1 DEF Failed, JobRow, JobStatus
<1>3. Recovered = job \/ (job.status = "RUNNING" /\ Recovered \in JobRow /\ Recovered.due = now /\ Recovered.status = "FAILED")
  BY <1>1 DEF Recovered, JobRow, JobStatus
<1>4. AttemptsLeft => \A r : r = [job EXCEPT !.status = "RUNNING", !.attempts = job.attempts + 1] =>
                                r \in JobRow /\ r.due = job.due /\ r.status = "RUNNING"
  <2>1. SUFFICES ASSUME AttemptsLeft
                 PROVE  [job EXCEPT !.status = "RUNNING", !.attempts = job.attempts + 1] \in JobRow
    BY <1>1 DEF JobRow
  <2>2. PICK n \in 0..MaxAttempts : n = job.attempts
    BY <1>1 DEF JobRow
  <2>3. n + 1 \in 0..MaxAttempts
    BY <2>1, <2>2, TenancyDomains DEF AttemptsLeft
  <2>4. QED
    BY <1>1, <2>2, <2>3 DEF JobRow, JobStatus
<1>5. QED
  BY <1>1, <1>2, <1>3, <1>4

LEMMA PurgeStep ==
    ASSUME TenancySound, PurgeNext \/ FailPurge \/ CrashPurge \/ StartWorker
    PROVE  TenancySound' /\ Fairly
<1>1. TenancyTypeOK /\ HooksHold /\ PaidHolds /\ PurgeHolds /\ crashes \in 0..MaxCrashes /\ job \in JobRow
  BY DEF TenancySound, TenancyTypeOK, PurgeHolds
<1>2. AtWork => job.status = "RUNNING"
  BY <1>1 DEF PurgeHolds, AtWork, PurgeAt
<1>3. job.status = "RUNNING" => job.due <= now
  BY <1>1 DEF PurgeHolds
<1>4. CASE ClaimPurge
  <2>1. /\ ten' = ten /\ UNCHANGED <<now, sub, event, hook, applied, lapsed>> /\ files' = files /\ data' = data
        /\ job.status \in {"PENDING", "FAILED"} /\ job.due <= now /\ AttemptsLeft
        /\ job' = [job EXCEPT !.status = "RUNNING", !.attempts = job.attempts + 1]
        /\ purge'.phase = "files" /\ crashes' = crashes
    BY <1>4 DEF ClaimPurge
  <2>2. job' \in JobRow /\ job'.due = job.due /\ job'.status = "RUNNING"
    BY <2>1, RowsOfTheJob DEF JobStatus
  <2>3. QED
    BY <1>1, <2>1, <2>2, WorkerGoesOn DEF Phases
<1>5. CASE DeleteFiles
  <2>1. /\ ten' = ten /\ UNCHANGED <<now, sub, event, hook, applied, lapsed>> /\ data' = data /\ purge.phase = "files"
        /\ job' = job /\ purge'.phase = "read" /\ crashes' = crashes
    BY <1>5 DEF DeleteFiles, PurgeAt
  <2>2. AtWork
    BY <2>1 DEF AtWork, PurgeAt
  <2>3. QED
    BY <1>1, <1>2, <1>3, <2>1, <2>2, WorkerGoesOn DEF Phases
<1>6. CASE PurgeRead
  <2>1. /\ ten' = ten /\ UNCHANGED <<now, sub, event, hook, applied, lapsed>> /\ data' = data /\ purge.phase = "read"
        /\ crashes' = crashes
        /\ (job' = job /\ purge'.phase \in {"complete", "mark"}) \/ (job' = Failed /\ purge'.phase = "idle")
        /\ (purge'.phase = "mark" => purge'.seen = ten.status)
    BY <1>6 DEF PurgeRead, PurgeAt, IdleWorker
  <2>2. AtWork
    BY <2>1 DEF AtWork, PurgeAt
  <2>3. /\ job' \in JobRow /\ job'.due = job.due /\ job'.status # "NONE"
        /\ purge'.phase # "idle" => job'.status = "RUNNING"
    BY <1>1, <1>2, <2>1, <2>2, RowsOfTheJob DEF JobStatus
  <2>4. QED
    BY <1>1, <1>2, <1>3, <2>1, <2>2, <2>3, WorkerGoesOn DEF Phases
<1>7. CASE PurgeMark
  <2>1. /\ UNCHANGED <<now, sub, event, hook, applied, lapsed>> /\ data' = data /\ files' = files /\ purge.phase = "mark"
        /\ job' = job /\ crashes' = crashes /\ purge'.phase = "members"
    BY <1>7 DEF PurgeMark, PurgeAt
  <2>5. AtWork
    BY <2>1 DEF AtWork, PurgeAt
  <2>2. CASE ten' = ten
    BY <1>1, <1>2, <1>3, <2>1, <2>2, <2>5, WorkerGoesOn DEF Phases
  <2>3. CASE ten' # ten
    <3>1. HooksInFlight = {} /\ ten' = [ten EXCEPT !.status = "PURGED", !.prod = FALSE]
      BY <1>7, <2>3 DEF PurgeMark
    <3>2. ten \in TenantRow /\ now \in Nat
      BY <1>1, TenancyDomains DEF TenancyTypeOK, TenantRow
    <3>3. ten' \in TenantRow /\ ten'.status = "PURGED"
      BY <3>1, <3>2 DEF TenantRow, TenantStatus
    <3>4. HooksInFlight' = {}
      BY <2>1, <3>1 DEF HooksInFlight
    <3>5. HooksHold' /\ PaidHolds'
      BY <1>1, <2>1, <3>1, <3>3, <3>4 DEF HooksHold, PaidHolds
    <3>6. PurgeHolds'
      BY <1>1, <1>2, <2>1, <2>5, <3>3 DEF PurgeHolds, Phases, Grace
    <3>7. TenancyTypeOK'
      BY <1>1, <2>1, <3>3 DEF TenancyTypeOK, TenantRow
    <3>8. lapsed \in Nat /\ lapsed + Grace <= now
      BY <1>1, <1>2, <1>3, <2>5, <3>2, TenancyDomains DEF PurgeHolds
    <3>9. QED
      BY <3>5, <3>6, <3>7, <3>8, TenancyDomains DEF TenancySound, Fairly
  <2>4. QED
    BY <2>2, <2>3
<1>8. CASE PurgeMembers \/ PurgeRows \/ PurgeLog \/ PurgeUsers
  <2>1. /\ ten' = ten /\ UNCHANGED <<now, sub, event, hook, applied, lapsed>> /\ data' \subseteq data
        /\ purge.phase \in {"members", "rows", "log", "users"} /\ job' = job /\ crashes' = crashes
        /\ purge'.phase \in {"rows", "log", "users", "complete"}
    BY <1>8 DEF PurgeMembers, PurgeRows, PurgeLog, PurgeUsers, PurgeAt
  <2>2. AtWork
    BY <2>1 DEF AtWork, PurgeAt
  <2>3. QED
    BY <1>1, <1>2, <1>3, <2>1, <2>2, WorkerGoesOn DEF Phases
<1>9. CASE CompletePurge \/ FailPurge
  <2>1. /\ ten' = ten /\ UNCHANGED <<now, sub, event, hook, applied, lapsed>> /\ data' = data /\ files' = files /\ AtWork
        /\ job' \in {[job EXCEPT !.status = "SUCCEEDED"], Failed} /\ purge'.phase = "idle" /\ crashes' = crashes
    BY <1>9 DEF CompletePurge, FailPurge, AtWork, PurgeAt, IdleWorker
  <2>2. job' \in JobRow /\ job'.due = job.due /\ job'.status \notin {"NONE", "RUNNING"}
    BY <2>1, RowsOfTheJob DEF JobStatus
  <2>3. QED
    BY <1>1, <1>2, <2>1, <2>2, WorkerGoesOn DEF Phases
<1>10. CASE CrashPurge
  <2>1. /\ ten' = ten /\ UNCHANGED <<now, sub, event, hook, applied, lapsed>> /\ data' = data /\ files' = files
        /\ job' = job /\ job.status = "RUNNING" /\ purge'.phase = "down"
        /\ crashes < MaxCrashes /\ crashes' = crashes + 1
    BY <1>10 DEF CrashPurge, NoWorker
  <2>2. crashes' \in 0..MaxCrashes
    BY <1>1, <2>1, TenancyDomains
  <2>3. QED
    BY <1>1, <1>3, <2>1, <2>2, WorkerGoesOn DEF Phases
<1>11. CASE StartWorker
  <2>1. /\ ten' = ten /\ UNCHANGED <<now, sub, event, hook, applied, lapsed>> /\ data' = data /\ files' = files
        /\ job' \in {job, Recovered} /\ purge'.phase = "idle" /\ crashes' = crashes
    BY <1>11 DEF StartWorker, IdleWorker
  <2>2. CASE job' = job
    <3>1. now' = now /\ lapsed' = lapsed /\ ten'.status = ten.status
      BY <2>1
    <3>2. PurgeHolds'
      BY <1>1, <2>1, <2>2, <3>1 DEF PurgeHolds, Phases, Grace
    <3>3. HooksInFlight' = HooksInFlight
      BY <2>1 DEF HooksInFlight
    <3>4. HooksHold' /\ PaidHolds' /\ TenancyTypeOK'
      BY <1>1, <2>1, <2>2, <3>3 DEF HooksHold, PaidHolds, TenancyTypeOK
    <3>5. QED
      BY <2>1, <3>2, <3>4 DEF TenancySound, Fairly
  <2>3. CASE job' # job
    <3>1. job.status = "RUNNING" /\ job' \in JobRow /\ job'.due = now /\ job'.status = "FAILED"
      BY <2>1, <2>3, RowsOfTheJob DEF JobStatus
    <3>2. QED
      BY <1>1, <2>1, <3>1, WorkerGoesOn DEF Phases
  <2>4. QED
    BY <2>2, <2>3
<1>12. QED
  BY <1>4, <1>5, <1>6, <1>7, <1>8, <1>9, <1>10, <1>11 DEF PurgeNext

LEMMA TenancyStep ==
    ASSUME TenancySound, TenancyNext
    PROVE  TenancySound' /\ Fairly
  BY TenancyAloneStep, DeliverReadStep, DeliverWriteStep, DeliverAbortStep, PurgeStep DEF TenancyNext

LEMMA TenancyStays ==
    ASSUME TenancySound, UNCHANGED tenancyVars
    PROVE  TenancySound'
<1>1. /\ now' = now /\ ten' = ten /\ sub' = sub /\ event' = event /\ hook' = hook /\ applied' = applied /\ job' = job
      /\ purge' = purge /\ files' = files /\ data' = data /\ lapsed' = lapsed /\ crashes' = crashes
  BY DEF tenancyVars
<1>2. HooksInFlight' = HooksInFlight
  BY <1>1 DEF HooksInFlight
<1>3. HooksHold'
  BY <1>1, <1>2 DEF TenancySound, HooksHold
<1>4. QED
  BY <1>1, <1>3 DEF TenancySound, TenancyTypeOK, PaidHolds, PurgeHolds

LEMMA TenancyIsSound == PlatformSpec => []TenancySound
<1>1. PlatformInit => TenancySound
  BY TenancyBegins DEF PlatformInit
<1>2. TenancySound /\ [PlatformNext]_platformVars => TenancySound'
  BY StepOfPlatform, TenancyStep, TenancyStays
<1>3. QED
  BY <1>1, <1>2, PTL DEF PlatformSpec, platformVars

\* Who pays is served and pays once: no order of webhooks, redeliveries, sweeps,
\* purges and crashes leaves a tenant with an active subscription read only, and an
\* event of the provider changes it at most once.
THEOREM PaymentsAlwaysCount == PlatformSpec => []PaymentsCount
<1>1. TenancySound => PaymentsCount
  BY DEF TenancySound, HooksHold, PaidHolds, PaymentsCount, PaidIsServed, EventOnce
<1>2. QED
  BY <1>1, TenancyIsSound, PTL

\* A purged tenant stays purged, though webhooks write back what they have read, and
\* neither its files nor its rows are deleted before the grace period of its trial
\* has ended: the row lock that the mark waits for and the date of the job suffice.
THEOREM PurgesAreFair == PlatformSpec => PurgeIsFair
<1> DEFINE Stays == ten.status = "PURGED" => ten'.status = "PURGED"
           Late == \/ files /\ ~files'
                   \/ data' # data
                   \/ ten.status # "PURGED" /\ ten'.status = "PURGED"
                   => lapsed # NoTime /\ lapsed + Grace <= now
<1>1. TenancySound /\ [PlatformNext]_platformVars => [Stays]_ten /\ [Late]_<<ten, data, files>>
  <2>1. SUFFICES ASSUME TenancySound, TenancyNext \/ UNCHANGED tenancyVars
                 PROVE  [Stays]_ten /\ [Late]_<<ten, data, files>>
    BY StepOfPlatform
  <2>2. CASE UNCHANGED tenancyVars
    BY <2>2 DEF tenancyVars
  <2>3. CASE TenancyNext
    <3>1. Late
      BY <2>1, <2>3, TenancyStep DEF Fairly
    <3>2. Stays
      <4>1. SUFFICES ASSUME ten.status = "PURGED"
                     PROVE  ten'.status = "PURGED"
        OBVIOUS
      <4>2. HooksInFlight = {} /\ ten \in TenantRow
        BY <2>1, <4>1 DEF TenancySound, HooksHold, TenancyTypeOK, TenantRow
      <4>3. \A d \in Deliveries : ~DeliverWrite(d)
        BY <4>2 DEF HooksInFlight, DeliverWrite
      <4>4. ~ExpireTrial /\ ~SuspendUnpaid
        BY <4>1 DEF ExpireTrial, SuspendUnpaid
      <4>5. \/ ten' = ten
            \/ ten' = [ten EXCEPT !.prod = TRUE]
            \/ ten' = [ten EXCEPT !.status = "PURGED", !.prod = FALSE]
        BY <2>3, <4>3, <4>4 DEF TenancyNext, Tick, EmitVoucher, DeliverAbort, DeliverRead, PurgeNext, ClaimPurge,
           DeleteFiles, PurgeRead, PurgeMark, PurgeMembers, PurgeRows, PurgeLog, PurgeUsers, CompletePurge, FailPurge, StartWorker,
           CrashPurge, ApproveRead, ApproveWrite
      <4>6. QED
        BY <4>1, <4>2, <4>5 DEF TenantRow
    <3>3. QED
      BY <3>1, <3>2
  <2>4. QED
    BY <2>1, <2>2, <2>3
<1>2. PlatformSpec => [][Stays]_ten /\ [][Late]_<<ten, data, files>>
  BY <1>1, TenancyIsSound, PTL DEF PlatformSpec, platformVars
<1>3. QED
  BY <1>2 DEF PurgeIsFair, PurgedIsFinal, GraceIsKept

-----------------------------------------------------------------------------
(* The feed of events.                                                        *)

\* A set of numbers that has a bound has a greatest one.
LEMMA GreatestOf ==
    ASSUME NEW S \in SUBSET Nat, S # {}, NEW bound \in Nat, \A m \in S : m <= bound
    PROVE  Highest(S) \in S /\ \A m \in S : m <= Highest(S)
<1> DEFINE Bounds == {n \in Nat : \A m \in S : m <= n}
<1>1. IsWellFoundedOn(OpToRel(<, Nat), Nat)
  BY NatLessThanWellFounded
<1>2. PICK n \in Bounds : \A m \in Bounds : ~(<<m, n>> \in OpToRel(<, Nat))
  BY <1>1, WFMin
<1>3. \A m \in Bounds : ~(m < n)
  BY <1>2 DEF OpToRel
<1>4. n \in S
  <2>1. CASE n = 0
    <3>1. PICK x \in S : x <= 0
      BY <1>2, <2>1
    <3>2. QED
      BY <2>1, <3>1
  <2>2. CASE n # 0 /\ n \notin S
    <3>1. n - 1 \in Bounds
      BY <2>2
    <3>2. QED
      BY <1>3, <3>1
  <2>3. QED
    BY <2>1, <2>2
<1>5. \E h \in S : \A m \in S : m <= h
  BY <1>4
<1>6. QED
  BY <1>5 DEF Highest

CourierRow == [stage : {"idle", "claimed", "sent"}, late : BOOLEAN]

\* Sequences are numbers, and a screen has seen none that was not given out.
SequencesHold ==
    /\ seq \in [Events -> Nat] /\ \E bound \in Nat : \A e \in Events : seq[e] <= bound
    /\ lastSeen \in [Screens -> Nat] /\ \A c \in Screens : \E e \in Events : lastSeen[c] <= seq[e]
    /\ asked \in [Screens -> Nat]

\* An event that some process works at is committed.  Whoever is at it in time has a
\* claim that nobody may take over yet, and is alone.
CourierOf(e) ==
    /\ \A i \in Instances : Working(i, e) => outbox[e] \in {"PENDING", "PROCESSING", "PUBLISHED"}
    /\ \A i \in Instances : Working(i, e) /\ ~courier[i][e].late => ~Claimable(e)
    /\ \A i, j \in Instances :
          Working(i, e) /\ Working(j, e) /\ ~courier[i][e].late /\ ~courier[j][e].late => i = j

\* Who has sent it has shown it to every screen that is owed it, and those are connected.
ShownOf(e) ==
    /\ \A c \in owed[e] : place[c] # Away
    /\ outbox[e] = "PUBLISHED" \/ (\E i \in Instances : courier[i][e].stage = "sent") =>
          \A c \in owed[e] : e \in shown[c]

Tables ==
    /\ outbox \in [Events -> {"none", "open", "gone", "PENDING", "PROCESSING", "PUBLISHED"}]
    /\ due \in [Events -> BOOLEAN] /\ alive \subseteq Instances
    /\ courier \in [Instances -> [Events -> CourierRow]]
    /\ owed \in [Events -> SUBSET Screens] /\ shown \in [Screens -> SUBSET Events]
    /\ place \in [Screens -> Instances \union {Away}]

FeedSound == Tables /\ SequencesHold /\ \A e \in Events : CourierOf(e) /\ ShownOf(e)

LEMMA FeedBegins == EventFeedInit => FeedSound
<1> SUFFICES ASSUME EventFeedInit
             PROVE  FeedSound
  OBVIOUS
<1>1. Tables
  <2>1. NoCourier \in CourierRow
    BY DEF NoCourier, CourierRow
  <2>2. QED
    BY <2>1 DEF EventFeedInit, Tables
<1>2. SequencesHold
  BY EventFeedAssumption DEF EventFeedInit, SequencesHold, Answered
<1>3. \A i \in Instances, e \in Events : ~Working(i, e) /\ courier[i][e].stage # "sent" /\ outbox[e] = "none" /\ owed[e] = {}
  BY DEF EventFeedInit, Working, NoCourier
<1>4. QED
  BY <1>1, <1>2, <1>3 DEF FeedSound, CourierOf, ShownOf, EventFeedInit

LEMMA Numbered ==
    ASSUME SequencesHold
    PROVE  /\ Highest(Sequences) \in Nat /\ \A e \in Events : seq[e] <= Highest(Sequences)
           /\ \A c \in Screens : lastSeen[c] \in Nat /\ lastSeen[c] <= Highest(Sequences)
<1>1. Sequences \in SUBSET Nat /\ Sequences # {} /\ \A e \in Events : seq[e] \in Sequences
  BY EventFeedAssumption DEF Sequences, SequencesHold
<1>2. PICK bound \in Nat : \A e \in Events : seq[e] <= bound
  BY DEF SequencesHold
<1>3. \A m \in Sequences : m <= bound
  BY <1>2 DEF Sequences
<1>4. Highest(Sequences) \in Sequences /\ \A m \in Sequences : m <= Highest(Sequences)
  BY <1>1, <1>2, <1>3, GreatestOf
<1>5. ASSUME NEW c \in Screens
      PROVE  lastSeen[c] \in Nat /\ lastSeen[c] <= Highest(Sequences)
  <2>1. PICK e \in Events : lastSeen[c] <= seq[e]
    BY DEF SequencesHold
  <2>2. lastSeen[c] \in Nat /\ seq[e] \in Nat /\ seq[e] <= Highest(Sequences) /\ Highest(Sequences) \in Nat
    BY <1>1, <1>4 DEF SequencesHold
  <2>3. QED
    BY <2>1, <2>2
<1>6. QED
  BY <1>1, <1>4, <1>5

\* An event that nothing happens to.
LEMMA EventStays ==
    ASSUME NEW e \in Events, CourierOf(e), outbox'[e] = outbox[e], due'[e] = due[e],
           \A i \in Instances : courier'[i][e] = courier[i][e]
    PROVE  CourierOf(e)'
  BY DEF CourierOf, Working, Claimable

LEMMA ScreensStay ==
    ASSUME NEW e \in Events, ShownOf(e), owed'[e] \subseteq owed[e],
           \A c \in owed'[e] : place'[c] # Away /\ shown[c] \subseteq shown'[c],
           outbox'[e] = "PUBLISHED" => outbox[e] = "PUBLISHED" \/ \E i \in Instances : courier[i][e].stage = "sent",
           \A i \in Instances : courier'[i][e].stage = "sent" => courier[i][e].stage = "sent"
    PROVE  ShownOf(e)'
  BY DEF ShownOf

LEMMA SequencesStay ==
    ASSUME SequencesHold, seq' = seq, lastSeen' = lastSeen, asked' = asked
    PROVE  SequencesHold'
  BY DEF SequencesHold

\* A row is inserted, committed or undone: no process works at it.
LEMMA RowStep ==
    ASSUME FeedSound, NEW e \in Events, Publish(e) \/ CommitRow(e) \/ RollBack(e)
    PROVE  FeedSound'
<1>1. /\ alive' = alive /\ courier' = courier /\ place' = place /\ shown' = shown /\ asked' = asked /\ lastSeen' = lastSeen
      /\ \E s \in {"open", "PENDING", "gone"} : outbox' = [outbox EXCEPT ![e] = s]
      /\ outbox[e] \in {"none", "open"}
      /\ due' = due \/ due' = [due EXCEPT ![e] = TRUE]
      /\ owed' = owed \/ owed' = [owed EXCEPT ![e] = {c \in Screens : place[c] # Away}]
  BY DEF Publish, CommitRow, RollBack
<1>2. Tables
  BY DEF FeedSound
<1>3. /\ outbox' \in [Events -> {"none", "open", "gone", "PENDING", "PROCESSING", "PUBLISHED"}]
      /\ outbox'[e] # "PUBLISHED" /\ \A x \in Events \ {e} : outbox'[x] = outbox[x]
  BY <1>1, <1>2 DEF Tables
<1>4. due' \in [Events -> BOOLEAN] /\ \A x \in Events \ {e} : due'[x] = due[x]
  BY <1>1, <1>2 DEF Tables
<1>5. /\ owed' \in [Events -> SUBSET Screens] /\ \A x \in Events \ {e} : owed'[x] = owed[x]
      /\ owed'[e] = owed[e] \/ owed'[e] = {c \in Screens : place[c] # Away}
  BY <1>1, <1>2 DEF Tables
<1>6. Tables'
  BY <1>1, <1>2, <1>3, <1>4, <1>5 DEF Tables
<1>7. CourierOf(e) /\ ShownOf(e)
  BY DEF FeedSound
<1>8. \A i \in Instances : courier[i][e].stage = "idle"
  BY <1>1, <1>7 DEF CourierOf, Working
<1>9. CourierOf(e)'
  BY <1>1, <1>8 DEF CourierOf, Working
<1>10. ShownOf(e)'
  BY <1>1, <1>3, <1>5, <1>7, <1>8 DEF ShownOf
<1>11. ASSUME NEW x \in Events \ {e}
       PROVE  CourierOf(x)' /\ ShownOf(x)'
  <2>1. CourierOf(x) /\ ShownOf(x)
    BY DEF FeedSound
  <2>2. CourierOf(x)'
    BY <1>1, <1>3, <1>4, <2>1, EventStays
  <2>3. ShownOf(x)'
    BY <1>1, <1>3, <1>5, <2>1 DEF ShownOf
  <2>4. QED
    BY <2>2, <2>3
<1>12. SequencesHold'
  <2>1. SequencesHold
    BY DEF FeedSound
  <2>2. CASE seq' = seq
    BY <1>1, <2>1, <2>2, SequencesStay
  <2>3. CASE seq' = [seq EXCEPT ![e] = Highest(Sequences) + 1]
    <3>1. PICK top : top = Highest(Sequences)
      OBVIOUS
    <3>2. top \in Nat /\ \A x \in Events : seq[x] <= top /\ seq[x] \in Nat
      BY <2>1, <3>1, Numbered DEF SequencesHold
    <3>3. /\ seq' \in [Events -> Nat] /\ seq'[e] = top + 1 /\ \A x \in Events \ {e} : seq'[x] = seq[x]
      BY <2>1, <2>3, <3>1, <3>2 DEF SequencesHold
    <3>4. \A x \in Events : seq[x] <= seq'[x] /\ seq'[x] <= top + 1
      BY <3>2, <3>3
    <3>5. ASSUME NEW c \in Screens
          PROVE  \E x \in Events : lastSeen[c] <= seq'[x]
      <4>1. PICK x \in Events : lastSeen[c] <= seq[x]
        BY <2>1 DEF SequencesHold
      <4>2. lastSeen[c] \in Nat /\ seq[x] \in Nat /\ seq'[x] \in Nat /\ seq[x] <= seq'[x]
        BY <2>1, <3>3, <3>4 DEF SequencesHold
      <4>3. QED
        BY <4>1, <4>2
    <3>6. top + 1 \in Nat
      BY <3>2
    <3>7. QED
      BY <1>1, <2>1, <3>3, <3>4, <3>5, <3>6 DEF SequencesHold
  <2>4. QED
    BY <2>2, <2>3 DEF Publish, CommitRow, RollBack
<1>13. QED
  BY <1>6, <1>9, <1>10, <1>11, <1>12 DEF FeedSound

\* Only what process i does about event e has changed, and only the row of e.
LEMMA DispatchStep ==
    ASSUME FeedSound, NEW e \in Events, NEW i \in Instances, NEW f \in CourierRow,
           courier' = [courier EXCEPT ![i] = [courier[i] EXCEPT ![e] = f]],
           Tables', SequencesHold',
           \A x \in Events \ {e} : outbox'[x] = outbox[x] /\ due'[x] = due[x] /\ owed'[x] = owed[x],
           place' = place, owed'[e] \subseteq owed[e], \A c \in Screens : shown[c] \subseteq shown'[c],
           outbox'[e] \in {"PENDING", "PROCESSING", "PUBLISHED"},
           \/ f.stage = "idle" /\ (Claimable(e)' => Claimable(e) \/ \A j \in Instances : courier[j][e].late \/ ~Working(j, e))
           \/ Claimable(e) /\ ~Claimable(e)'
           \/ Working(i, e) /\ f.late = courier[i][e].late /\ Claimable(e)' = Claimable(e),
           outbox'[e] = "PUBLISHED" => outbox[e] = "PUBLISHED" \/ courier[i][e].stage = "sent",
           f.stage = "sent" => courier[i][e].stage = "sent" \/ \A c \in owed'[e] : e \in shown'[c]
    PROVE  FeedSound'
<1>1. Tables /\ CourierOf(e) /\ ShownOf(e)
  BY DEF FeedSound
<1>2. courier \in [Instances -> [Events -> CourierRow]]
  BY <1>1 DEF Tables
<1>3. /\ courier'[i][e] = f /\ \A j \in Instances \ {i} : courier'[j] = courier[j]
      /\ \A x \in Events \ {e} : courier'[i][x] = courier[i][x]
  BY <1>2
<1>4. \A x \in Events \ {e} : CourierOf(x)' /\ ShownOf(x)'
  <2>1. SUFFICES ASSUME NEW x \in Events \ {e}
                 PROVE  CourierOf(x)' /\ ShownOf(x)'
    OBVIOUS
  <2>2. CourierOf(x) /\ ShownOf(x)
    BY DEF FeedSound
  <2>3. \A j \in Instances : courier'[j][x] = courier[j][x]
    BY <1>3
  <2>4. CourierOf(x)'
    BY <2>2, <2>3, EventStays
  <2>5. owed[x] \subseteq Screens
    BY <1>1 DEF Tables
  <2>6. ShownOf(x)'
    BY <2>2, <2>3, <2>5 DEF ShownOf
  <2>7. QED
    BY <2>4, <2>6
<1>5. CourierOf(e)'
  <2>1. \A j \in Instances : Working(j, e)' <=> (IF j = i THEN f.stage # "idle" ELSE Working(j, e))
    BY <1>3 DEF Working
  <2>2. CASE f.stage = "idle" /\ (Claimable(e)' => Claimable(e) \/ \A j \in Instances : courier[j][e].late \/ ~Working(j, e))
    BY <1>1, <1>3, <2>1, <2>2 DEF CourierOf
  <2>3. CASE Claimable(e) /\ ~Claimable(e)'
    BY <1>1, <1>3, <2>1, <2>3 DEF CourierOf
  <2>4. CASE Working(i, e) /\ f.late = courier[i][e].late /\ Claimable(e)' = Claimable(e)
    BY <1>1, <1>3, <2>1, <2>4 DEF CourierOf
  <2>5. QED
    BY <2>2, <2>3, <2>4
<1>6. ShownOf(e)'
  <2>1. owed[e] \subseteq Screens
    BY <1>1 DEF Tables
  <2>2. \A c \in owed'[e] : place'[c] # Away
    BY <1>1 DEF ShownOf
  <2>3. CASE \A c \in owed'[e] : e \in shown'[c]
    BY <2>2, <2>3 DEF ShownOf
  <2>4. CASE ~(\A c \in owed'[e] : e \in shown'[c])
    <3>1. ~(\A c \in owed[e] : e \in shown[c])
      BY <2>1, <2>4
    <3>2. outbox[e] # "PUBLISHED" /\ \A j \in Instances : courier[j][e].stage # "sent"
      BY <1>1, <3>1 DEF ShownOf
    <3>3. outbox'[e] # "PUBLISHED" /\ \A j \in Instances : courier'[j][e].stage # "sent"
      BY <1>3, <2>4, <3>2
    <3>4. QED
      BY <2>2, <3>3 DEF ShownOf
  <2>5. QED
    BY <2>3, <2>4
<1>7. QED
  BY <1>4, <1>5, <1>6 DEF FeedSound

\* What is shown to some screens.
LEMMA Showing ==
    ASSUME FeedSound, NEW e \in Events, NEW screens \in SUBSET Screens, Show(e, screens), seq' = seq, asked' = asked
    PROVE  /\ shown' \in [Screens -> SUBSET Events] /\ SequencesHold'
           /\ \A c \in Screens : shown[c] \subseteq shown'[c]
           /\ \A c \in screens : e \in shown'[c]
<1>1. /\ shown' = [c \in Screens |-> IF c \in screens THEN shown[c] \union {e} ELSE shown[c]]
      /\ lastSeen' = [c \in Screens |-> IF c \in screens THEN seq[e] ELSE lastSeen[c]]
  BY DEF Show
<1>2. shown \in [Screens -> SUBSET Events] /\ SequencesHold
  BY DEF FeedSound, Tables
<1>3. lastSeen' \in [Screens -> Nat]
  BY <1>1, <1>2 DEF SequencesHold
<1>4. ASSUME NEW c \in Screens
      PROVE  \E x \in Events : lastSeen'[c] <= seq[x]
  <2>1. CASE c \in screens
    <3>1. lastSeen'[c] = seq[e] /\ seq[e] \in Nat
      BY <1>1, <1>2, <2>1 DEF SequencesHold
    <3>2. QED
      BY <3>1
  <2>2. CASE c \notin screens
    BY <1>1, <1>2, <2>2 DEF SequencesHold
  <2>3. QED
    BY <2>1, <2>2
<1>5. SequencesHold'
  BY <1>2, <1>3, <1>4 DEF SequencesHold
<1>6. QED
  BY <1>1, <1>2, <1>5

LEMMA CourierSteps ==
    ASSUME FeedSound, NEW e \in Events, NEW i \in Instances,
           Claim(i, e) \/ Send(i, e) \/ SendAlone(i, e) \/ Mark(i, e) \/ Fail(i, e)
    PROVE  FeedSound'
<1>1. Tables /\ SequencesHold /\ CourierOf(e)
  BY DEF FeedSound
<1>2. courier[i] \in [Events -> CourierRow] /\ courier[i][e] \in CourierRow
  BY <1>1 DEF Tables
<1>3. owed[e] \subseteq Screens /\ \A c \in owed[e] : place[c] # Away
  BY DEF FeedSound, Tables, ShownOf
<1>4. CASE Claim(i, e)
  <2>1. PICK f : f = [stage |-> "claimed", late |-> FALSE]
    OBVIOUS
  <2>2. f \in CourierRow /\ f.stage = "claimed"
    BY <2>1 DEF CourierRow
  <2>3. /\ Claimable(e) /\ outbox' = [outbox EXCEPT ![e] = "PROCESSING"] /\ due' = [due EXCEPT ![e] = FALSE]
        /\ courier' = [courier EXCEPT ![i] = [courier[i] EXCEPT ![e] = f]]
        /\ UNCHANGED <<seq, alive, place, asked, lastSeen, shown, owed, faults>>
    BY <1>4, <2>1 DEF Claim
  <2>4. courier' \in [Instances -> [Events -> CourierRow]]
    BY <1>1, <1>2, <2>2, <2>3 DEF Tables
  <2>5. Tables'
    BY <1>1, <2>3, <2>4 DEF Tables
  <2>6. /\ outbox'[e] = "PROCESSING" /\ ~due'[e] /\ \A x \in Events \ {e} : outbox'[x] = outbox[x] /\ due'[x] = due[x]
    BY <1>1, <2>3 DEF Tables
  <2>7. ~Claimable(e)'
    BY <2>6 DEF Claimable
  <2>8. SequencesHold'
    BY <1>1, <2>3, SequencesStay
  <2>9. QED
    BY <2>2, <2>3, <2>5, <2>6, <2>7, <2>8, DispatchStep
<1>5. CASE Send(i, e) \/ SendAlone(i, e)
  <2>1. PICK f : f = [courier[i][e] EXCEPT !.stage = "sent"]
    OBVIOUS
  <2>2. f \in CourierRow /\ f.stage = "sent" /\ f.late = courier[i][e].late
    BY <1>2, <2>1 DEF CourierRow
  <2>3. /\ courier[i][e].stage = "claimed" /\ courier' = [courier EXCEPT ![i] = [courier[i] EXCEPT ![e] = f]]
        /\ UNCHANGED <<outbox, due, seq, alive, place, asked>>
    BY <1>5, <2>1 DEF Send, SendAlone, Sent
  <2>4. PICK screens \in SUBSET Screens :
           /\ Show(e, screens)
           /\ \/ screens = {c \in Screens : place[c] # Away} /\ owed' = owed
              \/ screens = {c \in Screens : place[c] = i} /\ owed' = [owed EXCEPT ![e] = {c \in @ : place[c] = i}]
    BY <1>5 DEF Send, SendAlone, Reached
  <2>5. /\ owed' \in [Events -> SUBSET Screens] /\ owed'[e] \subseteq owed[e] /\ \A x \in Events \ {e} : owed'[x] = owed[x]
        /\ owed'[e] \subseteq screens
    <3>1. owed \in [Events -> SUBSET Screens]
      BY <1>1 DEF Tables
    <3>2. CASE screens = {c \in Screens : place[c] # Away} /\ owed' = owed
      BY <1>3, <3>1, <3>2
    <3>3. CASE screens = {c \in Screens : place[c] = i} /\ owed' = [owed EXCEPT ![e] = {c \in @ : place[c] = i}]
      <4>1. owed'[e] = {c \in owed[e] : place[c] = i} /\ \A x \in Events \ {e} : owed'[x] = owed[x]
        BY <3>1, <3>3
      <4>2. owed'[e] \subseteq owed[e] /\ owed'[e] \subseteq screens
        BY <1>3, <3>3, <4>1
      <4>3. QED
        BY <1>3, <3>1, <3>3, <4>1, <4>2
    <3>4. QED
      BY <2>4, <3>2, <3>3
  <2>6. /\ shown' \in [Screens -> SUBSET Events] /\ SequencesHold' /\ (\A c \in Screens : shown[c] \subseteq shown'[c])
        /\ \A c \in owed'[e] : e \in shown'[c]
    BY <2>3, <2>4, <2>5, Showing
  <2>7. courier' \in [Instances -> [Events -> CourierRow]]
    BY <1>1, <1>2, <2>2, <2>3 DEF Tables
  <2>8. Tables'
    BY <1>1, <2>3, <2>5, <2>6, <2>7 DEF Tables
  <2>9. Working(i, e) /\ Claimable(e)' = Claimable(e)
    BY <2>3 DEF Working, Claimable
  <2>10. outbox'[e] = outbox[e] /\ outbox[e] \in {"PENDING", "PROCESSING", "PUBLISHED"}
    BY <1>1, <2>3, <2>9 DEF CourierOf
  <2>11. QED
    BY <2>2, <2>3, <2>5, <2>6, <2>8, <2>9, <2>10, DispatchStep
<1>6. CASE Mark(i, e) \/ Fail(i, e)
  <2>1. PICK f : f = NoCourier
    OBVIOUS
  <2>2. f \in CourierRow /\ f.stage = "idle"
    BY <2>1 DEF NoCourier, CourierRow
  <2>3. /\ courier' = [courier EXCEPT ![i] = [courier[i] EXCEPT ![e] = f]]
        /\ UNCHANGED <<seq, alive, place, asked, lastSeen, shown, owed>>
        /\ \/ courier[i][e].stage = "sent" /\ outbox' = [outbox EXCEPT ![e] = "PUBLISHED"] /\ due' = due
           \/ outbox' = [outbox EXCEPT ![e] = "PENDING"] /\ due' = [due EXCEPT ![e] = FALSE]
    BY <1>6, <2>1 DEF Mark, Fail, PutOff
  <2>4. courier' \in [Instances -> [Events -> CourierRow]]
    BY <1>1, <1>2, <2>2, <2>3 DEF Tables
  <2>5. Tables'
    BY <1>1, <2>3, <2>4 DEF Tables
  <2>6. /\ \/ outbox'[e] = "PUBLISHED" /\ courier[i][e].stage = "sent"
           \/ outbox'[e] = "PENDING" /\ ~due'[e]
        /\ \A x \in Events \ {e} : outbox'[x] = outbox[x] /\ due'[x] = due[x]
    BY <1>1, <2>3 DEF Tables
  <2>7. ~Claimable(e)'
    BY <2>6 DEF Claimable
  <2>8. SequencesHold'
    BY <1>1, <2>3, SequencesStay
  <2>9. QED
    BY <2>2, <2>3, <2>5, <2>6, <2>7, <2>8, DispatchStep
<1>7. QED
  BY <1>4, <1>5, <1>6

\* The time of a claim is over: whoever is still at it is late.
LEMMA ElapseStep ==
    ASSUME FeedSound, NEW e \in Events, Elapse(e)
    PROVE  FeedSound'
<1>1. Tables /\ SequencesHold
  BY DEF FeedSound
<1>2. /\ due' = [due EXCEPT ![e] = TRUE]
      /\ courier' = [i \in Instances |-> [courier[i] EXCEPT ![e] =
            IF @.stage = "idle" THEN @ ELSE [@ EXCEPT !.late = TRUE]]]
      /\ UNCHANGED <<outbox, seq, alive, place, asked, lastSeen, shown, owed>>
  BY DEF Elapse
<1>3. ASSUME NEW i \in Instances
      PROVE  /\ courier'[i] \in [Events -> CourierRow] /\ courier'[i][e].stage = courier[i][e].stage
             /\ Working(i, e) => courier'[i][e].late
             /\ \A x \in Events \ {e} : courier'[i][x] = courier[i][x]
  <2>1. courier[i] \in [Events -> CourierRow] /\ courier[i][e] \in CourierRow
    BY <1>1 DEF Tables
  <2>2. PICK f : f = IF courier[i][e].stage = "idle" THEN courier[i][e] ELSE [courier[i][e] EXCEPT !.late = TRUE]
    OBVIOUS
  <2>3. f \in CourierRow /\ f.stage = courier[i][e].stage /\ (courier[i][e].stage # "idle" => f.late)
    BY <2>1, <2>2 DEF CourierRow
  <2>4. courier'[i] = [courier[i] EXCEPT ![e] = f]
    BY <1>2, <2>2
  <2>5. courier'[i] \in [Events -> CourierRow] /\ courier'[i][e] = f /\ \A x \in Events \ {e} : courier'[i][x] = courier[i][x]
    BY <2>1, <2>3, <2>4
  <2>6. QED
    BY <2>3, <2>5 DEF Working
<1>4. courier' \in [Instances -> [Events -> CourierRow]]
  BY <1>2, <1>3
<1>5. due' \in [Events -> BOOLEAN] /\ \A x \in Events \ {e} : due'[x] = due[x]
  BY <1>1, <1>2 DEF Tables
<1>6. Tables'
  BY <1>1, <1>2, <1>4, <1>5 DEF Tables
<1>7. \A i \in Instances : Working(i, e)' <=> Working(i, e)
  BY <1>3 DEF Working
<1>8. CourierOf(e) /\ ShownOf(e)
  BY DEF FeedSound
<1>9. CourierOf(e)'
  BY <1>2, <1>3, <1>7, <1>8 DEF CourierOf
<1>10. ShownOf(e)'
  BY <1>2, <1>3, <1>8 DEF ShownOf
<1>11. ASSUME NEW x \in Events \ {e}
       PROVE  CourierOf(x)' /\ ShownOf(x)'
  <2>1. CourierOf(x) /\ ShownOf(x)
    BY DEF FeedSound
  <2>2. CourierOf(x)'
    BY <1>2, <1>3, <1>5, <2>1, EventStays
  <2>3. ShownOf(x)'
    BY <1>2, <1>3, <2>1 DEF ShownOf
  <2>4. QED
    BY <2>2, <2>3
<1>12. SequencesHold'
  BY <1>1, <1>2, SequencesStay
<1>13. QED
  BY <1>6, <1>9, <1>10, <1>11, <1>12 DEF FeedSound

\* Screens come and go, and are shown what they missed; no row changes.
LEMMA ScreensStep ==
    ASSUME FeedSound, Tables', SequencesHold',
           UNCHANGED <<outbox, due>>, \A e \in Events : owed'[e] \subseteq owed[e],
           \A e \in Events : \A c \in owed'[e] : place'[c] # Away,
           \A c \in Screens : shown[c] \subseteq shown'[c],
           \A i \in Instances, e \in Events : courier'[i][e] = courier[i][e] \/ courier'[i][e].stage = "idle"
    PROVE  FeedSound'
<1>1. SUFFICES ASSUME NEW e \in Events
               PROVE  CourierOf(e)' /\ ShownOf(e)'
  BY DEF FeedSound
<1>2. CourierOf(e) /\ ShownOf(e) /\ owed[e] \subseteq Screens
  BY DEF FeedSound, Tables
<1>3. \A i \in Instances : Working(i, e)' => Working(i, e) /\ courier'[i][e] = courier[i][e]
  BY DEF Working
<1>4. CourierOf(e)'
  BY <1>2, <1>3 DEF CourierOf, Claimable
<1>5. ShownOf(e)'
  <2>1. \A i \in Instances : courier'[i][e].stage = "sent" => courier[i][e].stage = "sent"
    OBVIOUS
  <2>2. \A c \in owed'[e] : c \in owed[e] /\ place'[c] # Away /\ shown[c] \subseteq shown'[c]
    BY <1>2
  <2>3. QED
    BY <1>2, <2>1, <2>2 DEF ShownOf
<1>6. QED
  BY <1>4, <1>5

LEMMA StreamSteps ==
    ASSUME FeedSound, NEW c \in Screens, Replay(c) \/ Disconnect(c) \/ \E i \in Instances : Connect(c, i)
    PROVE  FeedSound'
<1>1. Tables /\ SequencesHold /\ \A e \in Events : owed[e] \subseteq Screens /\ \A q \in owed[e] : place[q] # Away
  BY DEF FeedSound, Tables, ShownOf
<1>2. CASE \E i \in Instances : Connect(c, i)
  <2>1. PICK i \in Instances : Connect(c, i)
    BY <1>2
  <2>2. /\ place[c] = Away /\ place' = [place EXCEPT ![c] = i] /\ asked' = [asked EXCEPT ![c] = lastSeen[c]]
        /\ UNCHANGED <<outbox, due, seq, alive, courier, lastSeen, shown, owed, faults>>
    BY <2>1 DEF Connect
  <2>3. place' \in [Screens -> Instances \union {Away}] /\ place'[c] = i /\ \A q \in Screens \ {c} : place'[q] = place[q]
    BY <1>1, <2>2 DEF Tables
  <2>4. Tables'
    BY <1>1, <2>2, <2>3 DEF Tables
  <2>5. SequencesHold'
    BY <1>1, <2>2 DEF SequencesHold
  <2>6. \A e \in Events : \A q \in owed'[e] : place'[q] # Away
    BY <1>1, <2>2, <2>3, EventFeedAssumption
  <2>7. QED
    BY <2>2, <2>4, <2>5, <2>6, ScreensStep
<1>3. CASE Replay(c)
  <2>1. /\ shown' = [shown EXCEPT ![c] = @ \union Missed(c)]
        /\ lastSeen' = IF Missed(c) = {} THEN lastSeen
                       ELSE [lastSeen EXCEPT ![c] = Highest({seq[e] : e \in Missed(c)})]
        /\ asked' = [asked EXCEPT ![c] = Answered]
        /\ UNCHANGED <<outbox, due, seq, alive, courier, place, owed, faults>>
    BY <1>3 DEF Replay
  <2>2. Missed(c) \subseteq Events
    BY DEF Missed
  <2>3. shown' \in [Screens -> SUBSET Events] /\ \A q \in Screens : shown[q] \subseteq shown'[q]
    BY <1>1, <2>1, <2>2 DEF Tables
  <2>4. Tables'
    BY <1>1, <2>1, <2>3 DEF Tables
  <2>5. lastSeen' \in [Screens -> Nat] /\ \A q \in Screens : \E e \in Events : lastSeen'[q] <= seq[e]
    <3>1. CASE Missed(c) = {}
      BY <1>1, <2>1, <3>1 DEF SequencesHold
    <3>2. CASE Missed(c) # {}
      <4>1. PICK S : S = {seq[e] : e \in Missed(c)}
        OBVIOUS
      <4>2. PICK bound \in Nat : \A e \in Events : seq[e] <= bound
        BY <1>1 DEF SequencesHold
      <4>3. S \in SUBSET Nat /\ S # {} /\ \A m \in S : m <= bound
        BY <1>1, <2>2, <3>2, <4>1, <4>2 DEF SequencesHold
      <4>4. Highest(S) \in S
        BY <4>2, <4>3, GreatestOf
      <4>5. PICK top \in Nat : top = Highest(S) /\ \E e \in Events : top = seq[e]
        BY <2>2, <4>1, <4>3, <4>4
      <4>6. lastSeen' = [lastSeen EXCEPT ![c] = top]
        BY <2>1, <3>2, <4>1, <4>5
      <4>7. lastSeen' \in [Screens -> Nat] /\ lastSeen'[c] = top /\ \A q \in Screens \ {c} : lastSeen'[q] = lastSeen[q]
        BY <1>1, <4>6 DEF SequencesHold
      <4>8. \E e \in Events : lastSeen'[c] <= seq[e]
        <5>1. PICK e \in Events : top = seq[e]
          BY <4>5
        <5>2. seq[e] \in Nat /\ lastSeen'[c] = seq[e]
          BY <4>5, <4>7, <5>1
        <5>3. lastSeen'[c] <= seq[e]
          BY <5>2
        <5>4. QED
          BY <5>3
      <4>9. QED
        BY <1>1, <4>7, <4>8 DEF SequencesHold
    <3>3. QED
      BY <3>1, <3>2
  <2>6. SequencesHold'
    BY <1>1, <2>1, <2>5 DEF SequencesHold, Answered
  <2>7. QED
    BY <1>1, <2>1, <2>3, <2>4, <2>6, ScreensStep
<1>4. CASE Disconnect(c)
  <2>1. /\ place' = [q \in Screens |-> IF q \in {c} THEN Away ELSE place[q]]
        /\ asked' = [q \in Screens |-> IF q \in {c} THEN Answered ELSE asked[q]]
        /\ owed' = [e \in Events |-> owed[e] \ {c}]
        /\ UNCHANGED <<outbox, due, seq, alive, courier, lastSeen, shown>>
    BY <1>4 DEF Disconnect, Cut
  <2>2. Tables'
    BY <1>1, <2>1 DEF Tables
  <2>3. SequencesHold'
    BY <1>1, <2>1 DEF SequencesHold, Answered
  <2>4. \A e \in Events : owed'[e] \subseteq owed[e] /\ \A q \in owed'[e] : place'[q] # Away
    BY <1>1, <2>1
  <2>5. QED
    BY <2>1, <2>2, <2>3, <2>4, ScreensStep
<1>5. QED
  BY <1>2, <1>3, <1>4

LEMMA InstanceSteps ==
    ASSUME FeedSound, NEW i \in Instances, CrashInstance(i) \/ RestartInstance(i)
    PROVE  FeedSound'
<1>1. Tables /\ SequencesHold /\ \A e \in Events : owed[e] \subseteq Screens /\ \A q \in owed[e] : place[q] # Away
  BY DEF FeedSound, Tables, ShownOf
<1>2. CASE CrashInstance(i)
  <2>1. PICK gone : gone = {c \in Screens : place[c] = i}
    OBVIOUS
  <2>2. PICK none : none = [e \in Events |-> NoCourier]
    OBVIOUS
  <2>3. /\ alive' = alive \ {i} /\ courier' = [courier EXCEPT ![i] = none]
        /\ place' = [q \in Screens |-> IF q \in gone THEN Away ELSE place[q]]
        /\ asked' = [q \in Screens |-> IF q \in gone THEN Answered ELSE asked[q]]
        /\ owed' = [e \in Events |-> owed[e] \ gone]
        /\ UNCHANGED <<outbox, due, seq, lastSeen, shown>>
    BY <1>2, <2>1, <2>2 DEF CrashInstance, Cut
  <2>4. none \in [Events -> CourierRow] /\ \A e \in Events : none[e].stage = "idle"
    BY <2>2 DEF NoCourier, CourierRow
  <2>5. /\ courier' \in [Instances -> [Events -> CourierRow]]
        /\ courier'[i] = none /\ \A j \in Instances \ {i} : courier'[j] = courier[j]
    BY <1>1, <2>3, <2>4 DEF Tables
  <2>6. Tables'
    BY <1>1, <2>3, <2>5 DEF Tables
  <2>7. SequencesHold'
    BY <1>1, <2>3 DEF SequencesHold, Answered
  <2>8. \A e \in Events : owed'[e] \subseteq owed[e] /\ \A q \in owed'[e] : place'[q] # Away
    BY <1>1, <2>3
  <2>9. \A j \in Instances, e \in Events : courier'[j][e] = courier[j][e] \/ courier'[j][e].stage = "idle"
    BY <2>4, <2>5
  <2>10. QED
    BY <2>3, <2>6, <2>7, <2>8, <2>9, ScreensStep
<1>3. CASE RestartInstance(i)
  <2>1. alive' = alive \union {i} /\ UNCHANGED <<outbox, due, seq, courier, place, asked, lastSeen, shown, owed, faults>>
    BY <1>3 DEF RestartInstance
  <2>2. Tables'
    BY <1>1, <2>1 DEF Tables
  <2>3. SequencesHold'
    BY <1>1, <2>1, SequencesStay
  <2>4. QED
    BY <1>1, <2>1, <2>2, <2>3, ScreensStep
<1>4. QED
  BY <1>2, <1>3

LEMMA FeedStep ==
    ASSUME FeedSound, EventFeedNext \/ UNCHANGED feedVars
    PROVE  FeedSound'
<1>1. CASE UNCHANGED feedVars
  <2>1. /\ outbox' = outbox /\ due' = due /\ seq' = seq /\ alive' = alive /\ courier' = courier /\ place' = place
        /\ asked' = asked /\ lastSeen' = lastSeen /\ shown' = shown /\ owed' = owed
    BY <1>1 DEF feedVars
  <2>2. Tables' /\ SequencesHold'
    BY <2>1 DEF FeedSound, Tables, SequencesHold
  <2>3. \A e \in Events : \A q \in owed[e] : place[q] # Away
    BY DEF FeedSound, ShownOf
  <2>4. QED
    BY <2>1, <2>2, <2>3, ScreensStep
<1>2. CASE EventFeedNext
  BY <1>2, RowStep, ElapseStep, CourierSteps, StreamSteps, InstanceSteps DEF EventFeedNext
<1>3. QED
  BY <1>1, <1>2

LEMMA FeedIsSound == PlatformSpec => []FeedSound
<1>1. PlatformInit => FeedSound
  BY FeedBegins DEF PlatformInit
<1>2. FeedSound /\ [PlatformNext]_platformVars => FeedSound'
  BY StepOfPlatform, FeedStep
<1>3. QED
  BY <1>1, <1>2, PTL DEF PlatformSpec, platformVars

LEMMA FeedPromises ==
    ASSUME FeedSound
    PROVE  EventFeedTypeOK /\ FeedIsWhole
<1>1. Tables /\ SequencesHold
  BY DEF FeedSound
<1>2. EventFeedTypeOK
  BY <1>1, Numbered DEF EventFeedTypeOK, Tables, CourierRow
<1>3. ASSUME NEW e \in Events
      PROVE  Cardinality({i \in Instances : Working(i, e) /\ ~courier[i][e].late}) <= 1
  <2>1. PICK S : S = {i \in Instances : Working(i, e) /\ ~courier[i][e].late}
    OBVIOUS
  <2>2. \A i, j \in S : i = j
    BY <2>1 DEF FeedSound, CourierOf
  <2>3. CASE S = {}
    <3>1. Cardinality(S) = 0
      BY <2>3, FS_EmptySet
    <3>2. QED
      BY <2>1, <3>1
  <2>4. CASE S # {}
    <3>1. PICK i : S = {i}
      BY <2>2, <2>4
    <3>2. Cardinality(S) = 1
      BY <3>1, FS_Singleton
    <3>3. QED
      BY <2>1, <3>2
  <2>5. QED
    BY <2>3, <2>4
<1>4. SteadySeesAll
  BY DEF FeedSound, ShownOf, SteadySeesAll
<1>5. QED
  BY <1>2, <1>3, <1>4 DEF FeedIsWhole, OneCourier

-----------------------------------------------------------------------------
\* The tables keep their types; no screen has an event id that was never given out.
THEOREM PlatformTyped == PlatformSpec => []PlatformTypeOK
<1>1. TenancySound => TenancyTypeOK
  BY DEF TenancySound
<1>2. FeedSound => EventFeedTypeOK
  BY FeedPromises
<1>3. ApiSound => ApiTypeOK
  BY ApiPromises
<1>4. TenancySound /\ FeedSound /\ ApiSound => PlatformTypeOK
  BY <1>1, <1>2, <1>3 DEF PlatformTypeOK
<1>5. QED
  BY <1>4, TenancyIsSound, FeedIsSound, ApiIsSound, PTL

\* An event is dispatched by one process at a time unless one of them is late, and a
\* screen that stays connected is shown every event that is published, whatever
\* crashes, failures and repetitions the dispatch went through; history, audit log and
\* events of a request agree with what it kept and nothing is announced that is not.
THEOREM ScreensAlwaysRight == PlatformSpec => []ScreensAreRight
<1>1. FeedSound => FeedIsWhole
  BY FeedPromises
<1>2. ApiSound => NewsIsTrue
  BY ApiPromises
<1>3. FeedSound /\ ApiSound => ScreensAreRight
  BY <1>1, <1>2 DEF ScreensAreRight
<1>4. QED
  BY <1>3, FeedIsSound, ApiIsSound, PTL
=============================================================================
