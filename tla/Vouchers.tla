------------------------------- MODULE Vouchers -------------------------------
(* Electronic vouchers of one tenant: their numbers, what SUNAT has been told  *)
(* of them, and what the database says SUNAT answered                         *)
(* (modules/sunat/services/comprobante.service.ts, numbering.service.ts).     *)
(*                                                                            *)
(* A request or a job of the worker is one transaction: it takes a number or  *)
(* links its lines, calls SUNAT while it holds its locks, and commits at its   *)
(* end.  A crash in between, or the timeout of the transaction, undoes the     *)
(* rows but not what SUNAT has.                                               *)
EXTENDS Integers, Sequences, FiniteSets

CONSTANTS
    Sales,      \* orders that ask for a voucher
    Notes,      \* credit and debit notes
    Type,       \* "BOLETA" or "FACTURA" of a sale
    Store,      \* store of a sale
    Base,       \* the sale whose voucher a note changes
    Trades,     \* the documents a behaviour may be about: one of these sets
    Tasks,      \* requests and jobs in flight
    MaxSlot,    \* bound on the time, in halves of a day of Lima
    MaxNotices, \* bound on the summaries and communications
    OneNotice,  \* TRUE: the office sends one summary or communication at a time
    MaxTurns    \* bound on the half days that pass, and the transactions and calls of SUNAT that fail

Docs == Sales \union Notes

ASSUME VouchersAssumption ==
    /\ Type \in [Sales -> {"BOLETA", "FACTURA"}]
    /\ Base \in [Notes -> Sales]
    /\ Sales \intersect Notes = {}
    /\ \A docs \in Trades : docs \subseteq Docs
    /\ {MaxSlot, MaxNotices, MaxTurns} \subseteq Nat
    /\ OneNotice \in BOOLEAN

VARIABLES
    trade,      \* the documents this behaviour is about
    slot,       \* the clock: odd after 19:00 in Lima, when the next day of UTC has begun
    sold,       \* committed orders
    paper,      \* table Comprobante
    series,     \* table ComprobanteSerie: the last number of a scope
    notices,    \* tables ResumenDiario and ComunicacionBaja
    fisc,       \* external: what SUNAT has
    task,       \* transactions in flight
    cuts        \* transactions and calls that have failed so far

vouchersVars == <<trade, slot, sold, paper, series, notices, fisc, task, cuts>>

NoPaper == [estado |-> "NONE", number |-> 0, at |-> 0, link |-> 0, baja |-> 0]
NoTaskYet == [op |-> "none"]

ByBoleta(d) == IF d \in Notes THEN Type[Base[d]] = "BOLETA" ELSE Type[d] = "BOLETA"
Boletas == {d \in Sales : Type[d] = "BOLETA"}

\* numberingScope: a sale is numbered by its store, a note by the tenant; the
\* series and the name of the file do not tell the stores apart.
Scope(d) == IF d \in Notes THEN <<"note", Type[Base[d]], "GLOBAL">> ELSE <<"sale", Type[d], Store[d]>>
nombreArchivo(d, n) == <<Scope(d)[1], Scope(d)[2], n>>

VouchersInit ==
    /\ trade \in Trades
    /\ slot = 0
    /\ sold = {}
    /\ paper = [d \in Docs |-> NoPaper]
    /\ series = [s \in {Scope(d) : d \in Docs} |-> 0]
    /\ notices = <<>>
    /\ fisc = [names |-> {}, voided |-> {}, tickets |-> {}]
    /\ task = [t \in Tasks |-> NoTaskYet]
    /\ cuts = 0

LimaDay(s) == s \div 2
UtcDay(s) == (s + 1) \div 2

Midday ==
    /\ slot < MaxSlot /\ slot + cuts < MaxTurns
    /\ slot' = slot + 1
    /\ UNCHANGED <<trade, sold, paper, series, notices, fisc, task, cuts>>

Accepted(d) == paper[d].estado = "ACEPTADO"
Issuing == {"sale", "emit", "note"}
Telling == {"add", "void", "baja"}
Running(t, ops) == task[t].op \in ops

Launch(t, rec) ==
    /\ task[t] = NoTaskYet
    /\ task' = [task EXCEPT ![t] = rec]
    /\ UNCHANGED <<trade, slot, sold, paper, series, notices, fisc, cuts>>

\* The transaction is undone: a crash, its timeout, or a unique index.
Undone(t) == task' = [task EXCEPT ![t] = NoTaskYet]

Cut(t) ==
    /\ task[t] # NoTaskYet /\ slot + cuts < MaxTurns
    /\ Undone(t)
    /\ cuts' = cuts + 1
    /\ UNCHANGED <<trade, slot, sold, paper, series, notices, fisc>>

-----------------------------------------------------------------------------
(* emitirDesdeOrder(), emitirNota(): a voucher of its own number.             *)

Issue(t, op, d, via) ==
    Launch(t, [op |-> op, doc |-> d, via |-> via, number |-> 0, at |-> slot,
               estado |-> "BORRADOR", sent |-> FALSE])

\* createOrder() with a voucher: the boletas of a sale wait for the summary.
SellWithVoucher(t, s) ==
    /\ s \in trade \ sold
    /\ \A u \in Tasks : ~(Running(u, {"sale"}) /\ task[u].doc = s)
    /\ Issue(t, "sale", s, s \in Boletas)

\* A voucher for an order that has none; with one the request is a replay.
IssueForOrder(t, s, via) ==
    /\ s \in sold /\ paper[s] = NoPaper
    /\ via => s \in Boletas
    /\ Issue(t, "emit", s, via)

IssueNote(t, n) ==
    /\ n \in trade /\ Accepted(Base[n]) /\ paper[n] = NoPaper
    /\ Issue(t, "note", n, ByBoleta(n))

\* reserveNextNumber(): the row of the series is locked until the commit.
NextNumberFree(t) ==
    \A u \in Tasks \ {t} :
        Running(u, Issuing) /\ Scope(task[u].doc) = Scope(task[t].doc) => task[u].number = 0

\* An index waits for the transaction that holds an equal key.
IndexFree(t, n) ==
    \A u \in Tasks \ {t} : Running(u, Issuing) /\ task[u].number > 0 =>
        /\ task[u].doc # task[t].doc
        /\ nombreArchivo(task[u].doc, task[u].number) # nombreArchivo(task[t].doc, n)

\* The unique indexes (tenantId, nombreArchivo) and (tenantId, idempotencyKey).
Clashes(d, n) ==
    \/ paper[d] # NoPaper
    \/ \E e \in Docs : paper[e] # NoPaper /\ nombreArchivo(e, paper[e].number) = nombreArchivo(d, n)

ReserveNextNumber(t) ==
    /\ Running(t, Issuing) /\ task[t].number = 0
    /\ LET d == task[t].doc
           n == series[Scope(d)] + 1
       IN  /\ NextNumberFree(t) /\ IndexFree(t, n)
           /\ IF Clashes(d, n) THEN Undone(t)
              ELSE task' = [task EXCEPT ![t].number = n]
    /\ UNCHANGED <<trade, slot, sold, paper, series, notices, fisc, cuts>>

\* enviar(): SUNAT takes a name once, and its answer may get lost.  What throws
\* is answered with an error, and the row that was committed with it is the draft
\* it was: nothing was sent because the files could not be signed or stored
\* ("unstored"), or SUNAT has it and what it answered could not be read or stored
\* ("unread").
Has(name) == \E x \in fisc.names : x[1] = name

\* The call is refused or ends without an answer (bounded).
Fails(answer) ==
    IF answer \in {"fault", "lost", "unread"} THEN slot + cuts < MaxTurns /\ cuts' = cuts + 1
    ELSE UNCHANGED cuts

SendBill(t, answer) ==
    /\ Running(t, Issuing) /\ task[t].number > 0 /\ ~task[t].via /\ ~task[t].sent
    /\ LET d == task[t].doc
           name == nombreArchivo(d, task[t].number)
       IN  /\ answer \in {"accept", "lost", "unread"} => ~Has(name)
           /\ fisc' = IF answer \in {"accept", "lost", "unread"}
                      THEN [fisc EXCEPT !.names = @ \union {<<name, d>>}] ELSE fisc
           /\ task' = [task EXCEPT ![t].sent = TRUE,
                         ![t].estado = CASE answer = "accept" -> "ACEPTADO"
                                         [] answer = "reject" -> "RECHAZADO"
                                         [] answer \in {"fault", "lost"} -> "ERROR"
                                         [] answer \in {"unstored", "unread"} -> "BORRADOR"]
    /\ Fails(answer)
    /\ UNCHANGED <<trade, slot, sold, paper, series, notices>>

\* The number is used up whatever SUNAT answered.  A mutant: only by a voucher
\* that SUNAT accepted.
SeriesIfAccepted(t) ==
    IF task[t].estado = "ACEPTADO" THEN [series EXCEPT ![Scope(task[t].doc)] = task[t].number] ELSE series

SeriesAfter(t) == [series EXCEPT ![Scope(task[t].doc)] = task[t].number]

CommitVoucher(t) ==
    /\ Running(t, Issuing) /\ task[t].number > 0 /\ (task[t].via \/ task[t].sent)
    /\ LET d == task[t].doc
       IN  /\ paper' = [paper EXCEPT ![d] = [estado |-> task[t].estado, number |-> task[t].number,
                                             at |-> task[t].at, link |-> 0, baja |-> 0]]
           /\ series' = SeriesAfter(t)
           /\ sold' = IF task[t].op = "sale" THEN sold \union {d} ELSE sold
    /\ Undone(t)
    /\ UNCHANGED <<trade, slot, notices, fisc, cuts>>

\* A sale that asks for no voucher.
SellPlain(s) ==
    /\ s \in trade \ sold /\ \A u \in Tasks : ~(Running(u, {"sale"}) /\ task[u].doc = s)
    /\ sold' = sold \union {s}
    /\ UNCHANGED <<trade, slot, paper, series, notices, fisc, task, cuts>>

-----------------------------------------------------------------------------
(* Summaries of boletas and communications of voided vouchers: enviarResumen() *)
(* and generarComunicacionBaja().                                             *)

Table(kind) == IF kind = "baja" THEN "RA" ELSE "RC"

\* The rows of a table that were generated on a day of UTC.
Generated(kind, day) == {i \in DOMAIN notices : Table(notices[i].kind) = Table(kind) /\ notices[i].day = day}

\* The number of a file counts the rows of the date, which is that of Lima.
Correlativo(kind) == Cardinality(Generated(kind, LimaDay(slot))) + 1

Tell(t, kind, ref, lines) ==
    /\ lines # {} /\ Len(notices) < MaxNotices
    /\ OneNotice => \A u \in Tasks : ~Running(u, Telling)
    /\ Launch(t, [op |-> kind, ref |-> ref, lines |-> lines, number |-> Correlativo(kind), day |-> 0,
                  linked |-> FALSE, sent |-> FALSE, ticket |-> FALSE])

\* generarResumenDiario(): the vouchers that were issued on a day of UTC.
GenerarResumen(t, day) ==
    Tell(t, "add", day, {d \in Docs : /\ ByBoleta(d) /\ paper[d].estado = "BORRADOR"
                                      /\ paper[d].link = 0 /\ UtcDay(paper[d].at) = day})

\* They are all of one day, a day of Lima.
SameDay(lines, day) == \A d \in lines : LimaDay(paper[d].at) = day

AnularBoletas(t, lines, day) ==
    /\ \A d \in lines : Accepted(d)
    /\ SameDay(lines, day)
    /\ Tell(t, "void", day, lines)

GenerarBaja(t, lines, day) ==
    /\ \A d \in lines : Accepted(d) /\ paper[d].baja = 0
    /\ SameDay(lines, day)
    /\ Tell(t, "baja", day, lines)

FileOf(r) == <<Table(r.op), r.day, r.number>>

\* The file is named for today in UTC: the insert waits for one of that name,
\* and the index refuses one that is taken.
LinkLines(t) ==
    /\ Running(t, Telling) /\ ~task[t].linked
    /\ LET row == [task[t] EXCEPT !.day = UtcDay(slot), !.linked = TRUE]
       IN  /\ \A u \in Tasks : Running(u, Telling) /\ task[u].linked => FileOf(task[u]) # FileOf(row)
           /\ IF \E i \in Generated(row.op, row.day) : notices[i].number = row.number
              THEN Undone(t)
              ELSE task' = [task EXCEPT ![t] = row]
    /\ UNCHANGED <<trade, slot, sold, paper, series, notices, fisc, cuts>>

SendSummary(t, answer) ==
    /\ Running(t, Telling) /\ task[t].linked /\ ~task[t].sent
    /\ LET name == FileOf(task[t])
       IN  /\ answer \in {"ticket", "lost"} => \A x \in fisc.tickets : x.name # name
           /\ fisc' = IF answer \in {"ticket", "lost"}
                      THEN [fisc EXCEPT !.tickets = @ \union
                              {[name |-> name, kind |-> task[t].op, lines |-> task[t].lines, state |-> "98"]}]
                      ELSE fisc
           /\ task' = [task EXCEPT ![t].sent = TRUE, ![t].ticket = answer = "ticket"]
    /\ Fails(answer)
    /\ UNCHANGED <<trade, slot, sold, paper, series, notices>>

\* estadoRevert.  A mutant: an annulment that fails makes drafts, too.
RevertsToDraft(kind) == "BORRADOR"

Reverts(kind) == IF kind = "add" THEN "BORRADOR" ELSE "ACEPTADO"

\* The files cannot be signed or stored, after the lines were linked: the request
\* is answered with an error and what it wrote is committed, a notice that is
\* PENDING without a ticket (bounded).
Unsent(r) == r.linked /\ ~r.sent

\* Answered without a ticket, the lines are what they were; else they are SENT,
\* those of a communication only marked.
CommitNotice(t) ==
    /\ Running(t, Telling) /\ (task[t].sent \/ Unsent(task[t]))
    /\ IF Unsent(task[t]) THEN slot + cuts < MaxTurns /\ cuts' = cuts + 1 ELSE UNCHANGED cuts
    /\ LET r == task[t]
           id == Len(notices) + 1
           stays == r.ticket \/ Unsent(r)
       IN  /\ notices' = Append(notices, [kind |-> r.op, ref |-> r.ref, day |-> r.day, number |-> r.number,
                                          lines |-> r.lines, ticket |-> r.ticket,
                                          status |-> IF stays THEN "PENDING" ELSE "ERROR"])
           /\ paper' = [d \in Docs |->
                  IF d \notin r.lines THEN paper[d]
                  ELSE IF r.op = "baja" THEN [paper[d] EXCEPT !.baja = IF stays THEN id ELSE 0]
                  ELSE IF stays THEN [paper[d] EXCEPT !.link = id, !.estado = "ENVIADO"]
                  ELSE [paper[d] EXCEPT !.link = 0, !.estado = Reverts(r.op)]]
    /\ Undone(t)
    /\ UNCHANGED <<trade, slot, sold, series, fisc>>

-----------------------------------------------------------------------------
(* Tickets.                                                                   *)

\* External: SUNAT accepts a summary only if its names are its own.
Named(lines) == {<<nombreArchivo(d, paper[d].number), d>> : d \in lines}

Decide(x, verdict) ==
    /\ x \in fisc.tickets /\ x.state = "98"
    /\ verdict = "0" /\ x.kind = "add" =>
          \A y \in Named(x.lines) : ~(\E z \in fisc.names : z[1] = y[1] /\ z # y)
    /\ fisc' = [names |-> IF verdict = "0" /\ x.kind = "add" THEN fisc.names \union Named(x.lines) ELSE fisc.names,
                voided |-> IF verdict = "0" /\ x.kind # "add" THEN fisc.voided \union x.lines ELSE fisc.voided,
                tickets |-> (fisc.tickets \ {x}) \union {[x EXCEPT !.state = verdict]}]
    /\ UNCHANGED <<trade, slot, sold, paper, series, notices, task, cuts>>

\* consultarResumen(), consultarBaja(): by a user or by the POLL_TICKET job,
\* which comes back as long as the row is PENDING.
FileOfNotice(i) == <<Table(notices[i].kind), notices[i].day, notices[i].number>>

Consultar(t, i) ==
    /\ i \in DOMAIN notices /\ notices[i].ticket /\ notices[i].status # "ACCEPTED"
    /\ \E x \in fisc.tickets : x.name = FileOfNotice(i) /\ x.state # "98"
                               /\ Launch(t, [op |-> "poll", notice |-> i, answer |-> x.state])

\* The lines that are of the notice when the answer is applied.
LinesNow(i) == {d \in Docs : IF notices[i].kind = "baja" THEN paper[d].baja = i ELSE paper[d].link = i}

LinesOf(i) == LinesNow(i)

\* The state of the lines of an accepted notice.  A mutant: that of the notice.
OutcomeOfNotice(kind) == "ACCEPTED"

Outcome(kind) == IF kind = "add" THEN "ACEPTADO" ELSE "ANULADO"

\* A response without a code is an ERROR, and the lines stay as they are.
ApplyCdr(t, readable) ==
    /\ Running(t, {"poll"})
    /\ LET i == task[t].notice
           r == notices[i]
           status == IF ~readable THEN "ERROR" ELSE IF task[t].answer = "0" THEN "ACCEPTED" ELSE "REJECTED"
       IN  /\ notices' = [notices EXCEPT ![i].status = status]
           /\ paper' = [d \in Docs |->
                  IF d \notin LinesOf(i) \/ status = "ERROR" THEN paper[d]
                  ELSE IF status = "ACCEPTED" THEN [paper[d] EXCEPT !.estado = Outcome(r.kind)]
                  ELSE IF r.kind = "baja" THEN [paper[d] EXCEPT !.baja = 0]
                  ELSE [paper[d] EXCEPT !.link = 0, !.estado = Reverts(r.kind)]]
    /\ Undone(t)
    /\ UNCHANGED <<trade, slot, sold, series, fisc, cuts>>

-----------------------------------------------------------------------------
VouchersNext ==
    \/ Midday
    \/ \E s \in Sales : SellPlain(s)
    \/ \E x \in fisc.tickets, verdict \in {"0", "99"} : Decide(x, verdict)
    \/ \E t \in Tasks :
          \/ \E s \in Sales : SellWithVoucher(t, s) \/ \E via \in BOOLEAN : IssueForOrder(t, s, via)
          \/ \E n \in Notes : IssueNote(t, n)
          \/ ReserveNextNumber(t) \/ CommitVoucher(t)
          \/ \E answer \in {"accept", "reject", "fault", "lost", "unstored", "unread"} : SendBill(t, answer)
          \/ \E day \in 0..MaxSlot :
                \/ GenerarResumen(t, day)
                \/ \E lines \in SUBSET (Boletas \intersect trade) : AnularBoletas(t, lines, day)
                \/ \E lines \in SUBSET (trade \ Boletas) : GenerarBaja(t, lines, day)
          \/ LinkLines(t) \/ CommitNotice(t)
          \/ \E answer \in {"ticket", "fault", "lost"} : SendSummary(t, answer)
          \/ \E i \in 1..MaxNotices : Consultar(t, i)
          \/ \E readable \in BOOLEAN : ApplyCdr(t, readable)
          \/ Cut(t)

VouchersSpec == VouchersInit /\ [][VouchersNext]_vouchersVars

-----------------------------------------------------------------------------
(* Types.                                                                     *)
Estados == {"NONE", "BORRADOR", "ENVIADO", "ACEPTADO", "RECHAZADO", "ANULADO", "ERROR"}

VouchersTypeOK ==
    /\ slot \in 0..MaxSlot
    /\ sold \subseteq Sales
    /\ paper \in [Docs -> [estado : Estados, number : Nat, at : 0..MaxSlot,
                           link : 0..MaxNotices, baja : 0..MaxNotices]]
    /\ \A s \in Sales : paper[s] # NoPaper => s \in sold
    /\ Len(notices) <= MaxNotices

\* The numbers of a series are consecutive: no gap, none twice, whatever
\* transactions are undone.
NumbersAreDense ==
    \A s \in DOMAIN series :
        LET issued == {d \in Docs : paper[d] # NoPaper /\ Scope(d) = s}
        IN  /\ {paper[d].number : d \in issued} = 1..series[s]
            /\ Cardinality(issued) = series[s]

\* What the database says SUNAT accepted, SUNAT did accept.
AcceptedBySunat ==
    \A d \in Docs :
        /\ paper[d].estado \in {"ACEPTADO", "ANULADO"} => <<nombreArchivo(d, paper[d].number), d>> \in fisc.names
        /\ paper[d].estado = "ANULADO" => d \in fisc.voided

\* A voucher that is on its way is a line of the notice that carries it, and
\* follows that notice; so does one that a communication is to void.  A notice that
\* SUNAT refused carries nothing; one that was never sent keeps its lines, and
\* nothing takes them from it.
Standing(r) == r.status # "REJECTED" /\ (r.status = "ERROR" => r.ticket)

SentWithItsNotice ==
    \A d \in Docs :
        /\ paper[d].estado = "ENVIADO" => paper[d].link > 0
        /\ paper[d].link > 0 =>
              LET r == notices[paper[d].link]
              IN  /\ d \in r.lines /\ Standing(r)
                  /\ r.status = "PENDING" => paper[d].estado = "ENVIADO"
                  /\ r.status = "ACCEPTED" => paper[d].estado = Outcome(r.kind) \/ paper[d].baja > 0
        /\ paper[d].baja > 0 =>
              LET r == notices[paper[d].baja]
              IN  /\ d \in r.lines /\ r.kind = "baja" /\ Standing(r)
                  /\ r.status = "PENDING" => Accepted(d)

\* An acceptance by SUNAT that the row has recorded stays on record until the
\* voucher is voided, whatever summaries and communications about it are refused or
\* rejected: the row is never a draft again, and a voided sale stays so.  (One that
\* was not recorded, because the answer was lost or could not be stored, is a draft
\* or an error, and a draft is declared again.)
AcceptanceIsKept ==
    [][\A d \in Docs :
          /\ Accepted(d) => paper'[d].estado \in {"ACEPTADO", "ENVIADO", "ANULADO"}
          /\ paper[d].estado = "ENVIADO" /\ notices[paper[d].link].kind = "void" =>
                paper'[d].estado \in {"ENVIADO", "ACEPTADO", "ANULADO"}
          /\ paper[d].estado = "ANULADO" /\ d \in Sales => paper'[d].estado = "ANULADO"]_vouchersVars

\* "Emision del comprobante electronico ligado a la venta. NO bloquea la venta":
\* a sale is not undone but by a crash.
SaleIsNotBlocked ==
    [][\A t \in Tasks : Running(t, {"sale"}) /\ task'[t] = NoTaskYet /\ cuts' = cuts =>
          task[t].doc \in sold']_vouchersVars

\* The rows of the vouchers say what happened to them: their numbers, their
\* notices and the answers of SUNAT.
BooksAgree == NumbersAreDense /\ AcceptedBySunat /\ SentWithItsNotice
=============================================================================
