------------------------------- MODULE MCFiscal -------------------------------
(* Small instances of the components that keep the books: the vouchers        *)
(* declared to SUNAT, the queue of the jobs about them, the messages that     *)
(* Meta delivers and takes, and the evidence that the rows of the first       *)
(* tenant were taken over complete.  They write to different tables and no    *)
(* step of one reads another's: `part' says which one runs in a behaviour,    *)
(* and a run explores them side by side.                                      *)
EXTENDS Vouchers, SunatJobQueue, Backfill, Attention, TLC

CONSTANTS
    b1, b2, b3, f1, here, there,        \* three boletas, a factura, two stores
    m1, m2, m3, m4, line1, line2, s1, s2      \* messages, two numbers and shops

VARIABLE part

\* A part that does not run stays in one of its initial states.
FiscalInit ==
    /\ part \in {"vouchers", "queue", "backfill", "inbox"}
    /\ VouchersInit /\ Init /\ BackfillInit /\ AttentionInit
    /\ part # "vouchers" => trade = CHOOSE t \in Trades : TRUE
    /\ part # "backfill" => scope = CHOOSE s \in Scopes : TRUE

FiscalNext ==
    \/ part = "vouchers" /\ VouchersNext /\ UNCHANGED <<part, vars, backfillVars, attentionVars>>
    \/ part = "queue" /\ Next /\ UNCHANGED <<part, vouchersVars, backfillVars, attentionVars>>
    \/ part = "backfill" /\ BackfillNext /\ UNCHANGED <<part, vars, vouchersVars, attentionVars>>
    \/ part = "inbox" /\ AttentionNext /\ UNCHANGED <<part, vars, vouchersVars, backfillVars>>

FiscalSpec == FiscalInit /\ [][FiscalNext]_<<part, vouchersVars, vars, backfillVars, attentionVars>>

\* f1 is a factura, the others are boletas, all of one store or b2 of another;
\* a credit note is about b3.
TypeOf == [s \in Sales |-> IF s = f1 THEN "FACTURA" ELSE "BOLETA"]
OneStore == [s \in Sales |-> here]
TwoStores == [s \in Sales |-> IF s = b2 THEN there ELSE here]
OfThird == [n \in Notes |-> b3]

\* The stories whose scripts run in a behaviour: a story is looked at with some of
\* those it requires.
SomeStories == {{"MIG-003"}, {"MIG-004", "MIG-011"}, {"MIG-005", "MIG-006", "MIG-007"},
                {"MIG-007", "MIG-008", "MIG-009"}, {"MIG-009", "MIG-010"}}

\* m1 and m2 are for the first number, which a shop has connected; the second one
\* is in the environment, for the other shop.
AddresseeOf == [m \in Messages |-> IF m \in {m1, m2} THEN line1 ELSE line2]
InEnvironment == [n \in Numbers |-> IF n = line2 THEN s2 ELSE NoShop]
FirstConnected ==
    {[s \in Shops |-> IF s = s1 THEN [number |-> line1, status |-> "CONNECTED"] ELSE NoLink]}

\* Which task, which script and which of two equal boletas makes no difference;
\* the webhooks of the inbox are named as the tasks, its conversations as boletas.
FiscalSymmetry ==
    Permutations(Tasks) \union Permutations(Scripts) \union Permutations({b1, b2})

\* Types of the components.
FiscalTypeOK == VouchersTypeOK /\ BackfillTypeOK /\ AttentionTypeOK

\* What SUNAT accepted and what Meta was told is received is what the rows say.
OutsideAgrees == BooksAgree /\ InboxHolds
=============================================================================
