-------------------------------- MODULE MCTeam --------------------------------
(* Small instances of the components about the people who prepare an order:   *)
(* who picks it, who holds its tasks, who edits its lines.  No step of one    *)
(* reads a row that another writes: `part' says which one runs in a           *)
(* behaviour, and a run explores them side by side.                           *)
EXTENDS PickingTeam, TaskBoard, Proforma, TLC

VARIABLE part

\* A part that does not run stays in one of its initial states.
TeamInit ==
    /\ part \in {"picking", "tasks", "proforma"}
    /\ PickingTeamInit /\ TaskBoardInit /\ ProformaInit
    /\ part # "picking" => primary = Nobody
    /\ part # "tasks" => hands = CHOOSE h \in Hands : TRUE
    /\ part # "proforma" => item[1].here /\ ~item[1].removed /\ item[2].here

TeamNext ==
    \/ part = "picking" /\ PickingTeamNext /\ UNCHANGED <<part, boardVars, proformaVars>>
    \/ part = "tasks" /\ TaskBoardNext /\ UNCHANGED <<part, teamVars, proformaVars>>
    \/ part = "proforma" /\ ProformaNext /\ UNCHANGED <<part, teamVars, boardVars>>

TeamSpec == TeamInit /\ [][TeamNext]_<<part, teamVars, boardVars, proformaVars>>

\* The requests about an order that may run beside another one; the others run
\* alone.  Completing the picking is not among them, because beside a pick it
\* leaves READY orders that are not picked, nor is asking for help, which may
\* leave its request open when the order is closed meanwhile.
Together == {"start", "assign", "delegate", "resolve", "pick", "pickAll", "cancel",
             "deliver", "returned"}

\* A behaviour gives picking tasks away three times, one request after the other,
\* or its requests overlap, or the reception is given to somebody.
GivenByHand ==
    {[tasks |-> Picks, most |-> 3, beside |-> {}],
     [tasks |-> Picks, most |-> 1, beside |-> {{"complete"}, {"assign", "complete"}}],
     [tasks |-> {"receive"}, most |-> 1, beside |-> {}]}

\* Which employee and which request makes no difference, nor which store: the
\* stores of the one part are named like the employees of the others.
TeamSymmetry == Permutations(Pickers) \union Permutations(Slots)

\* Types of the components.
TeamTypeOK == PickingTeamTypeOK /\ TaskBoardTypeOK /\ ProformaTypeOK

\* Nothing is left open at the desk of the pickers, and the lines that are edited
\* agree with the stock they are promised.
LinesAndDesk == DeskAgrees /\ EditsAgree
=============================================================================
