------------------------------ MODULE MCAccounts ------------------------------
(* Small instances of the four components about accounts: how an owner gets a *)
(* tenant, how a person gets in, and how a tenant fills the places of its     *)
(* plan with people and stores, and with products and pictures.  No step of   *)
(* one reads the rows of another: `part' says which one runs in a behaviour,  *)
(* and a run explores them side by side.                                      *)
EXTENDS Registration, Office, Catalogue, Credentials, TLC

CONSTANTS phone, p0, p1, p2    \* one device; the owner of a tenant and two others

VARIABLE part

\* A part that does not run stays in one of its initial states.  Which product is
\* there at first makes no difference.
AccountsInit ==
    /\ part \in {"registration", "office", "catalogue", "credentials"}
    /\ RegistrationInit /\ OfficeInit /\ CatalogueInit /\ CredentialsInit
    /\ part # "office" => day = CHOOSE d \in Days : TRUE
    /\ shelf[CHOOSE p \in Products : TRUE] =
          [OnShelf([active |-> TRUE, name |-> CHOOSE n \in ProductNames : TRUE])
             EXCEPT !.pictures = {CHOOSE a \in Pictures : TRUE},
                    !.sold = {CHOOSE k \in VariantKeys : TRUE},
                    !.variants = {CHOOSE k \in VariantKeys : TRUE}]

AccountsNext ==
    \/ part = "registration" /\ RegistrationNext /\ UNCHANGED <<part, officeVars, catalogueVars, credentialsVars>>
    \/ part = "office" /\ OfficeNext /\ UNCHANGED <<part, registrationVars, catalogueVars, credentialsVars>>
    \/ part = "catalogue" /\ CatalogueNext /\ UNCHANGED <<part, registrationVars, officeVars, credentialsVars>>
    \/ part = "credentials" /\ CredentialsNext /\ UNCHANGED <<part, registrationVars, officeVars, catalogueVars>>

AccountsSpec == AccountsInit /\ [][AccountsNext]_<<part, registrationVars, officeVars, catalogueVars, credentialsVars>>

\* Every owner signs up from the same device, for a business of the same name.
OneDevice == [o \in Owners |-> phone]
OneName == [o \in Owners |-> 1]

\* A code sent by WhatsApp expires before a link.
Lifetimes == [channel \in Channels |-> IF channel = "email" THEN 3 ELSE 2]

\* What happens on one day in the office: invitations, stores, or both.
SomeDays ==
    {[ops |-> {"invite", "accept", "update"}, seats |-> 3],
     [ops |-> {"createStore", "updateStore"}, seats |-> 2],
     [ops |-> {"invite", "accept", "createStore"}, seats |-> 2]}

\* Which owner, invited person, store and request makes no difference; the stores
\* of the one part are named as the owners of the other.
AccountsSymmetry ==
    Permutations(Owners) \union Permutations(Requests) \union Permutations({p1, p2})

\* Types of the four components.
AccountsTypeOK == RegistrationTypeOK /\ OfficeTypeOK /\ CatalogueTypeOK /\ CredentialsTypeOK

\* A person is one user, who gets in with what is in force.
OneUserGetsIn == OneUserEach /\ EntryHolds

\* The plan is kept whoever asks at the same time: users and stores, and products,
\* pictures and storage.
PlanHolds == PlacesHold /\ ShelvesHold
=============================================================================
