----------------------------- MODULE ClientsProofs -----------------------------
(***************************************************************************)
(* OneAccountPerPhone for any number of accounts, numbers, handlers and    *)
(* other dispatchers.  The numbers alone are an inductive invariant: the   *)
(* checks that decide are those made together with the write, the lookup   *)
(* that create_user makes first is not needed.                             *)
(***************************************************************************)
EXTENDS ClientsScreen, TLAPS

PhonesInv == accounts \in [Accounts -> Account] /\ OneAccountPerPhone

\* One account with a number, and none of the others has one.
LEMMA InitPhones == CSInit => PhonesInv
<1> SUFFICES ASSUME CSInit PROVE PhonesInv
  OBVIOUS
<1>1. accounts \in [Accounts -> Account]
  BY ClientsScreenAssumption DEF CSInit, Account, Unused, Accounts
<1>2. OneAccountPerPhone
  BY ClientsScreenAssumption DEF CSInit, OneAccountPerPhone, Unused, Accounts
<1> QED
  BY <1>1, <1>2 DEF PhonesInv

\* The insert takes a number that nobody has.
LEMMA AddKeepsPhones ==
    ASSUME PhonesInv, NEW p \in Phones, AddAccount(p) PROVE PhonesInv'
<1>1. PICK a \in Accounts :
        /\ ~ Taken(p)
        /\ accounts' = [accounts EXCEPT ![a] = [state |-> "active", named |-> TRUE, phone |-> p]]
  BY DEF AddAccount
<1>2. accounts' \in [Accounts -> Account]
  BY <1>1 DEF PhonesInv, Account
<1>3. \A b \in Accounts : accounts[b].phone # p
  BY <1>1 DEF Taken
<1>4. OneAccountPerPhone'
  BY <1>1, <1>3 DEF PhonesInv, OneAccountPerPhone
<1> QED
  BY <1>2, <1>4 DEF PhonesInv

\* Archiving replaces the number by one that is none.
LEMMA ArchiveKeepsPhones ==
    ASSUME PhonesInv, NEW a, accounts' = [accounts EXCEPT ![a] = Archived] PROVE PhonesInv'
<1>1. accounts' \in [Accounts -> Account]
  BY DEF PhonesInv, Account, Archived
<1>2. OneAccountPerPhone'
  BY ClientsScreenAssumption DEF PhonesInv, OneAccountPerPhone, Archived
<1> QED
  BY <1>1, <1>2 DEF PhonesInv

\* A patch writes a number that no other account has.
LEMMA PatchKeepsPhones ==
    ASSUME PhonesInv, NEW h, h.phone \in Phones, Patch(h) PROVE PhonesInv'
<1>1. CASE \E a \in Accounts \ {h.who} : accounts[a].phone = h.phone
  BY <1>1 DEF Patch, PhonesInv, OneAccountPerPhone
<1>2. CASE ~ \E a \in Accounts \ {h.who} : accounts[a].phone = h.phone
  <2>1. accounts' = [accounts EXCEPT ![h.who] = [state |-> @.state, named |-> TRUE, phone |-> h.phone]]
    BY <1>2 DEF Patch
  <2>2. accounts' \in [Accounts -> Account]
    BY <2>1 DEF PhonesInv, Account
  <2>3. OneAccountPerPhone'
    BY <1>2, <2>1 DEF PhonesInv, OneAccountPerPhone, Account
  <2> QED
    BY <2>2, <2>3 DEF PhonesInv
<1> QED
  BY <1>1, <1>2

\* A handler has the fields it was made with, and one that saves a form has a number.
IsHandler(h) ==
    /\ h = [n |-> h.n, kind |-> h.kind, who |-> h.who, phone |-> h.phone, asks |-> h.asks, stage |-> h.stage]
    /\ h.kind \in {"create", "edit"} => h.phone \in Phones

HandlersInv == \A h \in handlers : IsHandler(h)

CSInv == PhonesInv /\ HandlersInv

\* A handler that goes on to its next stage remains one.
LEMMA OntoKeepsHandlers ==
    ASSUME HandlersInv, NEW h \in handlers, NEW stage, handlers' = Onto(h, stage)
    PROVE  HandlersInv'
<1>1. IsHandler([h EXCEPT !.stage = stage])
  <2>1. [h EXCEPT !.stage = stage] = [n |-> h.n, kind |-> h.kind, who |-> h.who, phone |-> h.phone,
                                      asks |-> h.asks, stage |-> stage]
    BY DEF HandlersInv, IsHandler
  <2> QED
    BY <2>1 DEF HandlersInv, IsHandler
<1> QED
  BY <1>1 DEF HandlersInv, Onto

\* A handler that ends leaves the others as they are.
LEMMA FewerKeepsHandlers ==
    ASSUME HandlersInv, handlers' \subseteq handlers PROVE HandlersInv'
BY DEF HandlersInv, IsHandler

\* Nothing about the numbers changes while the accounts do not.
LEMMA SamePhones == ASSUME PhonesInv, UNCHANGED accounts PROVE PhonesInv'
BY DEF PhonesInv, OneAccountPerPhone

\* No handler waits at the start.
LEMMA InitHandlers == CSInit => HandlersInv
BY DEF CSInit, HandlersInv

\* The steps of the API.
LEMMA ServerKeepsCSInv ==
    ASSUME CSInv, CheckPhone \/ InsertAccount \/ GetCreated \/ ServePatchClient \/ ServeArchive \/ Others
    PROVE  CSInv'
<1> USE DEF CSInv
<1>1. CASE CheckPhone
  <2>1. UNCHANGED accounts /\ \E h \in handlers, stage \in {"refused", "checked"} : handlers' = Onto(h, stage)
    BY <1>1 DEF CheckPhone
  <2> QED
    BY <2>1, SamePhones, OntoKeepsHandlers
<1>2. CASE InsertAccount
  <2>1. PICK h \in handlers :
          /\ h.kind = "create"
          /\ \/ AddAccount(h.phone) /\ handlers' = Onto(h, "get")
             \/ UNCHANGED accounts /\ handlers' = Onto(h, "refused")
    BY <1>2 DEF InsertAccount
  <2>2. h.phone \in Phones
    BY <2>1 DEF HandlersInv, IsHandler
  <2>3. HandlersInv'
    BY <2>1, OntoKeepsHandlers
  <2>4. PhonesInv'
    BY <2>1, <2>2, AddKeepsPhones, SamePhones
  <2> QED
    BY <2>3, <2>4
<1>3. CASE GetCreated
  <2>1. UNCHANGED accounts /\ \E h \in handlers, stage \in {"served", "refused"} : handlers' = Onto(h, stage)
    BY <1>3 DEF GetCreated
  <2> QED
    BY <2>1, SamePhones, OntoKeepsHandlers
<1>4. CASE ServePatchClient
  <2>1. PICK h \in handlers : h.kind = "edit" /\ Patch(h)
    BY <1>4 DEF ServePatchClient
  <2>2. h.phone \in Phones
    BY <2>1 DEF HandlersInv, IsHandler
  <2>3. \E stage \in {"refused", "served"} : handlers' = Onto(h, stage)
    BY <2>1 DEF Patch
  <2>4. HandlersInv'
    BY <2>3, OntoKeepsHandlers
  <2>5. PhonesInv'
    BY <2>1, <2>2, PatchKeepsPhones
  <2> QED
    BY <2>4, <2>5
<1>5. CASE ServeArchive
  <2>1. PICK h \in handlers : accounts' = [accounts EXCEPT ![h.who] = Archived] /\ handlers' = Onto(h, "served")
    BY <1>5 DEF ServeArchive
  <2> QED
    BY <2>1, ArchiveKeepsPhones, OntoKeepsHandlers
<1>6. CASE Others
  <2>1. UNCHANGED handlers
    BY <1>6 DEF Others
  <2>2. HandlersInv'
    BY <2>1, FewerKeepsHandlers
  <2>3. \/ \E a \in Accounts : accounts' = [accounts EXCEPT ![a] = Archived]
        \/ \E p \in Phones : AddAccount(p)
    BY <1>6 DEF Others
  <2> QED
    BY <2>2, <2>3, ArchiveKeepsPhones, AddKeepsPhones
<1> QED
  BY <1>1, <1>2, <1>3, <1>4, <1>5, <1>6

\* The steps of the page change no account; a save adds a handler with the number
\* of the form, and an answer removes one or lets it go on.
LEMMA PageKeepsCSInv ==
    ASSUME CSInv,
           \/ Search \/ TurnLeaf \/ ServeFetch \/ FetchArrives \/ FetchFails
           \/ OpenCreate \/ OpenEdit \/ OpenModal \/ CallFromView \/ CloseModal \/ TypeNumber
           \/ SendForm \/ SendDelete \/ SaveAnswered \/ SaveFails
    PROVE  CSInv'
<1> USE DEF CSInv
<1>1. CASE Search \/ TurnLeaf \/ ServeFetch
  <2>1. UNCHANGED <<accounts, handlers>>
    BY <1>1 DEF Search, TurnLeaf, ServeFetch
  <2> QED
    BY <2>1, SamePhones, FewerKeepsHandlers
<1>2. CASE FetchArrives \/ FetchFails
  <2>1. UNCHANGED accounts /\ handlers' \subseteq handlers
    BY <1>2 DEF FetchArrives, FetchFails, FetchEnds
  <2> QED
    BY <2>1, SamePhones, FewerKeepsHandlers
<1>3. CASE OpenCreate \/ OpenEdit \/ OpenModal \/ CallFromView \/ CloseModal \/ TypeNumber
  <2>1. UNCHANGED <<accounts, handlers>>
    BY <1>3 DEF OpenCreate, OpenEdit, OpenModal, CallFromView, CloseModal, TypeNumber, tableVars
  <2> QED
    BY <2>1, SamePhones, FewerKeepsHandlers
<1>4. CASE SendForm \/ SendDelete
  <2>1. PICK phone : /\ modal.kind \in {"create", "edit"} => phone \in Phones
                     /\ SendWrite(phone)
    BY <1>4 DEF SendForm, SendDelete
  <2>2. UNCHANGED accounts
    BY <2>1 DEF SendWrite
  <2> DEFINE new == [n |-> inputs, kind |-> modal.kind, who |-> modal.who,
                     phone |-> phone, asks |-> sought, stage |-> "sent"]
  <2>3. IsHandler(new)
    BY <2>1 DEF IsHandler
  <2>4. handlers' = handlers \cup {new}
    BY <2>1 DEF SendWrite
  <2>5. HandlersInv'
    BY <2>3, <2>4 DEF HandlersInv, IsHandler
  <2> QED
    BY <2>2, <2>5, SamePhones
<1>5. CASE SaveAnswered
  <2>1. UNCHANGED accounts /\ \E h \in handlers : handlers' = Onto(h, "refresh")
    BY <1>5 DEF SaveAnswered
  <2> QED
    BY <2>1, SamePhones, OntoKeepsHandlers
<1>6. CASE SaveFails
  <2>1. UNCHANGED accounts /\ handlers' \subseteq handlers
    BY <1>6 DEF SaveFails
  <2> QED
    BY <2>1, SamePhones, FewerKeepsHandlers
<1> QED
  BY <1>1, <1>2, <1>3, <1>4, <1>5, <1>6

\* However often a save is sent, lost or repeated, and whoever creates, patches or
\* archives at the same time (services/auth.py create_user, api/v1/clients.py
\* patch_client and archive_client), no two accounts have one telephone number.
THEOREM OnePhoneOneAccount == CSSpec => []OneAccountPerPhone
<1>1. CSInit => CSInv
  BY InitPhones, InitHandlers DEF CSInv
<1>2. CSInv /\ [CSNext]_csVars => CSInv'
  <2> SUFFICES ASSUME CSInv, [CSNext]_csVars PROVE CSInv'
    OBVIOUS
  <2>1. CASE UNCHANGED csVars
    <3>1. UNCHANGED <<accounts, handlers>>
      BY <2>1 DEF csVars
    <3> QED
      BY <3>1, SamePhones, FewerKeepsHandlers DEF CSInv
  <2>2. CASE CSNext
    BY <2>2, ServerKeepsCSInv, PageKeepsCSInv DEF CSNext
  <2> QED
    BY <2>1, <2>2
<1>3. CSInv => OneAccountPerPhone
  BY DEF CSInv, PhonesInv
<1> QED
  BY <1>1, <1>2, <1>3, PTL DEF CSSpec
=============================================================================
