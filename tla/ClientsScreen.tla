----------------------------- MODULE ClientsScreen -----------------------------
(***************************************************************************)
(* The passengers page (components/Passengers.tsx, services/passengers.ts) *)
(* and the accounts it writes: creation under a free phone, patches of     *)
(* phone and profile, and the archiving that makes an account anonymous,   *)
(* by a dispatcher or by the client himself.                               *)
(*                                                                         *)
(* No button of the dialog is disabled while its handler waits, the form   *)
(* is a copy the list never touches again, and the patch does not ask      *)
(* whether the account is still there.                                     *)
(***************************************************************************)
EXTENDS Naturals, Sequences, FiniteSets

CONSTANTS
    NumAccounts, \* accounts, the first of which is a client; the others are not used yet
    Phones,      \* telephone numbers
    FirstPhone,  \* that of the first client
    Freed,       \* the number of an archived account, deleted-<id>
    MaxInputs,   \* bound: what this dispatcher does
    MaxForeign,  \* bound: what other dispatchers and clients do
    MaxPending,  \* bound: list requests in flight
    LeafSize,    \* PASSENGERS_PAGE_SIZE (20)
    Nobody

ASSUME ClientsScreenAssumption ==
    /\ NumAccounts \in Nat \ {0} /\ FirstPhone \in Phones
    /\ Freed \notin Phones /\ Nobody \notin Nat /\ Nobody \notin Phones
    /\ MaxInputs \in Nat /\ MaxForeign \in Nat /\ MaxPending \in Nat \ {0}
    /\ LeafSize \in Nat \ {0}

VARIABLES
    accounts,  \* users with their client profiles
    sought,    \* the search field (a number, or Nobody) and the page chosen
    fetches,   \* list requests in flight, in the order they were sent
    directory, \* the list shown
    count,     \* totalCount
    busy,      \* loading
    modal,     \* the open dialog
    typed,     \* the number in its form
    handlers,  \* handlers awaiting an answer
    foreign,   \* up to MaxForeign
    inputs     \* up to MaxInputs

tableVars == <<sought, fetches, directory, count, busy>>
csVars == <<accounts, tableVars, modal, typed, handlers, foreign, inputs>>

Accounts == 1..NumAccounts
\* BackendClient.
Account == [state: {"unused", "active", "blocked"}, named: BOOLEAN, phone: Phones \cup {Freed, Nobody}]
Unused == [state |-> "unused", named |-> FALSE, phone |-> Nobody]
Archived == [state |-> "blocked", named |-> FALSE, phone |-> Freed]
NoModal == [kind |-> "none", who |-> Nobody]

-----------------------------------------------------------------------------
(* The API                                                                   *)

Taken(p) == \E a \in Accounts : accounts[a].phone = p
Onto(h, stage) == (handlers \ {h}) \cup {[h EXCEPT !.stage = stage]}
Rest == UNCHANGED <<tableVars, modal, typed, foreign, inputs>>

\* create_user first looks whether the number is registered.
CheckPhone ==
    /\ \E h \in handlers :
         /\ h.kind = "create" /\ h.stage = "sent"
         /\ handlers' = IF Taken(h.phone) THEN Onto(h, "refused") ELSE Onto(h, "checked")
    /\ UNCHANGED accounts /\ Rest

\* Mutant: the number is looked up and nothing else forbids a second account.
AddAccountUnconstrained(p) ==
    \E a \in Accounts :
        /\ accounts[a].state = "unused" /\ \A b \in Accounts : accounts[b].state = "unused" => a <= b
        /\ accounts' = [accounts EXCEPT ![a] = [state |-> "active", named |-> TRUE, phone |-> p]]

\* The insert, under the unique constraint of users.phone.
AddAccount(p) ==
    \E a \in Accounts :
        /\ accounts[a].state = "unused" /\ \A b \in Accounts : accounts[b].state = "unused" => a <= b
        /\ ~Taken(p)
        /\ accounts' = [accounts EXCEPT ![a] = [state |-> "active", named |-> TRUE, phone |-> p]]

InsertAccount ==
    /\ \E h \in handlers :
         /\ h.kind = "create" /\ h.stage = "checked"
         /\ \/ AddAccount(h.phone) /\ handlers' = Onto(h, "get")
            \/ Taken(h.phone) /\ UNCHANGED accounts /\ handlers' = Onto(h, "refused")
    /\ Rest

\* createPassenger reads the client it created.
GetCreated ==
    /\ \E h \in handlers : h.stage = "get" /\ handlers' \in {Onto(h, "served"), Onto(h, "refused")}
    /\ UNCHANGED accounts /\ Rest

\* patch_client: the number under the unique constraint, then the profile; the
\* account's status is not asked for.
Patch(h) ==
    IF \E a \in Accounts \ {h.who} : accounts[a].phone = h.phone
    THEN UNCHANGED accounts /\ handlers' = Onto(h, "refused")
    ELSE /\ accounts' = [accounts EXCEPT ![h.who] = [state |-> @.state, named |-> TRUE, phone |-> h.phone]]
         /\ handlers' = Onto(h, "served")

ServePatchClient == (\E h \in handlers : h.kind = "edit" /\ h.stage = "sent" /\ Patch(h)) /\ Rest

\* archive_client: again, nothing asks for the status.
ServeArchive ==
    /\ \E h \in handlers :
         /\ h.kind = "delete" /\ h.stage = "sent"
         /\ accounts' = [accounts EXCEPT ![h.who] = Archived]
         /\ handlers' = Onto(h, "served")
    /\ Rest

\* A client deletes his account, or another dispatcher archives or creates one.
Others ==
    /\ foreign < MaxForeign /\ foreign' = foreign + 1
    /\ \/ \E a \in Accounts :
            accounts[a].state = "active" /\ accounts' = [accounts EXCEPT ![a] = Archived]
       \/ \E p \in Phones : AddAccount(p)
    /\ UNCHANGED <<tableVars, modal, typed, handlers, inputs>>

-----------------------------------------------------------------------------
(* The page                                                                  *)

Entered == inputs < MaxInputs /\ inputs' = inputs + 1

\* list_clients: active accounts only.
Found(q) == {a \in Accounts : accounts[a].state = "active" /\ q \in {Nobody, accounts[a].phone}}

\* adapt and transformApiPassenger.
Entry(a) == accounts[a].phone

\* getPassengersPaginated: the whole list is fetched and a page cut from it.
OnLeaf(q) ==
    LET all == Found(q.number)
        place(a) == Cardinality({b \in all : b <= a})
    IN [count |-> Cardinality(all),
        entries |-> [a \in {a \in all : (place(a) - 1) \div LeafSize = q.leaf - 1} |-> Entry(a)]]

NobodyListed == [a \in {} |-> Nobody]
Fetch(q, by) == [of |-> q, by |-> by, rows |-> Nobody]

CSInit ==
    /\ accounts = [a \in Accounts |->
         IF a = 1 THEN [state |-> "active", named |-> TRUE, phone |-> FirstPhone] ELSE Unused]
    /\ sought = [number |-> Nobody, leaf |-> 1] /\ fetches = <<Fetch(sought, Nobody)>>
    /\ directory = NobodyListed /\ count = 0
    /\ busy = TRUE /\ modal = NoModal /\ typed = Nobody /\ handlers = {}
    /\ foreign = 0 /\ inputs = 0

\* The page is a spinner while it loads and has nothing to show; its dialogs are
\* part of the page.
Blank == busy /\ directory = NobodyListed

\* The search field: the list is loaded with the page chosen before, then the page
\* is set to 1, and loaded again if that changed it.
Search ==
    /\ Entered /\ ~Blank /\ modal = NoModal /\ Len(fetches) + 1 < MaxPending
    /\ \E q \in (Phones \cup {Nobody}) \ {sought.number} :
         /\ sought' = [number |-> q, leaf |-> 1]
         /\ fetches' = Append(fetches, Fetch([sought EXCEPT !.number = q], Nobody))
                         \o IF sought.leaf = 1 THEN <<>> ELSE <<Fetch(sought', Nobody)>>
    /\ busy' = TRUE
    /\ UNCHANGED <<accounts, directory, count, modal, typed, handlers, foreign>>

TurnLeaf ==
    /\ Entered /\ ~Blank /\ modal = NoModal /\ Len(fetches) < MaxPending /\ count > 0
    /\ \/ sought.leaf > 1 /\ sought' = [sought EXCEPT !.leaf = @ - 1]
       \/ sought.leaf * LeafSize < count /\ sought' = [sought EXCEPT !.leaf = @ + 1]
    /\ fetches' = Append(fetches, Fetch(sought', Nobody)) /\ busy' = TRUE
    /\ UNCHANGED <<accounts, directory, count, modal, typed, handlers, foreign>>

ServeFetch ==
    /\ \E i \in DOMAIN fetches :
         fetches[i].rows = Nobody /\ fetches' = [fetches EXCEPT ![i].rows = OnLeaf(fetches[i].of)]
    /\ UNCHANGED <<accounts, sought, directory, count, busy, modal, typed, handlers, foreign, inputs>>

\* The handler that waited for this list: a save closes the form, a deletion its
\* question, whoever they are open for by now.
Closes(by) == CASE by = "delete" -> {"delete"}
                [] by \in {"create", "edit"} -> {"create", "edit"}
                [] OTHER -> {}

FetchEnds(i, rows) ==
    LET by == fetches[i].by
        kind == IF by = Nobody THEN "list" ELSE (CHOOSE h \in handlers : h.n = by).kind
    IN /\ directory' = rows.entries /\ count' = rows.count /\ busy' = FALSE
       /\ fetches' = SubSeq(fetches, 1, i - 1) \o SubSeq(fetches, i + 1, Len(fetches))
       /\ handlers' = {h \in handlers : h.n # by}
       /\ modal' = IF modal.kind \in Closes(kind) THEN NoModal ELSE modal
       /\ UNCHANGED <<accounts, sought, typed, foreign, inputs>>

FetchArrives == \E i \in DOMAIN fetches : fetches[i].rows # Nobody /\ FetchEnds(i, fetches[i].rows)
FetchFails == \E i \in DOMAIN fetches : FetchEnds(i, [count |-> 0, entries |-> NobodyListed])

\* handleAddPassenger.
OpenCreate ==
    /\ Entered /\ ~Blank /\ modal = NoModal
    /\ modal' = [kind |-> "create", who |-> Nobody] /\ typed' = Nobody
    /\ UNCHANGED <<accounts, tableVars, handlers, foreign>>

\* handleEditPassenger: the form takes a copy of the row.
OpenEdit ==
    /\ Entered /\ ~Blank /\ modal = NoModal
    /\ \E a \in DOMAIN directory :
         modal' = [kind |-> "edit", who |-> a] /\ typed' = directory[a]
    /\ UNCHANGED <<accounts, tableVars, handlers, foreign>>

\* The other buttons of a row.
OpenModal ==
    /\ Entered /\ ~Blank /\ modal = NoModal
    /\ \E kind \in {"view", "call", "delete"}, a \in DOMAIN directory :
         modal' = [kind |-> kind, who |-> a]
    /\ UNCHANGED <<accounts, tableVars, typed, handlers, foreign>>

\* The view dialog, a copy of the row, leads to the call.
CallFromView ==
    /\ Entered /\ ~Blank /\ modal.kind = "view" /\ modal' = [modal EXCEPT !.kind = "call"]
    /\ UNCHANGED <<accounts, tableVars, typed, handlers, foreign>>

CloseModal ==
    /\ Entered /\ ~Blank /\ modal # NoModal /\ modal' = NoModal
    /\ UNCHANGED <<accounts, tableVars, typed, handlers, foreign>>

TypeNumber ==
    /\ Entered /\ ~Blank /\ modal.kind \in {"create", "edit"}
    /\ typed' \in Phones \ {typed}
    /\ UNCHANGED <<accounts, tableVars, modal, handlers, foreign>>

SendWrite(phone) ==
    /\ Entered /\ ~Blank
    /\ handlers' = handlers \cup {[n |-> inputs, kind |-> modal.kind, who |-> modal.who,
                                   phone |-> phone, asks |-> sought, stage |-> "sent"]}
    /\ UNCHANGED <<accounts, tableVars, modal, typed, foreign>>

\* handleSavePassenger with a number, as often as it is clicked.
SendForm == modal.kind \in {"create", "edit"} /\ typed \in Phones /\ SendWrite(typed)

\* The button of the deletion, as often as it is clicked.
SendDelete == modal.kind = "delete" /\ SendWrite(Nobody)

\* The write is answered: the list is loaded, with the search of that moment.
SaveAnswered ==
    /\ Len(fetches) < MaxPending
    /\ \E h \in handlers :
         /\ h.stage = "served"
         /\ handlers' = Onto(h, "refresh")
         /\ fetches' = Append(fetches, Fetch(h.asks, h.n))
    /\ busy' = TRUE
    /\ UNCHANGED <<accounts, sought, directory, count, modal, typed, foreign, inputs>>

\* Refused by the server, or lost before or after the commit: an error, and the
\* dialog stays.
SaveFails ==
    /\ \E h \in handlers : h.stage # "refresh" /\ handlers' = handlers \ {h}
    /\ UNCHANGED <<accounts, tableVars, modal, typed, foreign, inputs>>

CSNext ==
    \/ CheckPhone \/ InsertAccount \/ GetCreated \/ ServePatchClient \/ ServeArchive \/ Others
    \/ Search \/ TurnLeaf \/ ServeFetch \/ FetchArrives \/ FetchFails
    \/ OpenCreate \/ OpenEdit \/ OpenModal \/ CallFromView \/ CloseModal \/ TypeNumber
    \/ SendForm \/ SendDelete \/ SaveAnswered \/ SaveFails

CSSpec == CSInit /\ [][CSNext]_csVars

-----------------------------------------------------------------------------
ClientsScreenTypeOK ==
    /\ accounts \in [Accounts -> Account] /\ sought.number \in Phones \cup {Nobody} /\ count \in Nat
    /\ DOMAIN directory \subseteq Accounts /\ busy \in BOOLEAN
    /\ modal.kind \in {"none", "create", "edit", "view", "call", "delete"} /\ modal.who \in Accounts \cup {Nobody}
    /\ typed \in Phones \cup {Nobody} /\ \A h \in handlers : h.n \in 0..MaxInputs

\* However often a save is clicked, lost or repeated, and whoever creates, edits
\* or archives at the same time, no two accounts have one number.
OneAccountPerPhone ==
    \A a, b \in Accounts : a # b /\ accounts[a].phone \in Phones => accounts[a].phone # accounts[b].phone

\* An account that was deleted or archived has neither a name nor a number again.
ArchivedStaysAnonymous ==
    \A a \in Accounts : accounts[a].state = "blocked" => accounts[a] = Archived
=============================================================================
