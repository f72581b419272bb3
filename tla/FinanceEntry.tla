----------------------------- MODULE FinanceEntry -----------------------------
(***************************************************************************)
(* The Telegram form that enters a transaction, beside the web requests of  *)
(* the ledger: one participant's conversation, its draft in Valkey, the     *)
(* isolation lock of the conversation, and the confirmation, which writes   *)
(* to the ledger under the form's identifier.                               *)
(*                                                                          *)
(* An update is handled in steps: the context of the finance use case with  *)
(* its commit; then, under the isolation lock, the event itself; a          *)
(* confirmation goes on, still under the lock, to the rate, the commit and  *)
(* the answer.  The lock times out, processes crash, Valkey forgets.        *)
(* A button carries the form's id and revision.  Only whether these are the *)
(* present ones matters, so an event that was tapped in time is `live`      *)
(* until the draft is written again.                                        *)
(***************************************************************************)
EXTENDS FinanceStatistics

CONSTANTS
    Handlers,   \* updates that are handled at once
    NoHandler,
    DraftTtl    \* ticks a draft stays confirmable

ASSUME EntryAssumption == NoHandler \notin Handlers /\ DraftTtl \in Nat \ {0}

VARIABLES
    linked,     \* the connection is active and its account enabled
    form,       \* the draft of the conversation in Valkey
    lock,       \* who holds the isolation lock
    handler,    \* the updates being handled
    opened,     \* forms opened; also the id of the last one
    events,     \* updates still to come
    faults,     \* faults still to come
    newest,     \* history: what the last confirmation screen of a form showed
    screens,    \* history: <<form, what one of its confirmation screens showed>>
    answers,    \* history: <<form, "saved" or "canceled">>
    mismatched, \* history: forms SAVED on a screen that showed something else
    faulted     \* history: forms whose commit was not followed by a clear in time

entry == <<linked, form, lock, handler, opened, events, faults>>
heard == <<newest, screens, answers, mismatched, faulted>>
allVars == <<vars, entry, heard>>

-----------------------------------------------------------------------------
(* The draft *)

Steps == {"kind", "category", "amount", "currency", "date", "date_input",
          "description", "confirmation"}

NoDraft == [id |-> NoForm, step |-> "kind", month |-> 0, expires |-> 0, offered |-> {},
            kind |-> "expense", cat |-> NoCategory, amount |-> 0, currency |-> "RUB", at |-> 0]

(* The form that /finance opens in a month.                                   *)
NewDraft(id, m, offered) ==
    [NoDraft EXCEPT !.id = id, !.month = m, !.expires = clock + DraftTtl,
                    !.offered = offered]

Basis(draft) == [amount |-> draft.amount, currency |-> draft.currency, at |-> draft.at]

(* FinanceConversation.back                                                   *)
Before(step) ==
    CASE step \in {"kind", "category"} -> "kind"
      [] step = "amount" -> "category"
      [] step = "currency" -> "amount"
      [] step \in {"date", "date_input"} -> "currency"
      [] step = "description" -> "date"
      [] step = "confirmation" -> "description"

(* The choices a screen offers, content, as the drafts each leads to.         *)
Offers(d, open) ==
    CASE d.step = "kind" ->
             {[d EXCEPT !.kind = k, !.step = "category"] : k \in {"income", "expense"}}
      [] d.step = "category" ->
             {[d EXCEPT !.cat = c, !.step = "amount"] :
                 c \in {k \in d.offered \cap open : KindOf(k) = d.kind}}
      [] d.step = "currency" ->
             {[d EXCEPT !.currency = c, !.step = "date"] : c \in scenario.currencies}
      [] d.step = "date" ->
             {[d EXCEPT !.at = clock, !.step = "description"], [d EXCEPT !.step = "date_input"]}
      [] d.step = "description" -> {[d EXCEPT !.step = "confirmation"]}
      [] OTHER -> {}

(* FinanceConversation.input: the drafts a text leads to.                     *)
Inputs(d, z) ==
    CASE d.step = "amount" -> {[d EXCEPT !.amount = a, !.step = "currency"] : a \in scenario.amounts}
      [] d.step = "date_input" ->
             {[d EXCEPT !.at = day, !.step = "description"] :
                 day \in {t \in scenario.days : MonthOf(t, z) = d.month}}
      [] d.step = "description" -> {[d EXCEPT !.step = "confirmation"]}
      [] OTHER -> {}

-----------------------------------------------------------------------------
(* Handling an update *)

Free == [phase |-> "free"]

Becomes(h, state) == handler' = [handler EXCEPT ![h] = state]

(* Any update of the conversation: /finance, a text, or a tap on a button     *)
(* that was shown once; a confirmation is of one of the screens that asked    *)
(* for it, and is `seen` to stand under what that screen showed.              *)
Updates ==
    [kind : {"entry", "text"}]
      \cup [kind : {"button"}, action : {"choose", "back", "cancel"},
            id : 1..opened, live : BOOLEAN]
      \cup {[kind |-> "button", action |-> "confirm", id |-> screen[1], seen |-> screen[2],
             live |-> live] : screen \in screens, live \in BOOLEAN}

(* show: the buttons of the present screen, which are the ones that are live. *)
(* Every screen has Cancel, and Back from the second one on.                  *)
Shown(e) ==
    (e.kind = "button" /\ e.live) =>
        /\ e.id = form.id
        /\ e.action = "choose" =>
               form.step \in {"kind", "category", "currency", "date", "description"}
        /\ e.action = "back" => form.step # "kind"
        /\ e.action = "confirm" => form.step = "confirmation" /\ e.seen = Basis(form)

(* resolve, or resolve_active_connection, with which every request begins.    *)
Allowed == linked

(* telegram_context with its commit: it synchronizes the zone and creates the *)
(* current month; the handler keeps the month as it is now.                   *)
Receive(h) ==
    /\ handler[h] = Free
    /\ events > 0 /\ events' = events - 1
    /\ Allowed /\ DOMAIN months # {}
    /\ \E account \in scenario.zones : Open(account)
    /\ LET m == MonthOf(clock, zone')
           lines == months'[m].lines
       IN  \E e \in {u \in Updates : Shown(u)} :
              Becomes(h, [phase |-> "context", event |-> e, month |-> m, zone |-> zone',
                          offered |-> DOMAIN lines,
                          open |-> {c \in DOMAIN lines : lines[c].accepting}])
    /\ UNCHANGED <<bounds, clock, stable, transactions, revisions, rateSets, request, warnings>>
    /\ UNCHANGED <<linked, form, lock, opened, faults>> /\ UNCHANGED heard

(* The lock of the conversation is free and the handler does its work.        *)
Holding(h) == handler[h].phase = "context" /\ lock = NoHandler

Operation(id) == {i \in DOMAIN transactions : transactions[i].form = id}

(* confirmed_telegram_operation on a tap of "confirm"                         *)
Replays(h) ==
    LET e == handler[h].event
    IN  e.kind = "button" /\ e.action = "confirm" /\ Operation(e.id) # {}

CurrentDraft(h) ==
    /\ handler[h].month = MonthOf(clock, handler[h].zone)
    /\ form.id # NoForm /\ form.month = handler[h].month /\ form.expires > clock

(* A draft is written and its screen shown: every button before it is stale.  *)
Write(h, draft) ==
    /\ form' = draft
    /\ handler' = [k \in Handlers |->
           IF k = h THEN Free
           ELSE IF handler[k].phase = "context" /\ handler[k].event.kind = "button"
           THEN [handler[k] EXCEPT !.event.live = FALSE] ELSE handler[k]]
    /\ newest' = IF draft.step = "confirmation"
                 THEN [f \in DOMAIN newest \cup {draft.id} |->
                          IF f = draft.id THEN Basis(draft) ELSE newest[f]]
                 ELSE newest
    /\ screens' = IF draft.step = "confirmation"
                  THEN screens \cup {<<draft.id, Basis(draft)>>} ELSE screens
    /\ UNCHANGED <<answers, mismatched, faulted>>

(* state.clear(), with an answer about the form or none that matters here     *)
Clear(h, said) ==
    /\ form' = NoDraft
    /\ Becomes(h, Free)
    /\ answers' = answers \cup said
    /\ UNCHANGED <<newest, screens, mismatched, faulted>>

(* The first state of a transaction, before edits on the web.                 *)
Original(i) == IF revisions[i] = <<>> THEN transactions[i] ELSE revisions[i][1]

(* SAVED, on the screen that has been `seen`.                                 *)
SaysSaved(id, seen, cleared) ==
    /\ form' = IF cleared THEN NoDraft ELSE form
    /\ answers' = answers \cup {<<id, "saved">>}
    /\ mismatched' = IF \E i \in Operation(id) : Basis(Original(i)) = seen
                     THEN mismatched ELSE mismatched \cup {id}
    /\ UNCHANGED <<newest, screens, faulted>>

Steady == UNCHANGED <<vars, linked, opened, events, faults>>

Replay(h) ==
    /\ Holding(h) /\ Replays(h) /\ Allowed
    /\ LET id == handler[h].event.id
       IN  SaysSaved(id, newest[id], form.id = id)
    /\ Becomes(h, Free)
    /\ UNCHANGED lock /\ Steady

(* /finance without a draft that is still current opens a new form.           *)
OpenForm(h) ==
    /\ Holding(h) /\ handler[h].event.kind = "entry"
    /\ ~CurrentDraft(h) /\ handler[h].month = MonthOf(clock, handler[h].zone)
    /\ opened < scenario.forms /\ opened' = opened + 1
    /\ Write(h, NewDraft(opened', handler[h].month, handler[h].offered))
    /\ UNCHANGED <<vars, linked, lock, events, faults>>

(* Anything else without a current draft is told that the form is stale.      *)
Outdated(h) ==
    /\ Holding(h) /\ ~Replays(h) /\ ~CurrentDraft(h)
    /\ handler[h].event.kind = "entry" => handler[h].month # MonthOf(clock, handler[h].zone)
    /\ Clear(h, {})
    /\ UNCHANGED lock /\ Steady

(* Mutant: a button of an earlier screen of the form is taken. *)
MutMatches(h) == handler[h].event.id = form.id

(* callback_event: the id and the revision of the button are the present ones *)
Matches(h) == handler[h].event.live

Pressed(h, action) ==
    /\ Holding(h) /\ ~Replays(h) /\ CurrentDraft(h)
    /\ handler[h].event.kind = "button" /\ handler[h].event.action = action
    /\ Matches(h)

(* The category of the draft is looked at again before anything is shown.     *)
Selectable(h, d) == d.cat = NoCategory \/ d.cat \in handler[h].open

Step(h, drafts) ==
    /\ \E d \in drafts :
         IF Selectable(h, d) THEN Write(h, d) ELSE Clear(h, {})
    /\ UNCHANGED lock /\ Steady

(* callback *)
Press(h) == Pressed(h, "choose") /\ Step(h, Offers(form, handler[h].open))

Back(h) == Pressed(h, "back") /\ Step(h, {[form EXCEPT !.step = Before(form.step)]})

Type(h) ==
    /\ Holding(h) /\ CurrentDraft(h) /\ handler[h].event.kind = "text"
    /\ Step(h, Inputs(form, handler[h].zone))

(* /finance with a current draft shows it again.                              *)
ShowAgain(h) ==
    /\ Holding(h) /\ CurrentDraft(h) /\ handler[h].event.kind = "entry"
    /\ Step(h, {form})

(* A category of the list has been archived or deleted since it was shown.    *)
ChooseGone(h) ==
    /\ Pressed(h, "choose") /\ form.step = "category"
    /\ \E c \in form.offered : c \notin handler[h].open /\ KindOf(c) = form.kind
    /\ Clear(h, {})
    /\ UNCHANGED lock /\ Steady

Cancel(h) ==
    /\ Pressed(h, "cancel")
    /\ Clear(h, {<<form.id, "canceled">>})
    /\ UNCHANGED lock /\ Steady

(* An old button, or an input the step does not take: nothing changes.        *)
Ignore(h) ==
    LET e == handler[h].event
    IN  /\ Holding(h) /\ ~Replays(h) /\ CurrentDraft(h)
        /\ \/ e.kind = "button" /\ ~Matches(h)
           \/ e.kind = "button" /\ e.action = "choose" /\ Offers(form, handler[h].open) = {}
           \/ e.kind = "text"
        /\ Becomes(h, Free)
        /\ UNCHANGED <<form, lock>> /\ UNCHANGED heard /\ Steady

(* /cancel, of the navigation, which does not ask for the finance context.    *)
CancelCommand ==
    /\ Allowed /\ lock = NoHandler /\ form.id # NoForm
    /\ events > 0 /\ events' = events - 1
    /\ form' = NoDraft
    /\ answers' = answers \cup {<<form.id, "canceled">>}
    /\ UNCHANGED <<vars, linked, lock, handler, opened, faults, newest, screens, mismatched, faulted>>

-----------------------------------------------------------------------------
(* Confirmation *)

Confirmable(h) == Pressed(h, "confirm") /\ form.step = "confirmation"

(* create_transaction before the owner's lock, for a Telegram actor; nothing  *)
(* is known of the operation yet, or the tap would have been a replay.        *)
Checked(d) ==
    /\ CurrentMonth \in DOMAIN months
    /\ d.month = CurrentMonth
    /\ Enterable(d, CurrentMonth)

StartConfirm(h) ==
    /\ Confirmable(h) /\ Allowed
    /\ Checked(form)
    /\ \E rate \in Priced(form.at + zone) :
         Becomes(h, [phase |-> "pricing", draft |-> form, seen |-> handler[h].event.seen,
                     rate |-> rate])
    /\ lock' = h
    /\ UNCHANGED form /\ UNCHANGED heard /\ Steady

(* FinanceConflictError or FinanceNotFoundError: the form is stale.  (A draft *)
(* whose date is INVALID for the month stays: Abandon.)                       *)
Outside(d) == MonthOf(d.at, zone) # CurrentMonth

ConfirmStale(h) ==
    /\ Confirmable(h) /\ Allowed /\ ~Checked(form)
    /\ CurrentMonth \notin DOMAIN months \/ ~Outside(form)
    /\ Clear(h, {})
    /\ UNCHANGED lock /\ Steady

(* Mutant: a handler ends without giving the isolation lock back. *)
MutRelease(h) == UNCHANGED lock

Release(h) == lock' = IF lock = h THEN NoHandler ELSE lock

(* Mutant: the operation is not looked up again under the lock of the month. *)
MutExisting(h) == {}

(* The same checks under the lock, with a `now` that has moved on.            *)
Existing(h) == Operation(handler[h].draft.id)

CommitConfirm(h) ==
    LET d == handler[h].draft
    IN  /\ handler[h].phase = "pricing"
        /\ Allowed
        /\ Existing(h) = {}
        /\ Checked(d)
        /\ Record(d, d.month, handler[h].rate, clock, d.id)
        /\ Becomes(h, [phase |-> "saved", draft |-> d, seen |-> handler[h].seen])
        /\ UNCHANGED <<bounds, clock, zone, moved, request>>
        /\ UNCHANGED <<linked, form, lock, opened, events, faults>> /\ UNCHANGED heard

(* Another handler of the form was faster: its transaction is returned.       *)
FoundConfirmed(h) ==
    /\ handler[h].phase = "pricing" /\ Allowed /\ Existing(h) # {}
    /\ Becomes(h, [phase |-> "saved", draft |-> handler[h].draft, seen |-> handler[h].seen])
    /\ UNCHANGED <<form, lock>> /\ UNCHANGED heard /\ Steady

(* The month or the category no longer fits: rollback and STALE.              *)
LostConfirm(h) ==
    /\ handler[h].phase = "pricing" /\ Allowed /\ Existing(h) = {}
    /\ ~Checked(handler[h].draft)
    /\ handler[h].draft.month # CurrentMonth \/ ~Outside(handler[h].draft)
    /\ Clear(h, {}) /\ Release(h) /\ Steady

(* The form is cleared and SAVED is answered.                                 *)
FinishConfirm(h) ==
    /\ handler[h].phase = "saved"
    /\ SaysSaved(handler[h].draft.id, handler[h].seen, TRUE)
    /\ Becomes(h, Free) /\ Release(h) /\ Steady

(* No access, no rate, a draft that is INVALID, a failing database or         *)
(* answer: the transaction is rolled back and the draft stays as it is.       *)
Abandon(h) ==
    /\ handler[h].phase \in {"context", "pricing"}
    /\ Becomes(h, Free) /\ Release(h)
    /\ UNCHANGED form /\ UNCHANGED heard /\ Steady

-----------------------------------------------------------------------------
(* Faults *)

Fault == faults > 0 /\ faults' = faults - 1

(* The process ends after the commit, or Valkey refuses the clear: the draft  *)
(* is still there; the lock times out.                                        *)
Crash(h) ==
    /\ Fault
    /\ handler[h].phase = "saved"
    /\ faulted' = faulted \cup {handler[h].draft.id}
    /\ Becomes(h, Free) /\ Release(h)
    /\ UNCHANGED <<vars, linked, form, opened, events, newest, screens, answers, mismatched>>

(* The isolation lock times out while its handler waits.                      *)
LockExpires ==
    /\ Fault
    /\ lock # NoHandler
    /\ faulted' = faulted \cup {handler[lock].draft.id}
    /\ lock' = NoHandler
    /\ UNCHANGED <<vars, linked, form, handler, opened, events, newest, screens, answers, mismatched>>

(* Valkey loses the draft, by its time to live or otherwise.                  *)
Forget ==
    /\ Fault
    /\ form # NoDraft /\ form' = NoDraft
    /\ UNCHANGED <<vars, linked, lock, handler, opened, events>> /\ UNCHANGED heard

Revoke ==
    /\ Fault
    /\ linked /\ linked' = FALSE
    /\ UNCHANGED <<vars, form, lock, handler, opened, events>> /\ UNCHANGED heard

(* Of a tracker that exists at the beginning the form may have been filled,   *)
(* shown for confirmation, and gone back to an earlier step.                  *)
FilledDraft(c, amount, currency, day) ==
    [NewDraft(1, CurrentMonth, Template) EXCEPT
        !.step = scenario.step, !.cat = c, !.amount = amount, !.currency = currency,
        !.at = day]

EntryInit ==
    /\ Init
    /\ \/ form = NoDraft /\ opened = 0 /\ newest = [f \in {} |-> 0] /\ screens = {}
       \/ /\ scenario.started /\ scenario.forms > 0 /\ opened = 1
          /\ \E c \in Template \ Income, amount \in scenario.amounts,
                currency \in scenario.currencies, day \in scenario.days :
                 /\ MonthOf(day, zone) = CurrentMonth
                 /\ form = FilledDraft(c, amount, currency, day)
          /\ newest = [f \in {1} |-> Basis(form)]
          /\ screens = {<<1, Basis(form)>>}
    /\ linked = TRUE /\ lock = NoHandler
    /\ handler = [h \in Handlers |-> Free]
    /\ events = scenario.events /\ faults = scenario.faults
    /\ answers = {} /\ mismatched = {} /\ faulted = {}

Handled(h) ==
    \/ Receive(h) \/ Replay(h) \/ OpenForm(h) \/ Outdated(h) \/ Press(h) \/ Back(h)
    \/ Type(h) \/ ShowAgain(h) \/ ChooseGone(h) \/ Cancel(h) \/ Ignore(h)
    \/ StartConfirm(h) \/ ConfirmStale(h) \/ CommitConfirm(h) \/ FoundConfirmed(h)
    \/ LostConfirm(h) \/ FinishConfirm(h) \/ Abandon(h) \/ Crash(h)

EntryNext ==
    \/ LedgerNext /\ UNCHANGED entry /\ UNCHANGED heard
    \/ CancelCommand \/ LockExpires \/ Forget \/ Revoke
    \/ \E h \in Handlers : Handled(h)

EntrySpec == EntryInit /\ [][EntryNext]_allVars

-----------------------------------------------------------------------------
(* Properties *)

Rates == [on : Int, usd : RateValues]

MonthType(month) ==
    /\ month.currency \in Currencies /\ month.opening \in Int
    /\ Cardinality(month.transferred) <= 1
    /\ \A c \in DOMAIN month.lines :
          /\ c \in Categories
          /\ month.lines[c] \in [plan : Int, accepting : BOOLEAN]
          /\ month.lines[c].plan >= NoPlan

Rows ==
    [month : DOMAIN months, cat : Categories \cup {NoCategory}, kind : {"income", "expense"},
     amount : Amounts, currency : Currencies, rub : Nat, rate : Rates, at : Int,
     form : 0..opened, version : Nat \ {0}, deleted : BOOLEAN, createdAt : 0..clock]

DraftsOf ==
    [id : 0..opened, step : Steps, month : Int, expires : Nat, offered : SUBSET Categories,
     kind : {"income", "expense"}, cat : Categories \cup {NoCategory}, amount : Amounts \cup {0},
     currency : Currencies, at : Int]

(* Every variable holds what the code's tables and records can hold; events   *)
(* name transactions, a revision chain ends one version before its row, and   *)
(* the isolation lock is held only by a confirmation in progress.             *)
TypeOK ==
    /\ scenario \in Scenarios /\ left \in 0..scenario.requests
    /\ clock \in Nat /\ zone \in Int /\ moved \in BOOLEAN
    /\ \A m \in DOMAIN months : m \in Int /\ MonthType(months[m])
    /\ stable \in [Categories -> {"absent", "active", "archived", "deleted"}]
    /\ DOMAIN transactions = 1..Cardinality(DOMAIN transactions)
    /\ DOMAIN revisions = DOMAIN transactions
    /\ \A i \in DOMAIN transactions :
          /\ transactions[i] \in Rows /\ revisions[i] \in Seq(Rows)
          /\ Len(revisions[i]) + 1 = transactions[i].version
    /\ rateSets \in Seq(Rates)
    /\ \A w \in Requests : request[w].op \in Operations \cup {"idle", "page"}
    /\ outbox \subseteq [month : DOMAIN months, scope : Categories \cup {WholeMonth},
                         tx : DOMAIN transactions, version : Nat, createdAt : 0..clock]
    /\ told \cup excused \subseteq (DOMAIN months) \X (Categories \cup {WholeMonth})
    /\ linked \in BOOLEAN /\ form \in DraftsOf
    /\ \A h \in Handlers : handler[h].phase \in {"free", "context", "pricing", "saved"}
    /\ lock = NoHandler \/ handler[lock].phase \in {"pricing", "saved"}
    /\ opened \in 0..scenario.forms /\ events \in 0..scenario.events
    /\ faults \in 0..scenario.faults
    /\ DOMAIN newest \subseteq 1..opened
    /\ screens \subseteq (1..opened) \X [amount : Amounts \cup {0}, currency : Currencies, at : Int]
    /\ answers \subseteq (1..opened) \X {"saved", "canceled"}
    /\ mismatched \cup faulted \subseteq 1..opened

(* A form is confirmed into at most one transaction, whatever is tapped,      *)
(* repeated, lost or restarted; and a confirmation only ever writes to the    *)
(* month that is current when it commits, in a category that takes            *)
(* transactions, for a participant who still has access.                      *)
EntryOnce ==
    /\ [](\A i, j \in DOMAIN transactions :
             (transactions[i].form # NoForm /\ transactions[i].form = transactions[j].form)
             => i = j)
    /\ [][\A i \in DOMAIN transactions' \ DOMAIN transactions :
             LET t == transactions'[i]
             IN  t.form # NoForm =>
                     /\ linked /\ t.month = CurrentMonth
                     /\ months[t.month].lines[t.cat].accepting]_allVars

(* What the participant was told is true, whichever buttons of which screens  *)
(* are tapped while the form goes back and on.  SAVED: the transaction        *)
(* exists, and it is what the screen showed whose Confirm was tapped (of a    *)
(* tap that finds it saved already: what the form's last screen showed).      *)
(* CANCELED: there is none, now or later.  Only a form that was not cleared   *)
(* in time after its commit may have been answered otherwise.                 *)
FormOutcomes ==
    \A f \in 1..opened :
        /\ <<f, "saved">> \in answers => Operation(f) # {}
        /\ f \notin faulted =>
              /\ f \notin mismatched
              /\ ~(<<f, "canceled">> \in answers /\ Operation(f) # {})
=============================================================================
