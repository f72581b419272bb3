---------------------------- MODULE MCFinanceEntry ----------------------------
(* Small instances of the ledger with its Telegram form, each of which lets   *)
(* one group of operations meet.                                              *)
EXTENDS FinanceEntry

Base == [operations |-> {}, requests |-> 0, start |-> 2, time |-> 2, started |-> TRUE,
         days |-> {2}, amounts |-> {2}, currencies |-> {"RUB"}, zones |-> {0},
         rates |-> {2}, refresh |-> FALSE, forms |-> 0, step |-> "confirmation", events |-> 0,
         faults |-> 0]

(* Editors of the same transactions, with two amounts to tell edits apart, and*)
(* with one to follow a row further: edited, deleted and restored.            *)
Edits == [Base EXCEPT !.operations = {"create", "edit", "delete"}, !.requests = 3,
                      !.amounts = {1, 2}]

Deletions == [Edits EXCEPT !.requests = 4, !.amounts = {2}]

(* A new tracker over midnight of the last day, and zones back and forth.     *)
Late == [Base EXCEPT !.operations = {"create", "edit"}, !.requests = 2, !.start = 1,
                     !.started = FALSE, !.days = {1, 2}, !.zones = {0, -1}]

(* The budget of a month that ends.                                           *)
Budget == [Base EXCEPT !.operations = {"create", "opening", "plan", "category"},
                       !.requests = 2, !.start = 1, !.days = {1}, !.refresh = TRUE]

(* Categories that come and go while their limits are passed.                 *)
Limits == [Base EXCEPT !.operations = {"create", "plan", "archive", "restore", "remove"},
                       !.requests = 4, !.amounts = {1}]

(* Rates that differ by the hour, on a holiday, and a change of currency.     *)
Conversion == [Base EXCEPT !.operations = {"create", "edit", "currency"}, !.requests = 3,
                           !.days = {3}, !.currencies = {"RUB", "USD"}, !.rates = {1, 2}]

(* A whole form, from /finance to SAVED.                                      *)
Form == [Base EXCEPT !.started = FALSE, !.currencies = {"RUB", "USD"}, !.forms = 1,
                     !.events = 8]

(* A filled form that is confirmed while its category is archived, its draft  *)
(* expires, a process ends, access is withdrawn; one that is filled up to its *)
(* category while that is archived; and one that is confirmed again and again.*)
Confirmation == [Base EXCEPT !.operations = {"archive"}, !.requests = 1, !.time = 3,
                             !.days = {3}, !.forms = 1, !.events = 2, !.faults = 1]

Archived == [Base EXCEPT !.operations = {"archive"}, !.requests = 1, !.days = {3}, !.forms = 1,
                         !.events = 3]

Repeated == [Base EXCEPT !.time = 3, !.days = {3}, !.forms = 1, !.events = 3, !.faults = 1]

(* A filled form that went back to its date, is filled otherwise and shown    *)
(* for confirmation again, while buttons of the earlier screen are tapped.    *)
Changed == [Base EXCEPT !.days = {2, 3}, !.forms = 1, !.step = "date", !.events = 4]

(* A filled form over the end of its month.                                   *)
Midnight == [Base EXCEPT !.start = 3, !.time = 4, !.days = {3}, !.forms = 1, !.events = 4]

(* A filled form in a month that has been left and is come back to.           *)
Returned == [Base EXCEPT !.start = 1, !.time = 1, !.days = {1}, !.zones = {0, 1}, !.forms = 1,
                         !.events = 2]

MCScenarios ==
    {Edits, Deletions, Late, Budget, Limits, Conversion, Form, Confirmation, Archived, Repeated,
     Changed, Midnight, Returned}
=============================================================================
