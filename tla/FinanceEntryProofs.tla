-------------------------- MODULE FinanceEntryProofs --------------------------
(***************************************************************************)
(* Theorems about FinanceEntry for every value of its constants: edits are  *)
(* serial, rows stay priced by a rate set on record, one form books once,   *)
(* and what the participant is told of a form is true.                      *)
(*                                                                          *)
(* Nothing here depends on what is in a month: FinanceLedgerProofs looks    *)
(* into the months, their sums and the warnings about them.                 *)
(***************************************************************************)
EXTENDS FinanceEntry, TLAPS, FiniteSetTheorems

-----------------------------------------------------------------------------
(* Rows of the ledger *)

(* A record with the columns of finance_transaction, and no other.            *)
RowsOver(S) ==
    [month : S, cat : S, kind : S, amount : S, currency : S, rub : S, rate : S, at : S,
     form : S, version : S, deleted : S, createdAt : S]

IsRow(t) == \E S : t \in RowsOver(S)

(* A row equals the one that was seen, except that its category may be gone.  *)
Reflects(t, seen) ==
    /\ t.month = seen.month /\ t.kind = seen.kind /\ t.amount = seen.amount
    /\ t.currency = seen.currency /\ t.rub = seen.rub /\ t.rate = seen.rate
    /\ t.at = seen.at /\ t.form = seen.form /\ t.version = seen.version
    /\ t.deleted = seen.deleted /\ t.createdAt = seen.createdAt
    /\ t.cat \in {seen.cat, NoCategory}

IsSequence(s) == \E S : s \in Seq(S)

LEMMA AppendSequence ==
    ASSUME NEW s, NEW e, IsSequence(s)
    PROVE  /\ IsSequence(Append(s, e)) /\ Append(s, e) # <<>>
           /\ Len(s) \in Nat /\ DOMAIN s = 1..Len(s)
           /\ Len(Append(s, e)) = Len(s) + 1 /\ DOMAIN Append(s, e) = 1..(Len(s) + 1)
           /\ Append(s, e)[Len(s) + 1] = e
           /\ \A k \in 1..Len(s) : Append(s, e)[k] = s[k]
<1>1. PICK S : s \in Seq(S)
  BY DEF IsSequence
<1>2. s \in Seq(S \cup {e}) /\ e \in S \cup {e}
  BY <1>1
<1>3. Append(s, e) \in Seq(S \cup {e})
  BY <1>2
<1>4. /\ Len(s) \in Nat /\ DOMAIN s = 1..Len(s)
      /\ Len(Append(s, e)) = Len(s) + 1
  BY <1>2
<1>5. DOMAIN Append(s, e) = 1..(Len(s) + 1)
  BY <1>3, <1>4
<1>6. /\ Append(s, e)[Len(s) + 1] = e
      /\ \A k \in 1..Len(s) : Append(s, e)[k] = s[k]
  BY <1>2, <1>4
<1>7. Append(s, e) # <<>>
  BY <1>4, <1>5
<1>8. QED
  BY <1>3, <1>4, <1>5, <1>6, <1>7 DEF IsSequence

LEMMA RowWithCategory ==
    ASSUME NEW t, NEW c, IsRow(t)
    PROVE  LET new == [t EXCEPT !.cat = c]
           IN  /\ IsRow(new) /\ new.cat = c
               /\ new.month = t.month /\ new.kind = t.kind /\ new.amount = t.amount
               /\ new.currency = t.currency /\ new.rub = t.rub /\ new.rate = t.rate
               /\ new.at = t.at /\ new.form = t.form /\ new.version = t.version
               /\ new.deleted = t.deleted /\ new.createdAt = t.createdAt
<1>1. PICK S : t \in RowsOver(S)
  BY DEF IsRow
<1>2. t \in RowsOver(S \cup {c})
  BY <1>1 DEF RowsOver
<1> DEFINE new == [t EXCEPT !.cat = c]
<1>3. new \in RowsOver(S \cup {c})
  BY <1>2 DEF RowsOver
<1>4. /\ new.cat = c
      /\ new.month = t.month /\ new.kind = t.kind /\ new.amount = t.amount
      /\ new.currency = t.currency /\ new.rub = t.rub /\ new.rate = t.rate
      /\ new.at = t.at /\ new.form = t.form /\ new.version = t.version
      /\ new.deleted = t.deleted /\ new.createdAt = t.createdAt
  BY <1>2 DEF RowsOver
<1>5. IsRow(new)
  <2> HIDE DEF new
  <2>1. QED
    BY <1>3 DEF IsRow
<1>6. QED
  BY <1>4, <1>5

Columns(t) ==
    [month |-> t.month, cat |-> t.cat, kind |-> t.kind, amount |-> t.amount,
     currency |-> t.currency, rub |-> t.rub, rate |-> t.rate, at |-> t.at,
     form |-> t.form, version |-> t.version, deleted |-> t.deleted,
     createdAt |-> t.createdAt]

LEMMA RowIsColumns ==
    ASSUME NEW t, IsRow(t) PROVE t = Columns(t)
<1>1. PICK S : t \in RowsOver(S)
  BY DEF IsRow
<1>2. \A r \in RowsOver(S) : r = Columns(r)
  BY DEF RowsOver, Columns
<1>3. QED
  BY <1>1, <1>2

LEMMA ReflectedRow ==
    ASSUME NEW t, NEW seen, IsRow(t), IsRow(seen), Reflects(t, seen)
    PROVE  [t EXCEPT !.cat = seen.cat] = seen
<1> DEFINE new == [t EXCEPT !.cat = seen.cat]
<1>1. /\ IsRow(new) /\ new.cat = seen.cat
      /\ new.month = seen.month /\ new.kind = seen.kind /\ new.amount = seen.amount
      /\ new.currency = seen.currency /\ new.rub = seen.rub /\ new.rate = seen.rate
      /\ new.at = seen.at /\ new.form = seen.form /\ new.version = seen.version
      /\ new.deleted = seen.deleted /\ new.createdAt = seen.createdAt
  BY RowWithCategory DEF Reflects
<1> HIDE DEF new
<1>2. Columns(new) = Columns(seen)
  BY <1>1 DEF Columns
<1>3. new = seen
  BY <1>1, <1>2, RowIsColumns
<1>4. QED
  BY <1>3 DEF new

LEMMA EnteredRow ==
    ASSUME NEW d, NEW m, NEW rate, NEW now, NEW f
    PROVE  LET new == Entered(d, m, rate, now, f)
           IN  /\ IsRow(new)
               /\ new.version = 1 /\ new.form = f /\ new.month = m /\ new.cat = d.cat
               /\ Basis(new) = Basis(d)
               /\ new.amount = d.amount /\ new.currency = d.currency
               /\ new.rate = rate /\ new.rub = d.amount * RubPerUnit(rate, d.currency)
<1> DEFINE kind == KindOf(d.cat)
           rub == d.amount * RubPerUnit(rate, d.currency)
           S == {m, d.cat, kind, d.amount, d.currency, rub, rate, d.at, f, 1, FALSE, now}
           new == [month |-> m, cat |-> d.cat, kind |-> kind, amount |-> d.amount,
                   currency |-> d.currency, rub |-> rub, rate |-> rate, at |-> d.at,
                   form |-> f, version |-> 1, deleted |-> FALSE, createdAt |-> now]
<1>1. Entered(d, m, rate, now, f) = new
  BY DEF Entered, Rub
<1>2. new \in RowsOver(S)
  <2> HIDE DEF kind, rub
  <2>1. QED
    BY DEF RowsOver
<1>3. IsRow(new)
  <2> HIDE DEF new, S
  <2>1. QED
    BY <1>2 DEF IsRow
<1>4. /\ new.version = 1 /\ new.form = f /\ new.month = m /\ new.cat = d.cat
      /\ Basis(new) = Basis(d)
      /\ new.amount = d.amount /\ new.currency = d.currency
      /\ new.rate = rate /\ new.rub = rub
  <2> HIDE DEF kind, rub
  <2>1. QED
    BY DEF Basis
<1>5. QED
  BY <1>1, <1>3, <1>4

(* What an edit does to the columns of a row.                                 *)
LEMMA RevisedRow ==
    ASSUME NEW t, NEW d, NEW rates, IsRow(t)
    PROVE  LET new == Revised(t, d, rates)
           IN  /\ IsRow(new)
               /\ new.version = t.version + 1 /\ new.form = t.form /\ new.month = t.month
               /\ new.amount = d.amount /\ new.currency = d.currency
               /\ new.cat = d.cat /\ new.kind = KindOf(d.cat) /\ new.at = d.at
               /\ new.deleted = t.deleted /\ new.createdAt = t.createdAt
               /\ rates = {} => new.rate = t.rate /\ new.rub = t.rub
               /\ rates # {} =>
                      /\ new.rate = CHOOSE r \in rates : TRUE
                      /\ new.rub = d.amount * RubPerUnit(new.rate, d.currency)
<1> DEFINE version == t.version + 1
           kind == KindOf(d.cat)
           rate == IF rates = {} THEN t.rate ELSE CHOOSE r \in rates : TRUE
           rub == IF rates = {} THEN t.rub ELSE Rub(d, rate)
           new == [t EXCEPT !.cat = d.cat, !.kind = kind, !.amount = d.amount,
                            !.currency = d.currency, !.rub = rub, !.rate = rate,
                            !.at = d.at, !.version = version]
<1>1. Revised(t, d, rates) = new
  BY DEF Revised
<1>2. PICK S : t \in RowsOver(S)
  BY DEF IsRow
<1> DEFINE T == S \cup {d.cat, kind, d.amount, d.currency, rub, rate, d.at, version}
<1>3. /\ new \in RowsOver(T)
      /\ new.version = version /\ new.form = t.form /\ new.month = t.month
      /\ new.amount = d.amount /\ new.currency = d.currency
      /\ new.cat = d.cat /\ new.kind = kind /\ new.at = d.at
      /\ new.deleted = t.deleted /\ new.createdAt = t.createdAt
      /\ new.rate = rate /\ new.rub = rub
  <2> HIDE DEF version, kind, rate, rub
  <2>1. t \in RowsOver(T)
    BY <1>2 DEF RowsOver
  <2>2. QED
    BY ZenonT(60), <2>1 DEF RowsOver
<1>4. IsRow(new)
  <2> HIDE DEF T, new
  <2>1. QED
    BY <1>3 DEF IsRow
<1>5. QED
  <2> HIDE DEF new
  <2>1. QED
    BY <1>1, <1>3, <1>4 DEF Rub

WithDeletion(t, deleted, version) == [t EXCEPT !.deleted = deleted, !.version = version]

LEMMA DeletedRow ==
    ASSUME NEW t, NEW deleted, NEW version, IsRow(t)
    PROVE  LET new == WithDeletion(t, deleted, version)
           IN  /\ IsRow(new)
               /\ new.version = version /\ new.form = t.form /\ new.month = t.month
               /\ new.amount = t.amount /\ new.currency = t.currency
               /\ new.rate = t.rate /\ new.rub = t.rub
               /\ new.cat = t.cat /\ new.kind = t.kind /\ new.at = t.at
               /\ new.deleted = deleted /\ new.createdAt = t.createdAt
<1>1. PICK S : t \in RowsOver(S)
  BY DEF IsRow
<1>2. t \in RowsOver(S \cup {deleted, version})
  BY <1>1 DEF RowsOver
<1> DEFINE new == WithDeletion(t, deleted, version)
<1>3. new \in RowsOver(S \cup {deleted, version})
  BY ZenonT(60), <1>2 DEF RowsOver, WithDeletion
<1>4. /\ new.version = version /\ new.form = t.form /\ new.month = t.month
      /\ new.amount = t.amount /\ new.currency = t.currency
      /\ new.rate = t.rate /\ new.rub = t.rub
      /\ new.cat = t.cat /\ new.kind = t.kind /\ new.at = t.at
      /\ new.deleted = deleted /\ new.createdAt = t.createdAt
  BY <1>2 DEF RowsOver, WithDeletion
<1>5. IsRow(new)
  <2> HIDE DEF new
  <2>1. QED
    BY <1>3 DEF IsRow
<1>6. QED
  BY <1>4, <1>5

-----------------------------------------------------------------------------
(* What a step does to the tables T of rows and V of revisions *)

Numbered(T, V) == \E n \in Nat : DOMAIN T = 1..n /\ DOMAIN V = 1..n

WellFormed(T, V) ==
    \A i \in DOMAIN T : IsRow(T[i]) /\ T[i].version \in Nat /\ IsSequence(V[i])

FirstOf(T, V, i) == IF V[i] = <<>> THEN T[i] ELSE V[i][1]

(* Rows stay, with their form and their first state; a row whose version is   *)
(* the same still reflects what it was.                                       *)
Follows(T, V, U, W) ==
    \A i \in DOMAIN T :
        /\ i \in DOMAIN U /\ U[i].form = T[i].form
        /\ T[i].version < U[i].version \/ Reflects(U[i], T[i])
        /\ Basis(FirstOf(U, W, i)) = Basis(FirstOf(T, V, i))

Succeeds(T, V, U, W) == Numbered(U, W) /\ WellFormed(U, W) /\ Follows(T, V, U, W)

Added(T, V, U, W, row) ==
    LET n == Cardinality(DOMAIN T) + 1
    IN  /\ U = [i \in DOMAIN T \cup {n} |-> IF i = n THEN row ELSE T[i]]
        /\ W = [i \in DOMAIN T \cup {n} |-> IF i = n THEN <<>> ELSE V[i]]

Replaced(T, V, U, W, i, row) ==
    /\ U = [T EXCEPT ![i] = row]
    /\ W = [V EXCEPT ![i] = Append(V[i], T[i])]

Uncategorized(T, V, U, W, c) ==
    /\ U = [i \in DOMAIN T |->
               IF T[i].cat = c THEN [T[i] EXCEPT !.cat = NoCategory] ELSE T[i]]
    /\ W = V

LEMMA NextIsNew ==
    ASSUME NEW T, NEW V, Numbered(T, V)
    PROVE  \E n \in Nat : /\ DOMAIN T = 1..n /\ DOMAIN V = 1..n
                          /\ Cardinality(DOMAIN T) + 1 = n + 1
<1>1. PICK n \in Nat : DOMAIN T = 1..n /\ DOMAIN V = 1..n
  BY DEF Numbered
<1>2. Cardinality(1..n) = n
  BY FS_Interval
<1>3. QED
  BY <1>1, <1>2

LEMMA SameSucceeds ==
    ASSUME NEW T, NEW V, Numbered(T, V), WellFormed(T, V)
    PROVE  Succeeds(T, V, T, V)
  BY DEF Succeeds, Follows, Reflects

LEMMA AddedSucceeds ==
    ASSUME NEW T, NEW V, NEW U, NEW W, NEW row, Numbered(T, V), WellFormed(T, V),
           IsRow(row), row.version \in Nat, Added(T, V, U, W, row)
    PROVE  /\ Succeeds(T, V, U, W)
           /\ \E n : /\ n \notin DOMAIN T /\ DOMAIN U = DOMAIN T \cup {n}
                     /\ U[n] = row
                     /\ \A i \in DOMAIN T : U[i] = T[i]
<1>1. PICK n \in Nat : /\ DOMAIN T = 1..n /\ DOMAIN V = 1..n
                       /\ Cardinality(DOMAIN T) + 1 = n + 1
  BY NextIsNew
<1>2. /\ U = [i \in 1..n \cup {n + 1} |-> IF i = n + 1 THEN row ELSE T[i]]
      /\ W = [i \in 1..n \cup {n + 1} |-> IF i = n + 1 THEN <<>> ELSE V[i]]
  BY <1>1 DEF Added
<1>3. 1..n \cup {n + 1} = 1..(n + 1) /\ n + 1 \in Nat /\ n + 1 \notin 1..n
  OBVIOUS
<1>4. Numbered(U, W)
  BY <1>2, <1>3 DEF Numbered
<1>5. \A i \in 1..n : U[i] = T[i] /\ W[i] = V[i]
  BY <1>2, <1>3
<1>6. U[n + 1] = row /\ W[n + 1] = <<>>
  BY <1>2
<1>7. IsSequence(<<>>)
  <2>1. <<>> \in Seq({})
    OBVIOUS
  <2>2. QED
    BY <2>1 DEF IsSequence
<1>8. WellFormed(U, W)
  BY <1>1, <1>2, <1>5, <1>6, <1>7 DEF WellFormed
<1>9. Follows(T, V, U, W)
  BY <1>1, <1>2, <1>5 DEF Follows, Reflects, FirstOf
<1>10. n + 1 \notin DOMAIN T /\ DOMAIN U = DOMAIN T \cup {n + 1}
  BY <1>1, <1>2, <1>3
<1>11. QED
  BY <1>1, <1>4, <1>5, <1>6, <1>8, <1>9, <1>10 DEF Succeeds

LEMMA ReplacedSucceeds ==
    ASSUME NEW T, NEW V, NEW U, NEW W, NEW i, NEW row, Numbered(T, V), WellFormed(T, V),
           i \in DOMAIN T, IsRow(row), row.version = T[i].version + 1,
           row.form = T[i].form, Replaced(T, V, U, W, i, row)
    PROVE  /\ Succeeds(T, V, U, W)
           /\ DOMAIN U = DOMAIN T /\ U[i] = row
           /\ \A k \in DOMAIN T : k # i => U[k] = T[k] /\ W[k] = V[k]
           /\ W[i] # V[i] /\ W[i][Len(W[i])] = T[i]
<1>1. PICK n \in Nat : DOMAIN T = 1..n /\ DOMAIN V = 1..n
  BY DEF Numbered
<1>2. /\ DOMAIN U = 1..n /\ DOMAIN W = 1..n
      /\ U[i] = row /\ W[i] = Append(V[i], T[i])
      /\ \A k \in 1..n : k # i => U[k] = T[k] /\ W[k] = V[k]
  BY <1>1 DEF Replaced
<1>3. /\ IsSequence(W[i]) /\ W[i] # <<>>
      /\ Len(V[i]) \in Nat /\ DOMAIN V[i] = 1..Len(V[i])
      /\ Len(W[i]) = Len(V[i]) + 1 /\ W[i][Len(V[i]) + 1] = T[i]
      /\ \A k \in 1..Len(V[i]) : W[i][k] = V[i][k]
  BY SMTT(30), <1>2, AppendSequence DEF WellFormed
<1>4. W[i] # V[i] /\ W[i][Len(W[i])] = T[i]
  BY <1>3
<1>5. Numbered(U, W)
  BY <1>2 DEF Numbered
<1>6. WellFormed(U, W)
  <2>1. T[i].version \in Nat
    BY DEF WellFormed
  <2>2. IsRow(U[i]) /\ U[i].version \in Nat /\ IsSequence(W[i])
    BY <1>2, <1>3, <2>1
  <2>3. ASSUME NEW k \in 1..n, k # i
        PROVE  IsRow(U[k]) /\ U[k].version \in Nat /\ IsSequence(W[k])
    BY <1>1, <1>2, <2>3 DEF WellFormed
  <2>4. QED
    BY <1>2, <2>2, <2>3 DEF WellFormed
<1>7. FirstOf(U, W, i) = FirstOf(T, V, i)
  <2>1. CASE V[i] = <<>>
    <3>1. Len(V[i]) = 0
      BY <2>1
    <3>2. W[i][1] = T[i]
      BY <1>3, <3>1
    <3>3. QED
      BY <1>3, <2>1, <3>2 DEF FirstOf
  <2>2. CASE V[i] # <<>>
    <3>1. Len(V[i]) # 0
      BY <2>2, AppendSequence DEF WellFormed, IsSequence
    <3>2. W[i][1] = V[i][1]
      BY <1>3, <3>1
    <3>3. QED
      BY <1>3, <2>2, <3>2 DEF FirstOf
  <2>3. QED
    BY <2>1, <2>2
<1>8. Follows(T, V, U, W)
  <2>1. ASSUME NEW k \in DOMAIN T, k # i
        PROVE  U[k] = T[k] /\ W[k] = V[k]
    BY <1>1, <1>2, <2>1
  <2>2. T[i].version < U[i].version
    BY <1>2 DEF WellFormed
  <2>3. QED
    BY <1>1, <1>2, <1>7, <2>1, <2>2 DEF Follows, Reflects, FirstOf
<1>9. QED
  BY <1>1, <1>2, <1>4, <1>5, <1>6, <1>8 DEF Succeeds

LEMMA UncategorizedSucceeds ==
    ASSUME NEW T, NEW V, NEW U, NEW W, NEW c, Numbered(T, V), WellFormed(T, V),
           Uncategorized(T, V, U, W, c)
    PROVE  /\ Succeeds(T, V, U, W)
           /\ DOMAIN U = DOMAIN T
           /\ \A i \in DOMAIN T : Reflects(U[i], T[i])
<1>1. DOMAIN U = DOMAIN T /\ W = V
  BY DEF Uncategorized
<1>2. ASSUME NEW i \in DOMAIN T
      PROVE  IsRow(U[i]) /\ U[i].version \in Nat /\ Reflects(U[i], T[i])
  <2>1. IsRow(T[i]) /\ T[i].version \in Nat
    BY DEF WellFormed
  <2>2. CASE T[i].cat = c
    <3>1. U[i] = [T[i] EXCEPT !.cat = NoCategory]
      BY <2>2 DEF Uncategorized
    <3>2. QED
      BY <2>1, <3>1, RowWithCategory DEF Reflects
  <2>3. CASE T[i].cat # c
    <3>1. U[i] = T[i]
      BY <2>3 DEF Uncategorized
    <3>2. QED
      BY <2>1, <3>1 DEF Reflects
  <2>4. QED
    BY <2>2, <2>3
<1>3. Numbered(U, W) /\ WellFormed(U, W)
  BY <1>1, <1>2 DEF Numbered, WellFormed
<1>4. Follows(T, V, U, W)
  <2>1. ASSUME NEW i \in DOMAIN T
        PROVE  /\ i \in DOMAIN U /\ U[i].form = T[i].form /\ Reflects(U[i], T[i])
               /\ U[i].amount = T[i].amount /\ U[i].currency = T[i].currency
               /\ U[i].at = T[i].at
    BY <1>1, <1>2 DEF Reflects
  <2>2. ASSUME NEW i \in DOMAIN T
        PROVE  Basis(FirstOf(U, W, i)) = Basis(FirstOf(T, V, i))
    BY <1>1, <2>1 DEF FirstOf, Basis
  <2>3. QED
    BY <2>1, <2>2 DEF Follows
<1>5. QED
  BY <1>1, <1>2, <1>3, <1>4 DEF Succeeds

-----------------------------------------------------------------------------
(* What a request has seen, and what it has seen of the prices *)

SeenBy(T, r) ==
    r.op \in {"page", "edit", "delete"} =>
        /\ r.tx \in DOMAIN T /\ IsRow(r.seen) /\ r.seen.version \in Nat
        /\ r.seen.version < T[r.tx].version \/ Reflects(T[r.tx], r.seen)
        /\ (r.op = "edit" /\ r.rates = {}) =>
               r.draft.amount = r.seen.amount /\ r.draft.currency = r.seen.currency

RowInv ==
    /\ Numbered(transactions, revisions) /\ WellFormed(transactions, revisions)
    /\ IsSequence(rateSets)
    /\ DOMAIN request = Requests
    /\ \A w \in Requests : SeenBy(transactions, request[w])

OnRecord(R, rate) == \E n \in DOMAIN R : R[n] = rate

PricedRow(R, t) ==
    t.rub = t.amount * RubPerUnit(t.rate, t.currency) /\ OnRecord(R, t.rate)

(* No rate set goes.                                                          *)
RatesKept ==
    /\ IsSequence(rateSets')
    /\ \A rate : OnRecord(rateSets, rate) => OnRecord(rateSets', rate)

Ended(w) == request' = [request EXCEPT ![w] = Idle]

Books(f, row) ==
    /\ Added(transactions, revisions, transactions', revisions', row)
    /\ IsRow(row) /\ row.version = 1 /\ row.form = f
    /\ PricedRow(rateSets', row)

Edits(w, row) ==
    /\ request[w].op \in {"edit", "delete"} /\ request[w].tx \in DOMAIN transactions
    /\ transactions[request[w].tx].version = request[w].seen.version
    /\ IsRow(row) /\ row.version = request[w].seen.version + 1
    /\ row.form = transactions[request[w].tx].form
    /\ PricedRow(rateSets, transactions[request[w].tx]) => PricedRow(rateSets', row)
    /\ Replaced(transactions, revisions, transactions', revisions', request[w].tx, row)

Uncategorizes(c) == Uncategorized(transactions, revisions, transactions', revisions', c)

LEMMA SeenFollows ==
    ASSUME NEW T, NEW V, NEW U, NEW W, NEW r, WellFormed(T, V), Succeeds(T, V, U, W),
           SeenBy(T, r)
    PROVE  SeenBy(U, r)
<1>1. SUFFICES ASSUME r.op \in {"page", "edit", "delete"}
               PROVE  /\ r.tx \in DOMAIN U
                      /\ r.seen.version < U[r.tx].version \/ Reflects(U[r.tx], r.seen)
  BY DEF SeenBy
<1>2. /\ r.tx \in DOMAIN T /\ r.seen.version \in Nat
      /\ r.seen.version < T[r.tx].version \/ Reflects(T[r.tx], r.seen)
  BY <1>1 DEF SeenBy
<1>3. /\ r.tx \in DOMAIN U
      /\ T[r.tx].version < U[r.tx].version \/ Reflects(U[r.tx], T[r.tx])
      /\ T[r.tx].version \in Nat /\ U[r.tx].version \in Nat
  BY <1>2 DEF Succeeds, Follows, WellFormed
<1>4. QED
  BY <1>2, <1>3 DEF Reflects

LEMMA SavedKeeps ==
    ASSUME NEW rate, IsSequence(rateSets)
    PROVE  /\ IsSequence(Saved(rate)) /\ OnRecord(Saved(rate), rate)
           /\ \A other : OnRecord(rateSets, other) => OnRecord(Saved(rate), other)
<1>1. CASE \E n \in DOMAIN rateSets : rateSets[n] = rate
  BY <1>1 DEF Saved, OnRecord
<1>2. CASE ~ \E n \in DOMAIN rateSets : rateSets[n] = rate
  <2>1. Saved(rate) = Append(rateSets, rate)
    BY <1>2 DEF Saved
  <2>2. QED
    BY <2>1, AppendSequence DEF OnRecord
<1>3. QED
  BY <1>1, <1>2

LEMMA RecordBooks ==
    ASSUME RowInv, NEW d, NEW m, NEW rate, NEW now, NEW f, Record(d, m, rate, now, f)
    PROVE  Books(f, Entered(d, m, rate, now, f)) /\ RatesKept
<1> DEFINE row == Entered(d, m, rate, now, f)
<1>1. Added(transactions, revisions, transactions', revisions', row)
  BY DEF Record, Added, NextId
<1>2. rateSets' = Saved(rate)
  BY DEF Record
<1>3. RatesKept /\ OnRecord(rateSets', rate)
  BY <1>2, SavedKeeps DEF RatesKept, RowInv
<1>4. QED
  BY <1>1, <1>3, EnteredRow DEF Books, PricedRow

LEMMA UpdateEdits ==
    ASSUME RowInv, NEW w \in Requests, CommitUpdate(w)
    PROVE  (\E row : Edits(w, row)) /\ RatesKept /\ Ended(w)
<1> DEFINE r == request[w]
           t == transactions[r.tx]
           row == Revised(t, r.draft, r.rates)
<1>1. /\ r.op = "edit" /\ r.tx \in DOMAIN transactions /\ SeenBy(transactions, r)
      /\ t.version = r.seen.version /\ IsRow(t) /\ t.version \in Nat
  BY DEF CommitUpdate, Updatable, RowInv, SeenBy, WellFormed
<1>2. /\ Replaced(transactions, revisions, transactions', revisions', r.tx, row)
      /\ rateSets' = IF r.rates = {} THEN rateSets ELSE Saved(CHOOSE s \in r.rates : TRUE)
      /\ Ended(w)
  BY DEF CommitUpdate, Replace, Replaced, Finish, Ended
<1>3. Reflects(t, r.seen)
  BY <1>1 DEF SeenBy
<1>4. /\ IsRow(row) /\ row.version = t.version + 1 /\ row.form = t.form
      /\ row.amount = r.draft.amount /\ row.currency = r.draft.currency
      /\ r.rates = {} => row.rate = t.rate /\ row.rub = t.rub
      /\ r.rates # {} =>
             /\ row.rate = CHOOSE s \in r.rates : TRUE
             /\ row.rub = r.draft.amount * RubPerUnit(row.rate, r.draft.currency)
  BY <1>1, RevisedRow
<1> HIDE DEF row
<1>5. RatesKept /\ (r.rates # {} => OnRecord(rateSets', row.rate))
  BY <1>2, <1>4, SavedKeeps DEF RatesKept, RowInv
<1>6. r.rates = {} => row.amount = t.amount /\ row.currency = t.currency
  BY <1>1, <1>3, <1>4 DEF SeenBy, Reflects
<1>7. PricedRow(rateSets, t) => PricedRow(rateSets', row)
  BY <1>2, <1>4, <1>5, <1>6 DEF PricedRow
<1>8. Edits(w, row)
  BY <1>1, <1>2, <1>4, <1>7 DEF Edits
<1>9. QED
  BY <1>2, <1>5, <1>8

LEMMA DeletionEdits ==
    ASSUME RowInv, NEW w \in Requests, CommitDeletion(w)
    PROVE  (\E row : Edits(w, row)) /\ RatesKept /\ Ended(w)
<1> DEFINE r == request[w]
           t == transactions[r.tx]
           version == t.version + 1
           deleted == ~r.seen.deleted
           row == WithDeletion(t, deleted, version)
<1>1. /\ r.op = "delete" /\ r.tx \in DOMAIN transactions
      /\ t.version = r.seen.version /\ IsRow(t)
  BY DEF CommitDeletion, RowInv, SeenBy, WellFormed
<1>2. /\ Replaced(transactions, revisions, transactions', revisions', r.tx, row)
      /\ rateSets' = rateSets /\ Ended(w)
  BY DEF CommitDeletion, Replace, Replaced, Finish, Ended, WithDeletion
<1> HIDE DEF version, deleted
<1>3. /\ IsRow(row) /\ row.version = version /\ row.form = t.form
      /\ row.amount = t.amount /\ row.currency = t.currency
      /\ row.rate = t.rate /\ row.rub = t.rub
  BY <1>1, DeletedRow
<1> HIDE DEF row
<1>4. RatesKept
  BY <1>2 DEF RatesKept, RowInv
<1>5. Edits(w, row)
  BY <1>1, <1>2, <1>3 DEF Edits, PricedRow, version
<1>6. QED
  BY <1>2, <1>4, <1>5

LEMMA RemovalUncategorizes ==
    ASSUME NEW w \in Requests, RemoveCategory(w)
    PROVE  Uncategorizes(request[w].cat) /\ rateSets' = rateSets /\ Ended(w)
  BY DEF RemoveCategory, Uncategorizes, Uncategorized, Finish, Ended

-----------------------------------------------------------------------------
(* The four things a step may do to the rows *)

SameRows == UNCHANGED <<transactions, revisions>>

(* A request that has not changed the rows may have gone on.                  *)
Proceeds ==
    /\ SameRows
    /\ \/ UNCHANGED request
       \/ \E w \in Requests : \E r :
             request' = [request EXCEPT ![w] = r] /\ SeenBy(transactions, r)

(* A new row, of a web request or of a form, ...                              *)
BooksWeb ==
    \E w \in Requests : \E row :
        request[w].op = "create" /\ Ended(w) /\ Books(NoForm, row)

BooksForm ==
    \E h \in Handlers :
        /\ CommitConfirm(h) /\ UNCHANGED request
        /\ LET d == handler[h].draft
           IN  Books(d.id, Entered(d, d.month, handler[h].rate, clock, d.id))

(* ... a new version of one, or a category that is gone.                      *)
EditsRow == \E w \in Requests : Ended(w) /\ \E row : Edits(w, row)

RemovesCategory ==
    /\ rateSets' = rateSets
    /\ \E w \in Requests : request[w].op = "remove" /\ Ended(w)
                           /\ Uncategorizes(request[w].cat)

StartedOrEnded == Proceeds \/ BooksWeb \/ EditsRow \/ RemovesCategory

LEMMA StartProceeds ==
    ASSUME RowInv, NEW w \in Requests, Started(w)
    PROVE  Proceeds /\ rateSets' = rateSets
<1>1. SameRows /\ rateSets' = rateSets
  BY DEF Started, CreateTransaction, CreateHistoricalTransaction, StartCreate,
         ListTransactions, ListHistoricalTransactions, OpenPage,
         UpdateTransaction, UpdateHistoricalTransaction, StartUpdate, DeleteTransaction,
         DeleteHistoricalTransaction, RestoreTransaction, RestoreHistoricalTransaction,
         StartDeletion, StartCurrency, StartBudget, Unlocked, ledger, SameRows
<1> DEFINE Seen == \E r : request' = [request EXCEPT ![w] = r] /\ SeenBy(transactions, r)
<1> SUFFICES Seen
  BY <1>1 DEF Proceeds
<1>2. ASSUME NEW period, StartCreate(w, period) PROVE Seen
  <2>1. PICK draft, rate :
          request' = [request EXCEPT ![w] =
                         [op |-> "create", period |-> period, draft |-> draft,
                          rate |-> rate, now |-> clock]]
    BY <1>2 DEF StartCreate, Begin
  <2>2. SeenBy(transactions, [op |-> "create", period |-> period, draft |-> draft,
                              rate |-> rate, now |-> clock])
    BY DEF SeenBy
  <2>3. QED
    BY <2>1, <2>2
<1>3. ASSUME NEW m, OpenPage(w, m) PROVE Seen
  <2>1. PICK i \in DOMAIN transactions, op \in {"edit", "delete"} :
          request' = [request EXCEPT ![w] =
                         [op |-> "page", next |-> op, tx |-> i, seen |-> transactions[i]]]
    BY <1>3 DEF OpenPage, Begin, Page
  <2>2. IsRow(transactions[i]) /\ transactions[i].version \in Nat
    BY DEF RowInv, WellFormed
  <2>3. SeenBy(transactions, [op |-> "page", next |-> op, tx |-> i, seen |-> transactions[i]])
    BY <2>2 DEF SeenBy, Reflects
  <2>4. QED
    BY <2>1, <2>3
<1>4. ASSUME NEW period, StartUpdate(w, period) PROVE Seen
  <2> DEFINE r == request[w]
             t == transactions[r.tx]
  <2>1. r.op = "page" /\ SeenBy(transactions, r)
    BY <1>4 DEF StartUpdate, RowInv
  <2>2. PICK draft \in Drafts :
          /\ Updatable(t, r.seen.version, draft, t.month)
          /\ \E rates \in IF Reprices(t, draft)
                          THEN {{rate} : rate \in Priced(draft.at + zone)} ELSE {{}} :
               request' = [request EXCEPT ![w] =
                              [op |-> "edit", tx |-> r.tx, seen |-> r.seen,
                               period |-> period, draft |-> draft, rates |-> rates,
                               now |-> clock]]
    BY <1>4 DEF StartUpdate, Begin
  <2>3. PICK rates \in IF Reprices(t, draft)
                       THEN {{rate} : rate \in Priced(draft.at + zone)} ELSE {{}} :
          request' = [request EXCEPT ![w] =
                         [op |-> "edit", tx |-> r.tx, seen |-> r.seen,
                          period |-> period, draft |-> draft, rates |-> rates,
                          now |-> clock]]
    BY <2>2
  <2>4. rates = {} => draft.amount = t.amount /\ draft.currency = t.currency
    <3>1. rates = {} => ~Reprices(t, draft)
      OBVIOUS
    <3>2. QED
      BY <3>1 DEF Reprices
  <2>5. /\ r.tx \in DOMAIN transactions /\ IsRow(r.seen) /\ r.seen.version \in Nat
        /\ Reflects(t, r.seen)
    BY <2>1, <2>2 DEF SeenBy, Updatable
  <2>6. SeenBy(transactions, [op |-> "edit", tx |-> r.tx, seen |-> r.seen,
                              period |-> period, draft |-> draft, rates |-> rates,
                              now |-> clock])
    BY <2>4, <2>5 DEF SeenBy, Reflects
  <2>7. QED
    BY <2>3, <2>6
<1>5. ASSUME NEW period, NEW deleted, StartDeletion(w, period, deleted) PROVE Seen
  <2> DEFINE r == request[w]
  <2>1. r.op = "page" /\ SeenBy(transactions, r)
    BY <1>5 DEF StartDeletion, RowInv
  <2>2. request' = [request EXCEPT ![w] =
                       [op |-> "delete", tx |-> r.tx, seen |-> r.seen,
                        period |-> period, now |-> clock]]
    BY <1>5 DEF StartDeletion, Begin
  <2>3. SeenBy(transactions, [op |-> "delete", tx |-> r.tx, seen |-> r.seen,
                              period |-> period, now |-> clock])
    BY <2>1 DEF SeenBy
  <2>4. QED
    BY <2>2, <2>3
<1>6. CASE StartCurrency(w)
  <2>1. PICK rate : \E r \in CurrencyRequests(rate) : request' = [request EXCEPT ![w] = r]
    BY <1>6 DEF StartCurrency, Begin
  <2>2. PICK r \in CurrencyRequests(rate) : request' = [request EXCEPT ![w] = r]
    BY <2>1
  <2>3. r.op = "currency"
    BY DEF CurrencyRequests
  <2>4. QED
    BY <2>2, <2>3 DEF SeenBy
<1>7. CASE StartBudget(w)
  <2>1. PICK r \in BudgetRequests : request' = [request EXCEPT ![w] = r]
    BY <1>7 DEF StartBudget, Begin
  <2>2. r.op \notin {"page", "edit", "delete"}
    BY DEF BudgetRequests, OpeningRequests, CategoryRequests, PlanRequests, ArchiveRequests,
           RestoreRequests, RemoveRequests, OnLine
  <2>3. QED
    BY <2>1, <2>2 DEF SeenBy
<1>8. QED
  BY <1>2, <1>3, <1>4, <1>5, <1>6, <1>7
     DEF Started, CreateTransaction, CreateHistoricalTransaction, ListTransactions,
         ListHistoricalTransactions, UpdateTransaction,
         UpdateHistoricalTransaction, DeleteTransaction, DeleteHistoricalTransaction,
         RestoreTransaction, RestoreHistoricalTransaction

LEMMA IdleProceeds ==
    ASSUME NEW w \in Requests, Ended(w), SameRows
    PROVE  Proceeds
<1>1. SeenBy(transactions, Idle)
  BY DEF SeenBy, Idle
<1>2. QED
  BY <1>1 DEF Ended, Proceeds

LEMMA SameRates ==
    ASSUME RowInv, UNCHANGED rateSets PROVE RatesKept
  BY DEF RowInv, RatesKept

LEMMA SavedRates ==
    ASSUME RowInv, NEW rate, rateSets' = Saved(rate) PROVE RatesKept
  BY SavedKeeps DEF RowInv, RatesKept

LEMMA CommitStep ==
    ASSUME RowInv, NEW w \in Requests, Committed(w)
    PROVE  StartedOrEnded /\ RatesKept
<1>1. CASE CommitCreate(w)
  <2> DEFINE r == request[w]
             m == Period(r.now, r.period)
  <2>1. Record(r.draft, m, r.rate, r.now, NoForm) /\ Ended(w) /\ r.op = "create"
    BY <1>1 DEF CommitCreate, Finish, Ended
  <2>2. Books(NoForm, Entered(r.draft, m, r.rate, r.now, NoForm)) /\ RatesKept
    BY <2>1, RecordBooks
  <2>3. QED
    BY <2>1, <2>2 DEF StartedOrEnded, BooksWeb
<1>2. CASE CommitUpdate(w)
  BY <1>2, UpdateEdits DEF StartedOrEnded, EditsRow
<1>3. CASE CommitDeletion(w)
  BY <1>3, DeletionEdits DEF StartedOrEnded, EditsRow
<1>4. CASE CommitCurrency(w)
  <2>1. SameRows /\ Ended(w) /\ rateSets' = Saved(request[w].rate)
    BY <1>4 DEF CommitCurrency, Finish, Ended, SameRows
  <2>2. QED
    BY <2>1, IdleProceeds, SavedRates DEF StartedOrEnded
<1>5. CASE SetOpening(w) \/ SetPlan(w) \/ Archive(w) \/ Restore(w) \/ CreateCategory(w)
  <2>1. SameRows /\ Ended(w) /\ rateSets' = rateSets
    BY <1>5 DEF SetOpening, SetPlan, Archive, Restore, SetArchived, CreateCategory, Finish,
                Ended, SameRows
  <2>2. QED
    BY <2>1, IdleProceeds, SameRates DEF StartedOrEnded
<1>6. CASE RemoveCategory(w)
  <2>1. request[w].op = "remove"
    BY <1>6 DEF RemoveCategory, LockedLine, LockedMonth
  <2>2. QED
    BY <1>6, <2>1, RemovalUncategorizes, SameRates DEF StartedOrEnded, RemovesCategory
<1>7. QED
  BY <1>1, <1>2, <1>3, <1>4, <1>5, <1>6 DEF Committed

LEMMA LedgerStep ==
    ASSUME RowInv, LedgerNext
    PROVE  StartedOrEnded /\ RatesKept
<1>1. CASE EnsureMonth \/ InitializeTracker \/ Tick
  <2>1. SameRows /\ UNCHANGED <<request, rateSets>>
    BY <1>1 DEF EnsureMonth, InitializeTracker, Tick, SameRows, ledger
  <2>2. QED
    BY <2>1, SameRates DEF StartedOrEnded, Proceeds
<1>2. CASE RefreshRates
  <2>1. SameRows /\ UNCHANGED request /\ \E rate : rateSets' = Saved(rate)
    BY <1>2 DEF RefreshRates, SameRows
  <2>2. QED
    BY <2>1, SavedRates DEF StartedOrEnded, Proceeds
<1>3. ASSUME NEW w \in Requests, Started(w) PROVE StartedOrEnded /\ RatesKept
  BY <1>3, StartProceeds, SameRates DEF StartedOrEnded
<1>4. ASSUME NEW w \in Requests, Committed(w) PROVE StartedOrEnded /\ RatesKept
  BY <1>4, CommitStep
<1>5. ASSUME NEW w \in Requests, Fail(w) PROVE StartedOrEnded /\ RatesKept
  <2>1. SameRows /\ Ended(w) /\ UNCHANGED rateSets
    BY <1>5 DEF Fail, Unlocked, ledger, SameRows, Ended
  <2>2. QED
    BY <2>1, IdleProceeds, SameRates DEF StartedOrEnded
<1>6. ASSUME NEW e \in outbox, Deliver(e) PROVE StartedOrEnded /\ RatesKept
  <2>1. SameRows /\ UNCHANGED <<request, rateSets>>
    BY <1>6 DEF Deliver, ledger, SameRows
  <2>2. QED
    BY <2>1, SameRates DEF StartedOrEnded, Proceeds
<1>7. QED
  BY <1>1, <1>2, <1>3, <1>4, <1>5, <1>6 DEF LedgerNext

LEMMA FormStep ==
    ASSUME RowInv, NEW h \in Handlers, CommitConfirm(h)
    PROVE  BooksForm /\ RatesKept
<1> DEFINE d == handler[h].draft
<1>1. Record(d, d.month, handler[h].rate, clock, d.id) /\ UNCHANGED request
  BY DEF CommitConfirm
<1>2. QED
  BY <1>1, RecordBooks DEF BooksForm

(* Every other step of a handler leaves the ledger's rows alone.              *)
LEMMA HandlerStep ==
    ASSUME RowInv, NEW h \in Handlers, Handled(h)
    PROVE  (Proceeds \/ BooksForm) /\ RatesKept
<1>1. CASE CommitConfirm(h)
  BY <1>1, FormStep
<1>2. CASE ~CommitConfirm(h)
  <2>1. UNCHANGED <<transactions, revisions, request, rateSets>>
    BY <1>2 DEF Handled, Receive, Replay, OpenForm, Outdated, Press, Back, Type, ShowAgain,
                ChooseGone, Cancel, Ignore, StartConfirm, ConfirmStale, FoundConfirmed,
                LostConfirm, FinishConfirm, Abandon, Crash, Step, Steady, vars, ledger
  <2>2. QED
    BY <2>1, SameRates DEF Proceeds, SameRows
<1>3. QED
  BY <1>1, <1>2

LEMMA EntryStep ==
    ASSUME RowInv, [EntryNext]_allVars
    PROVE  (StartedOrEnded \/ BooksForm) /\ RatesKept
<1>1. CASE LedgerNext
  BY <1>1, LedgerStep
<1>2. CASE CancelCommand \/ LockExpires \/ Forget \/ Revoke \/ UNCHANGED allVars
  <2>1. UNCHANGED <<transactions, revisions, request, rateSets>>
    BY <1>2 DEF CancelCommand, LockExpires, Forget, Revoke, allVars, vars, ledger
  <2>2. QED
    BY <2>1, SameRates DEF StartedOrEnded, Proceeds, SameRows
<1>3. ASSUME NEW h \in Handlers, Handled(h) PROVE (StartedOrEnded \/ BooksForm) /\ RatesKept
  BY <1>3, HandlerStep DEF StartedOrEnded
<1>4. QED
  BY <1>1, <1>2, <1>3 DEF EntryNext

-----------------------------------------------------------------------------
(* The invariant on rows *)

LEMMA RowsSucceed ==
    ASSUME RowInv, StartedOrEnded \/ BooksForm
    PROVE  Succeeds(transactions, revisions, transactions', revisions')
<1>1. CASE Proceeds
  BY <1>1, SameSucceeds DEF RowInv, Proceeds, SameRows
<1>2. CASE BooksWeb \/ BooksForm
  <2>1. PICK f, row : Books(f, row)
    BY <1>2 DEF BooksWeb, BooksForm
  <2>2. QED
    BY <2>1, AddedSucceeds DEF RowInv, Books
<1>3. CASE EditsRow
  <2>1. PICK w \in Requests : \E row : Edits(w, row)
    BY <1>3 DEF EditsRow
  <2>2. PICK row : Edits(w, row)
    BY <2>1
  <2>3. row.version = transactions[request[w].tx].version + 1
    BY <2>2 DEF Edits
  <2>4. QED
    BY <2>2, <2>3, ReplacedSucceeds DEF RowInv, Edits
<1>4. CASE RemovesCategory
  BY <1>4, UncategorizedSucceeds DEF RowInv, RemovesCategory, Uncategorizes
<1>5. QED
  BY <1>1, <1>2, <1>3, <1>4 DEF StartedOrEnded

(* The row a step adds, if any.                                               *)
LEMMA BooksAdds ==
    ASSUME RowInv, NEW f, NEW row, Books(f, row)
    PROVE  /\ NextId \notin DOMAIN transactions
           /\ DOMAIN transactions' = DOMAIN transactions \cup {NextId}
           /\ transactions'[NextId] = row
           /\ FirstOf(transactions', revisions', NextId) = row
           /\ \A i \in DOMAIN transactions : transactions'[i] = transactions[i]
<1>1. PICK n \in Nat : /\ DOMAIN transactions = 1..n /\ DOMAIN revisions = 1..n
                       /\ Cardinality(DOMAIN transactions) + 1 = n + 1
  BY NextIsNew DEF RowInv
<1>2. NextId = n + 1 /\ n + 1 \notin 1..n
  BY <1>1 DEF NextId
<1>3. /\ transactions' = [i \in 1..n \cup {n + 1} |->
                             IF i = n + 1 THEN row ELSE transactions[i]]
      /\ revisions' = [i \in 1..n \cup {n + 1} |->
                          IF i = n + 1 THEN <<>> ELSE revisions[i]]
  BY <1>1 DEF Books, Added
<1>4. transactions'[n + 1] = row /\ revisions'[n + 1] = <<>>
  BY <1>3
<1>5. FirstOf(transactions', revisions', n + 1) = row
  BY <1>4 DEF FirstOf
<1>6. \A i \in 1..n : transactions'[i] = transactions[i]
  BY <1>2, <1>3
<1>7. QED
  BY <1>1, <1>2, <1>3, <1>4, <1>5, <1>6

LEMMA RowInvInit ==
    ASSUME Init PROVE RowInv
<1>1. DOMAIN transactions = 1..0 /\ DOMAIN revisions = 1..0
  BY DEF Init
<1>2. Numbered(transactions, revisions) /\ WellFormed(transactions, revisions)
  BY <1>1 DEF Numbered, WellFormed
<1>3. IsSequence(rateSets)
  <2>1. rateSets \in Seq({})
    BY DEF Init
  <2>2. QED
    BY <2>1 DEF IsSequence
<1>4. DOMAIN request = Requests /\ \A w \in Requests : SeenBy(transactions, request[w])
  BY DEF Init, Idle, SeenBy
<1>5. QED
  BY <1>2, <1>3, <1>4 DEF RowInv

LEMMA RowInvKept ==
    ASSUME RowInv, StartedOrEnded \/ BooksForm, RatesKept
    PROVE  RowInv'
<1>1. Succeeds(transactions, revisions, transactions', revisions')
  BY RowsSucceed
<1>2. ASSUME NEW w \in Requests PROVE SeenBy(transactions', request[w])
  BY <1>1, SeenFollows DEF RowInv
<1>3. DOMAIN request' = Requests /\ \A w \in Requests : SeenBy(transactions', request'[w])
  <2>1. CASE UNCHANGED request
    BY <1>2, <2>1 DEF RowInv
  <2>2. CASE \E w \in Requests : \E r :
                request' = [request EXCEPT ![w] = r] /\ SeenBy(transactions, r) /\ SameRows
    <3>1. PICK w \in Requests : \E r :
            request' = [request EXCEPT ![w] = r] /\ SeenBy(transactions, r) /\ SameRows
      BY <2>2
    <3>2. PICK r : request' = [request EXCEPT ![w] = r] /\ SeenBy(transactions, r) /\ SameRows
      BY <3>1
    <3>3. SeenBy(transactions', r)
      BY <3>2 DEF SameRows
    <3>4. QED
      BY <1>2, <3>2, <3>3 DEF RowInv
  <2>3. CASE \E w \in Requests : Ended(w)
    <3>1. SeenBy(transactions', Idle)
      BY DEF SeenBy, Idle
    <3>2. QED
      BY <1>2, <2>3, <3>1 DEF RowInv, Ended
  <2>4. QED
    BY <2>1, <2>2, <2>3
       DEF StartedOrEnded, Proceeds, BooksWeb, BooksForm, EditsRow, RemovesCategory
<1>4. QED
  BY <1>1, <1>3 DEF RowInv, RatesKept, Succeeds

(* The reading of an edit's page, its lock-free start and its commit may be   *)
(* overtaken by any number of other requests and category removals.           *)
THEOREM RowsCorrect == EntrySpec => []RowInv
<1>1. EntryInit => RowInv
  BY RowInvInit DEF EntryInit
<1>2. RowInv /\ [EntryNext]_allVars => RowInv'
  BY EntryStep, RowInvKept
<1>3. QED
  BY <1>1, <1>2, PTL DEF EntrySpec

-----------------------------------------------------------------------------
(* Edits *)

(* The revision an edit or a deletion leaves behind is the row its editor     *)
(* saw, up to a category that is gone: the version decides under the lock,    *)
(* and everything that changes a row in another way raises it.                *)
LEMMA EditIsSerial ==
    ASSUME RowInv, StartedOrEnded \/ BooksForm, NEW w \in Requests,
           request[w].op \in {"edit", "delete"}, request'[w] = Idle, revisions' # revisions
    PROVE  LET r == request[w]
               last == revisions'[r.tx][Len(revisions'[r.tx])]
           IN  /\ [last EXCEPT !.cat = r.seen.cat] = r.seen
               /\ last.cat \in {r.seen.cat, NoCategory}
<1>1. request[w] # Idle
  BY DEF Idle
<1>2. ASSUME NEW v \in Requests, Ended(v) PROVE v = w
  BY <1>1, <1>2 DEF Ended, RowInv
<1>3. ~Proceeds /\ ~BooksForm
  BY <1>1 DEF Proceeds, SameRows, BooksForm
<1>4. ~BooksWeb
  BY <1>2 DEF BooksWeb
<1>5. ~RemovesCategory
  BY DEF RemovesCategory, Uncategorizes, Uncategorized
<1>6. \E row : Edits(w, row)
  BY <1>2, <1>3, <1>4, <1>5 DEF StartedOrEnded, EditsRow
<1> DEFINE r == request[w]
           t == transactions[r.tx]
<1>7. PICK row : Edits(w, row)
  BY <1>6
<1>8. /\ r.tx \in DOMAIN transactions /\ t.version = r.seen.version
      /\ IsRow(t) /\ t.version \in Nat /\ SeenBy(transactions, r)
  BY <1>7 DEF Edits, RowInv, WellFormed
<1>9. revisions'[r.tx][Len(revisions'[r.tx])] = t
  BY <1>7, <1>8, ReplacedSucceeds DEF Edits, RowInv
<1>10. Reflects(t, r.seen) /\ IsRow(r.seen)
  BY <1>8 DEF SeenBy
<1>11. QED
  BY SMTT(30), <1>8, <1>9, <1>10, ReflectedRow DEF Reflects

THEOREM EditsSerialCorrect == EntrySpec => EditsSerial
<1> DEFINE Serial == \A w \in Requests :
        LET r == request[w]
        IN  (r.op \in {"edit", "delete"} /\ request'[w] = Idle /\ revisions' # revisions) =>
                LET last == revisions'[r.tx][Len(revisions'[r.tx])]
                IN  [last EXCEPT !.cat = r.seen.cat] = r.seen
                    /\ last.cat \in {r.seen.cat, NoCategory}
<1>1. RowInv /\ [EntryNext]_allVars => [Serial]_vars
  BY EntryStep, EditIsSerial
<1>2. EntrySpec => [][Serial]_vars
  BY <1>1, RowsCorrect, PTL DEF EntrySpec
<1>3. QED
  BY <1>2 DEF EditsSerial

-----------------------------------------------------------------------------
(* Prices *)

LEMMA PricesKept ==
    ASSUME RowInv, StartedOrEnded \/ BooksForm, RatesKept, PricingConsistent
    PROVE  PricingConsistent'
<1>1. ASSUME NEW t, PricedRow(rateSets, t) PROVE PricedRow(rateSets', t)
  BY <1>1 DEF PricedRow, RatesKept
<1>2. \A i \in DOMAIN transactions : PricedRow(rateSets, transactions[i])
  BY DEF PricingConsistent, PricedRow, OnRecord
<1>3. \A i \in DOMAIN transactions' : PricedRow(rateSets', transactions'[i])
  <2>1. CASE Proceeds
    BY <1>1, <1>2, <2>1 DEF Proceeds, SameRows
  <2>2. CASE BooksWeb \/ BooksForm
    <3>1. PICK f, row : Books(f, row)
      BY <2>2 DEF BooksWeb, BooksForm
    <3>2. PICK n : /\ DOMAIN transactions' = DOMAIN transactions \cup {n}
                   /\ transactions'[n] = row
                   /\ \A i \in DOMAIN transactions : transactions'[i] = transactions[i]
      BY <3>1, BooksAdds
    <3>3. PricedRow(rateSets', row)
      BY <3>1 DEF Books
    <3>4. QED
      BY <1>1, <1>2, <3>2, <3>3
  <2>3. CASE EditsRow
    <3>0. PICK w \in Requests : \E row : Edits(w, row)
      BY <2>3 DEF EditsRow
    <3>1. PICK row : Edits(w, row)
      BY <3>0
    <3> DEFINE n == request[w].tx
    <3>2. /\ n \in DOMAIN transactions /\ DOMAIN transactions' = DOMAIN transactions
          /\ transactions'[n] = row
          /\ \A i \in DOMAIN transactions : i # n => transactions'[i] = transactions[i]
      <4>1. row.version = transactions[n].version + 1
        BY <3>1 DEF Edits
      <4>2. QED
        BY <3>1, <4>1, ReplacedSucceeds DEF RowInv, Edits
    <3>3. PricedRow(rateSets', row)
      BY <1>2, <3>1 DEF Edits
    <3>4. QED
      BY <1>1, <1>2, <3>2, <3>3
  <2>4. CASE RemovesCategory
    <3>1. /\ DOMAIN transactions' = DOMAIN transactions
          /\ \A i \in DOMAIN transactions : Reflects(transactions'[i], transactions[i])
      BY <2>4, UncategorizedSucceeds DEF RowInv, RemovesCategory, Uncategorizes
    <3>2. ASSUME NEW i \in DOMAIN transactions
          PROVE  PricedRow(rateSets, transactions'[i])
      BY <1>2, <3>1 DEF Reflects, PricedRow
    <3>3. QED
      BY <1>1, <3>1, <3>2
  <2>5. QED
    BY <2>1, <2>2, <2>3, <2>4 DEF StartedOrEnded
<1>4. QED
  BY <1>3 DEF PricingConsistent, PricedRow, OnRecord

(* Every row is worth what a rate set on record makes of its amount, although *)
(* an edit decides before the lock whether it asks for a rate.                *)
THEOREM PricesCorrect == EntrySpec => []PricingConsistent
<1>1. EntryInit => PricingConsistent
  BY DEF EntryInit, Init, PricingConsistent
<1>2. RowInv /\ PricingConsistent /\ [EntryNext]_allVars => PricingConsistent'
  BY EntryStep, PricesKept
<1>3. QED
  BY <1>1, <1>2, RowsCorrect, PTL DEF EntrySpec

-----------------------------------------------------------------------------
(* One entry per form *)

UniqueForms ==
    \A i, j \in DOMAIN transactions :
        (transactions[i].form # NoForm /\ transactions[i].form = transactions[j].form) => i = j

LEMMA OthersKeepRows ==
    ASSUME RowInv, Proceeds \/ EditsRow \/ RemovesCategory
    PROVE  DOMAIN transactions' = DOMAIN transactions
<1>1. CASE Proceeds
  BY <1>1 DEF Proceeds, SameRows
<1>2. CASE EditsRow
  <2>1. PICK w \in Requests : \E row : Edits(w, row)
    BY <1>2 DEF EditsRow
  <2>2. PICK row : Edits(w, row)
    BY <2>1
  <2>3. QED
    BY <2>2 DEF Edits, Replaced
<1>3. CASE RemovesCategory
  BY <1>3 DEF RemovesCategory, Uncategorizes, Uncategorized
<1>4. QED
  BY <1>1, <1>2, <1>3

LEMMA FormsStay ==
    ASSUME RowInv, StartedOrEnded \/ BooksForm
    PROVE  \A i \in DOMAIN transactions :
               i \in DOMAIN transactions' /\ transactions'[i].form = transactions[i].form
  BY RowsSucceed DEF Succeeds, Follows

LEMMA UniqueFormsKept ==
    ASSUME RowInv, StartedOrEnded \/ BooksForm, UniqueForms
    PROVE  UniqueForms'
<1>1. CASE Proceeds \/ EditsRow \/ RemovesCategory
  BY <1>1, OthersKeepRows, FormsStay DEF UniqueForms
<1>2. CASE BooksWeb
  <2>1. PICK row : Books(NoForm, row)
    BY <1>2 DEF BooksWeb
  <2>2. row.form = NoForm
    BY <2>1 DEF Books
  <2>3. PICK n : /\ DOMAIN transactions' = DOMAIN transactions \cup {n}
                 /\ transactions'[n] = row
                 /\ \A i \in DOMAIN transactions : transactions'[i] = transactions[i]
    BY <2>1, BooksAdds
  <2>4. QED
    BY <2>2, <2>3 DEF UniqueForms
<1>3. CASE BooksForm
  <2>1. PICK h \in Handlers : /\ CommitConfirm(h)
                              /\ LET d == handler[h].draft
                                 IN  Books(d.id, Entered(d, d.month, handler[h].rate,
                                                         clock, d.id))
    BY <1>3 DEF BooksForm
  <2> DEFINE d == handler[h].draft
             row == Entered(d, d.month, handler[h].rate, clock, d.id)
  <2>2. row.form = d.id
    BY <2>1 DEF Books
  <2>3. \A i \in DOMAIN transactions : transactions[i].form # d.id
    BY <2>1 DEF CommitConfirm, Existing, Operation
  <2>4. QED
    <3> HIDE DEF row
    <3>1. PICK n : /\ n \notin DOMAIN transactions
                   /\ DOMAIN transactions' = DOMAIN transactions \cup {n}
                   /\ transactions'[n] = row
                   /\ \A i \in DOMAIN transactions : transactions'[i] = transactions[i]
      BY <2>1, BooksAdds DEF row
    <3>2. QED
      BY <2>2, <2>3, <3>1 DEF UniqueForms
<1>4. QED
  BY <1>1, <1>2, <1>3 DEF StartedOrEnded

(* A row that carries a form was confirmed by someone with access, in the     *)
(* month that was current at its commit and a category that takes entries.    *)
EnteredRightly ==
    \A i \in DOMAIN transactions' \ DOMAIN transactions :
        LET t == transactions'[i]
        IN  t.form # NoForm =>
                /\ linked /\ t.month = CurrentMonth
                /\ months[t.month].lines[t.cat].accepting

LEMMA StepEntersRightly ==
    ASSUME RowInv, StartedOrEnded \/ BooksForm
    PROVE  EnteredRightly
<1>1. CASE Proceeds \/ EditsRow \/ RemovesCategory
  BY <1>1, OthersKeepRows DEF EnteredRightly
<1>2. CASE BooksWeb
  <2>1. PICK row : Books(NoForm, row)
    BY <1>2 DEF BooksWeb
  <2>2. row.form = NoForm
    BY <2>1 DEF Books
  <2>3. PICK n : /\ DOMAIN transactions' = DOMAIN transactions \cup {n}
                 /\ transactions'[n] = row
    BY <2>1, BooksAdds
  <2>4. QED
    BY <2>2, <2>3 DEF EnteredRightly
<1>3. CASE BooksForm
  <2>1. PICK h \in Handlers : /\ CommitConfirm(h)
                              /\ LET d == handler[h].draft
                                 IN  Books(d.id, Entered(d, d.month, handler[h].rate,
                                                         clock, d.id))
    BY <1>3 DEF BooksForm
  <2> DEFINE d == handler[h].draft
             row == Entered(d, d.month, handler[h].rate, clock, d.id)
  <2>2. row.month = d.month /\ row.cat = d.cat
    BY EnteredRow
  <2>3. linked /\ d.month = CurrentMonth /\ months[d.month].lines[d.cat].accepting
    BY <2>1 DEF CommitConfirm, Allowed, Checked, Enterable, Accepting
  <2>4. QED
    <3> HIDE DEF row
    <3>1. PICK n : /\ DOMAIN transactions' = DOMAIN transactions \cup {n}
                   /\ transactions'[n] = row
      BY <2>1, BooksAdds DEF row
    <3>2. QED
      BY <2>2, <2>3, <3>1 DEF EnteredRightly
<1>4. QED
  BY <1>1, <1>2, <1>3 DEF StartedOrEnded

(* One form, one entry: however often it is confirmed, by however many        *)
(* handlers, with the isolation lock or after it has timed out.               *)
THEOREM EntryOnceCorrect == EntrySpec => EntryOnce
<1>1. EntryInit => UniqueForms
  BY DEF EntryInit, Init, UniqueForms
<1>2. RowInv /\ UniqueForms /\ [EntryNext]_allVars => UniqueForms'
  BY EntryStep, UniqueFormsKept
<1>3. EntrySpec => []UniqueForms
  BY <1>1, <1>2, RowsCorrect, PTL DEF EntrySpec
<1>4. RowInv /\ [EntryNext]_allVars => [EnteredRightly]_allVars
  BY EntryStep, StepEntersRightly
<1>5. EntrySpec => [][EnteredRightly]_allVars
  BY <1>4, RowsCorrect, PTL DEF EntrySpec
<1>6. QED
  BY <1>3, <1>5 DEF EntryOnce, UniqueForms, EnteredRightly

-----------------------------------------------------------------------------
(* What a form's participant is told *)

(* A draft has the fields of a draft, and no other.                           *)
DraftsOver(S) ==
    [id : S, step : S, month : S, expires : S, offered : S, kind : S, cat : S, amount : S,
     currency : S, at : S]

IsDraft(d) == \E S : d \in DraftsOver(S)

Confirming(h) == handler[h].phase \in {"pricing", "saved"}

Canceled(A, f) == <<f, "canceled">> \in A

(* A confirmation in progress is of a form that was opened, and of what the   *)
(* screen showed whose button was tapped.  Unless the form is faulted, the    *)
(* confirmation holds the lock and what it books, or has booked, is what the  *)
(* last screen showed.                                                        *)
ConfirmationOf(h) ==
    LET d == handler[h].draft
    IN  Confirming(h) =>
            /\ d.id \in 1..opened /\ handler[h].seen = Basis(d)
            /\ handler[h].phase = "saved" => Operation(d.id) # {}
            /\ d.id \notin faulted =>
                   /\ lock = h /\ ~Canceled(answers, d.id)
                   /\ d.id \in DOMAIN newest /\ newest[d.id] = Basis(d)

(* The form that the lock's holder has booked, before it is cleared.          *)
BeingSaved(l, H, f) == l \in Handlers /\ H[l].phase = "saved" /\ H[l].draft.id = f

(* The entry i of a form shows what the form's last screen showed, and the    *)
(* form is not there any more or its handler, which clears it, holds the lock.*)
EntryOf(i) ==
    LET f == transactions[i].form
    IN  f # NoForm =>
            /\ f \in 1..opened
            /\ f \notin faulted =>
                   /\ f \in DOMAIN newest /\ Basis(Original(i)) = newest[f]
                   /\ ~Canceled(answers, f)
                   /\ form.id = f => BeingSaved(lock, handler, f)

ConfirmsNow(e) == e.kind = "button" /\ e.action = "confirm" /\ e.live

HasEvent(s) == "event" \in DOMAIN s /\ (s.event.kind = "button" => "live" \in DOMAIN s.event)

(* A Confirm that is still live, if the form is still there, belongs to the   *)
(* form's present screen.                                                     *)
TapOf(h) ==
    handler[h].phase = "context" =>
        /\ HasEvent(handler[h])
        /\ ConfirmsNow(handler[h].event) /\ form.id # NoForm /\ form.step = "confirmation"
           => handler[h].event.seen = Basis(form)

TapInv == \A h \in Handlers : TapOf(h)

HandlerInv ==
    /\ DOMAIN handler = Handlers
    /\ \A h \in Handlers : "phase" \in DOMAIN handler[h]
    /\ lock # NoHandler => lock \in Handlers /\ Confirming(lock)
    /\ \A h \in Handlers : ConfirmationOf(h)

DraftInv ==
    /\ opened \in Nat /\ form.id \in 0..opened /\ IsDraft(form)
    /\ form.step = "confirmation" =>
           form.id # NoForm /\ form.id \in DOMAIN newest /\ newest[form.id] = Basis(form)
    /\ form.id # NoForm => ~Canceled(answers, form.id)

AnswerInv ==
    /\ answers \subseteq (0..opened) \X {"saved", "canceled"}
    /\ \A f \in 0..opened : <<f, "saved">> \in answers => Operation(f) # {}
    /\ mismatched \subseteq faulted \cup {NoForm}

OutcomeInv ==
    /\ HandlerInv /\ TapInv /\ DraftInv /\ AnswerInv
    /\ \A i \in DOMAIN transactions : EntryOf(i)

(* What a step that books no form does to the forms of the rows.              *)
FormsKept ==
    /\ \A i \in DOMAIN transactions' :
           transactions'[i].form # NoForm =>
               /\ i \in DOMAIN transactions /\ transactions'[i].form = transactions[i].form
               /\ Basis(FirstOf(transactions', revisions', i))
                      = Basis(FirstOf(transactions, revisions, i))
    /\ \A f : Operation(f) # {} => Operation(f)' # {}

LEMMA OperationsStay ==
    ASSUME RowInv, StartedOrEnded \/ BooksForm
    PROVE  \A f : Operation(f) # {} => Operation(f)' # {}
<1> TAKE f
<1> HAVE Operation(f) # {}
<1>1. PICK i \in DOMAIN transactions : transactions[i].form = f
  BY DEF Operation
<1>2. i \in DOMAIN transactions' /\ transactions'[i].form = f
  BY <1>1, FormsStay
<1>3. QED
  BY <1>2 DEF Operation

LEMMA StepKeepsForms ==
    ASSUME RowInv, StartedOrEnded
    PROVE  FormsKept
<1>1. \A f : Operation(f) # {} => Operation(f)' # {}
  BY OperationsStay
<1>2. Follows(transactions, revisions, transactions', revisions')
  BY RowsSucceed DEF Succeeds
<1>3. ASSUME NEW i \in DOMAIN transactions', transactions'[i].form # NoForm
      PROVE  i \in DOMAIN transactions
  <2>1. CASE Proceeds \/ EditsRow \/ RemovesCategory
    BY <2>1, OthersKeepRows
  <2>2. CASE BooksWeb
    <3>1. PICK row : Books(NoForm, row)
      BY <2>2 DEF BooksWeb
    <3>2. row.form = NoForm
      BY <3>1 DEF Books
    <3>3. PICK n : /\ DOMAIN transactions' = DOMAIN transactions \cup {n}
                   /\ transactions'[n] = row
      BY <3>1, BooksAdds
    <3>4. QED
      BY <1>3, <3>2, <3>3
  <2>3. QED
    BY <2>1, <2>2 DEF StartedOrEnded
<1>4. QED
  BY <1>1, <1>2, <1>3 DEF FormsKept, Follows

LEMMA SameKeepsForms ==
    ASSUME UNCHANGED <<transactions, revisions>>
    PROVE  FormsKept
<1>1. \A f : Operation(f)' = Operation(f)
  BY DEF Operation
<1>2. QED
  BY <1>1 DEF FormsKept

(* A handler goes on to something that is not a confirmation.                 *)
Leaves(k) == "phase" \in DOMAIN handler'[k] /\ handler'[k].phase \in {"free", "context"}

(* What it receives fits the present screen.                                  *)
Receives(k) ==
    handler'[k].phase = "context" =>
        /\ HasEvent(handler'[k])
        /\ ConfirmsNow(handler'[k].event) => form' = form /\ handler'[k].event.seen = Basis(form)

(* The lock of the confirmation of h may go: its form is faulted, or it has   *)
(* booked nothing, or the form is cleared.                                    *)
Settled(h) ==
    \/ handler[h].draft.id \in faulted'
    \/ Leaves(h) /\ (handler[h].phase = "pricing" \/ form' = NoDraft)

(* Confirmations end, and the draft stays or goes.                            *)
Settles ==
    /\ form' \in {form, NoDraft}
    /\ UNCHANGED <<newest, opened>> /\ faulted \subseteq faulted'
    /\ DOMAIN handler' = Handlers
    /\ \A k \in Handlers : handler'[k] = handler[k] \/ (Leaves(k) /\ Receives(k))
    /\ \/ lock' = lock /\ (lock # NoHandler => handler'[lock] = handler[lock])
       \/ lock' = NoHandler /\ (lock # NoHandler => Settled(lock))

(* What may be answered *)
Tells ==
    /\ \A a \in answers' \ answers :
          \/ \E f \in 0..opened : a = <<f, "saved">> /\ Operation(f) # {}
          \/ /\ a = <<form.id, "canceled">> /\ form.id # NoForm
             /\ lock = NoHandler /\ form' = NoDraft
    /\ mismatched' \subseteq mismatched \cup faulted \cup {NoForm}

LEMMA EmptyDraft ==
    NoDraft.id = NoForm /\ NoDraft.step = "kind" /\ IsDraft(NoDraft)
<1> DEFINE S == {NoForm, "kind", 0, {}, "expense", NoCategory, "RUB"}
<1>1. /\ NoDraft.id = NoForm /\ NoDraft.step = "kind"
      /\ NoDraft \in DraftsOver(S)
  BY DEF NoDraft, DraftsOver
<1>2. IsDraft(NoDraft)
  <2> HIDE DEF S
  <2>1. QED
    BY <1>1 DEF IsDraft
<1>3. QED
  BY <1>1, <1>2

LEMMA NewCanceled ==
    ASSUME Tells, NEW f, Canceled(answers', f), ~Canceled(answers, f)
    PROVE  f = form.id /\ form.id # NoForm /\ lock = NoHandler /\ form' = NoDraft
<1>1. <<f, "canceled">> \in answers' \ answers
  BY DEF Canceled
<1>2. \A g : <<f, "canceled">> # <<g, "saved">>
  OBVIOUS
<1>3. <<f, "canceled">> = <<form.id, "canceled">> /\ form.id # NoForm
      /\ lock = NoHandler /\ form' = NoDraft
  BY <1>1, <1>2 DEF Tells
<1>4. f = form.id
  BY <1>3
<1>5. QED
  BY <1>3, <1>4

LEMMA SettlesHandlers ==
    ASSUME OutcomeInv, Settles, Tells, FormsKept
    PROVE  HandlerInv'
<1>1. /\ DOMAIN handler' = Handlers
      /\ \A h \in Handlers : "phase" \in DOMAIN handler'[h]
  BY DEF OutcomeInv, HandlerInv, Settles, Leaves
<1>2. lock' # NoHandler => lock' \in Handlers /\ Confirming(lock)'
  BY DEF OutcomeInv, HandlerInv, Settles, Confirming
<1>3. ASSUME NEW h \in Handlers, Confirming(h)'
      PROVE  ConfirmationOf(h)'
  <2> DEFINE d == handler[h].draft
  <2>1. handler'[h] = handler[h] /\ Confirming(h) /\ ~Leaves(h)
    BY <1>3 DEF Settles, Leaves, Confirming
  <2>2. /\ d.id \in 1..opened /\ handler[h].seen = Basis(d)
        /\ handler[h].phase = "saved" => Operation(d.id) # {}
        /\ d.id \notin faulted =>
               /\ lock = h /\ ~Canceled(answers, d.id)
               /\ d.id \in DOMAIN newest /\ newest[d.id] = Basis(d)
    BY <2>1 DEF OutcomeInv, HandlerInv, ConfirmationOf
  <2>3. handler'[h].phase = "saved" => Operation(d.id)' # {}
    BY <2>1, <2>2 DEF FormsKept
  <2>4. ASSUME d.id \notin faulted'
        PROVE  lock' = h /\ ~Canceled(answers', d.id)
    <3>1. d.id \notin faulted
      BY <2>4 DEF Settles
    <3>2. lock = h /\ ~Canceled(answers, d.id) /\ h # NoHandler
      BY <2>2, <3>1, EntryAssumption
    <3>3. lock' = h
      BY <2>1, <2>4, <3>2 DEF Settles, Settled
    <3>4. ~Canceled(answers', d.id)
      BY <3>2, NewCanceled
    <3>5. QED
      BY <3>3, <3>4
  <2>5. d.id \notin faulted' => d.id \in DOMAIN newest' /\ newest'[d.id] = Basis(d)
    BY <2>2 DEF Settles
  <2>6. d.id \in 1..opened'
    BY <2>2 DEF Settles
  <2>7. QED
    BY <2>1, <2>2, <2>3, <2>4, <2>5, <2>6 DEF ConfirmationOf, Canceled
<1>4. \A h \in Handlers : ConfirmationOf(h)'
  BY <1>3 DEF ConfirmationOf, Confirming
<1>5. QED
  BY <1>1, <1>2, <1>4 DEF HandlerInv

LEMMA SettlesEntries ==
    ASSUME OutcomeInv, Settles, Tells, FormsKept
    PROVE  \A i \in DOMAIN transactions' : EntryOf(i)'
<1> TAKE i \in DOMAIN transactions'
<1> DEFINE f == transactions'[i].form
<1>1. SUFFICES ASSUME f # NoForm
               PROVE  /\ f \in 1..opened'
                      /\ f \notin faulted' =>
                             /\ f \in DOMAIN newest'
                             /\ Basis(FirstOf(transactions', revisions', i)) = newest'[f]
                             /\ ~Canceled(answers', f)
                             /\ form'.id = f => BeingSaved(lock', handler', f)
  BY DEF EntryOf, Original, FirstOf
<1>2. /\ i \in DOMAIN transactions /\ f = transactions[i].form
      /\ Basis(FirstOf(transactions', revisions', i))
             = Basis(FirstOf(transactions, revisions, i))
  BY <1>1 DEF FormsKept
<1>3. EntryOf(i)
  BY <1>2 DEF OutcomeInv
<1>4. /\ f \in 1..opened
      /\ f \notin faulted =>
             /\ f \in DOMAIN newest
             /\ Basis(FirstOf(transactions, revisions, i)) = newest[f]
             /\ ~Canceled(answers, f)
             /\ form.id = f => BeingSaved(lock, handler, f)
  BY <1>1, <1>2, <1>3 DEF EntryOf, Original, FirstOf
<1> HIDE DEF f
<1>5. ASSUME f \notin faulted'
      PROVE  ~Canceled(answers', f) /\ (form'.id = f => BeingSaved(lock', handler', f))
  <2>1. f \notin faulted
    BY <1>5 DEF Settles
  <2>2. BeingSaved(lock, handler, f) => lock # NoHandler
    BY EntryAssumption DEF BeingSaved
  <2>3. ~Canceled(answers', f)
    BY <1>4, <2>1, <2>2, NewCanceled
  <2>4. ASSUME form'.id = f
        PROVE  BeingSaved(lock', handler', f)
    <3>1. form' = form /\ form' # NoDraft
      BY <1>1, <2>4, EmptyDraft DEF Settles, f
    <3>2. /\ BeingSaved(lock, handler, f) /\ lock \in Handlers /\ handler[lock].phase = "saved"
          /\ handler[lock].draft.id = f
      BY <1>4, <2>1, <2>4, <3>1 DEF BeingSaved
    <3>3. ~Settled(lock)
      BY <1>5, <3>1, <3>2 DEF Settled
    <3>4. lock' = lock /\ handler'[lock] = handler[lock]
      BY <2>2, <3>2, <3>3 DEF Settles
    <3>5. QED
      BY <3>2, <3>4 DEF BeingSaved
  <2>5. QED
    BY <2>3, <2>4
<1>6. QED
  BY <1>2, <1>4, <1>5 DEF Settles

LEMMA SettlesTaps ==
    ASSUME OutcomeInv, Settles
    PROVE  TapInv'
<1>1. SUFFICES ASSUME NEW h \in Handlers PROVE TapOf(h)'
  BY DEF TapInv
<1>2. TapOf(h) /\ (handler'[h] = handler[h] \/ Receives(h))
  BY DEF OutcomeInv, TapInv, Settles
<1>3. CASE form' = NoDraft
  <2>1. handler'[h].phase = "context" => HasEvent(handler'[h])
    BY <1>2 DEF Receives, TapOf
  <2>2. form'.id = NoForm
    BY <1>3, EmptyDraft
  <2>3. QED
    BY <2>1, <2>2 DEF TapOf
<1>4. CASE form' = form /\ handler'[h] = handler[h]
  BY <1>2, <1>4 DEF TapOf
<1>5. CASE form' = form /\ Receives(h)
  BY <1>5 DEF Receives, TapOf
<1>6. QED
  BY <1>2, <1>3, <1>4, <1>5 DEF Settles

LEMMA SettlesKeeps ==
    ASSUME OutcomeInv, Settles, Tells, FormsKept
    PROVE  OutcomeInv'
<1>1. DraftInv'
  <2>1. opened' \in Nat /\ form'.id \in 0..opened' /\ IsDraft(form')
    BY EmptyDraft DEF OutcomeInv, DraftInv, Settles, NoForm
  <2>2. form'.step = "confirmation" =>
            form'.id # NoForm /\ form'.id \in DOMAIN newest' /\ newest'[form'.id] = Basis(form')
    BY EmptyDraft DEF OutcomeInv, DraftInv, Settles
  <2>3. ASSUME form'.id # NoForm PROVE ~Canceled(answers', form'.id)
    <3>1. form' = form /\ form' # NoDraft
      BY <2>3, EmptyDraft DEF Settles
    <3>2. ~Canceled(answers, form.id)
      BY <2>3, <3>1 DEF OutcomeInv, DraftInv
    <3>3. ~Canceled(answers', form.id)
      <4>1. SUFFICES ASSUME NEW f, f = form.id, Canceled(answers', f) PROVE FALSE
        BY <3>1 DEF Canceled
      <4>2. QED
        BY <3>1, <3>2, <4>1, NewCanceled
    <3>4. QED
      BY <3>1, <3>3 DEF Canceled
  <2>4. QED
    BY <2>1, <2>2, <2>3 DEF DraftInv, Canceled
<1>2. AnswerInv'
  <2>1. answers' \subseteq (0..opened') \X {"saved", "canceled"}
    <3>1. form.id \in 0..opened /\ opened' = opened
      BY DEF OutcomeInv, DraftInv, Settles
    <3>2. ASSUME NEW a \in answers' \ answers
          PROVE  a \in (0..opened) \X {"saved", "canceled"}
      BY <3>1 DEF Tells
    <3>3. QED
      BY <3>1, <3>2 DEF OutcomeInv, AnswerInv
  <2>2. ASSUME NEW f \in 0..opened', <<f, "saved">> \in answers'
        PROVE  Operation(f)' # {}
    <3>1. Operation(f) # {}
      <4>1. CASE <<f, "saved">> \in answers
        BY <4>1 DEF OutcomeInv, AnswerInv, Settles
      <4>2. CASE <<f, "saved">> \notin answers
        <5>1. \E g \in 0..opened : <<f, "saved">> = <<g, "saved">> /\ Operation(g) # {}
          BY <2>2, <4>2 DEF Tells
        <5>2. QED
          BY <5>1
      <4>3. QED
        BY <4>1, <4>2
    <3>2. QED
      BY <3>1 DEF FormsKept
  <2>3. mismatched' \subseteq faulted' \cup {NoForm}
    BY DEF OutcomeInv, AnswerInv, Tells, Settles
  <2>4. QED
    BY <2>1, <2>2, <2>3 DEF AnswerInv
<1>3. QED
  BY <1>1, <1>2, SettlesHandlers, SettlesTaps, SettlesEntries DEF OutcomeInv

-----------------------------------------------------------------------------
(* Steps that end something *)

LEMMA BecomesSettles ==
    ASSUME OutcomeInv, NEW h \in Handlers, NEW s, Becomes(h, s),
           "phase" \in DOMAIN s, s.phase \in {"free", "context"}
    PROVE  /\ DOMAIN handler' = Handlers /\ Leaves(h)
           /\ \A k \in Handlers : k # h => handler'[k] = handler[k]
  BY DEF OutcomeInv, HandlerInv, Becomes, Leaves

LEMMA FreePhase == "phase" \in DOMAIN Free /\ Free.phase = "free"
  BY DEF Free

LEMMA FreeSettles ==
    ASSUME OutcomeInv, NEW h \in Handlers, Becomes(h, Free)
    PROVE  /\ DOMAIN handler' = Handlers /\ Leaves(h) /\ Receives(h)
           /\ \A k \in Handlers : k # h => handler'[k] = handler[k]
<1>1. /\ DOMAIN handler' = Handlers /\ Leaves(h)
      /\ \A k \in Handlers : k # h => handler'[k] = handler[k]
  BY BecomesSettles, FreePhase
<1>2. handler'[h] = Free
  BY DEF Becomes, OutcomeInv, HandlerInv
<1>3. QED
  BY <1>1, <1>2, FreePhase DEF Receives

LEMMA SilentTells ==
    ASSUME UNCHANGED <<answers, mismatched>>
    PROVE  Tells
  BY DEF Tells

LEMMA LoneHandler ==
    ASSUME OutcomeInv, NEW h \in Handlers, ~Confirming(h)
    PROVE  lock # h
  BY EntryAssumption DEF OutcomeInv, HandlerInv

LEMMA ReceiveKeeps ==
    ASSUME OutcomeInv, NEW h \in Handlers, Receive(h)
    PROVE  OutcomeInv'
<1>1. /\ UNCHANGED <<transactions, revisions, form, lock, opened, newest, answers,
                     mismatched, faulted>>
      /\ handler[h] = Free
  BY DEF Receive, heard
<1>2. PICK e, m, z, offered, open :
        /\ e \in Updates /\ Shown(e)
        /\ Becomes(h, [phase |-> "context", event |-> e, month |-> m, zone |-> z,
                       offered |-> offered, open |-> open])
  BY DEF Receive
<1>3. /\ DOMAIN handler' = Handlers /\ Leaves(h)
      /\ handler'[h].event = e /\ "event" \in DOMAIN handler'[h]
      /\ \A k \in Handlers : k # h => handler'[k] = handler[k]
  <2> DEFINE s == [phase |-> "context", event |-> e, month |-> m, zone |-> z,
                   offered |-> offered, open |-> open]
  <2>1. "phase" \in DOMAIN s /\ s.phase = "context"
        /\ s.event = e /\ "event" \in DOMAIN s
    OBVIOUS
  <2> HIDE DEF s
  <2>2. Becomes(h, s)
    BY <1>2 DEF s
  <2>3. handler'[h] = s
    BY <2>2 DEF Becomes, OutcomeInv, HandlerInv
  <2>4. QED
    BY <2>1, <2>2, <2>3, BecomesSettles
<1>4. lock # h
  BY <1>1, LoneHandler, FreePhase DEF Confirming
<1>5. lock # NoHandler => lock \in Handlers
  BY DEF OutcomeInv, HandlerInv
<1>6. Receives(h)
  <2>1. e.kind = "button" => "live" \in DOMAIN e
    BY <1>2 DEF Updates
  <2>2. ConfirmsNow(e) => e.seen = Basis(form)
    BY <1>2 DEF ConfirmsNow, Shown
  <2>3. QED
    BY <1>1, <1>3, <2>1, <2>2 DEF Receives, HasEvent
<1>7. Settles
  BY <1>1, <1>3, <1>4, <1>5, <1>6 DEF Settles
<1>8. QED
  BY <1>1, <1>7, SilentTells, SameKeepsForms, SettlesKeeps

(* A handler that holds the conversation without a confirmation ends.         *)
LEMMA HandledSettles ==
    ASSUME OutcomeInv, NEW h \in Handlers, Holding(h), Becomes(h, Free),
           form' \in {form, NoDraft},
           UNCHANGED <<lock, opened, newest, faulted>>
    PROVE  Settles
<1>1. /\ DOMAIN handler' = Handlers /\ Leaves(h) /\ Receives(h)
      /\ \A k \in Handlers : k # h => handler'[k] = handler[k]
  BY FreeSettles
<1>2. lock = NoHandler
  BY DEF Holding
<1>3. QED
  BY <1>1, <1>2 DEF Settles

(* SAVED is said of a form that has been booked; it matches what was shown    *)
(* unless the form is faulted.                                                *)
LEMMA SavedTells ==
    ASSUME OutcomeInv, NEW id, NEW seen, NEW cleared, SaysSaved(id, seen, cleared),
           Operation(id) # {}, id \notin faulted \cup {NoForm} => seen = newest[id]
    PROVE  Tells
<1>1. PICK i \in DOMAIN transactions : transactions[i].form = id
  BY DEF Operation
<1>2. EntryOf(i)
  BY DEF OutcomeInv
<1>3. id \in 0..opened
  BY <1>1, <1>2 DEF OutcomeInv, DraftInv, EntryOf, NoForm
<1>4. answers' = answers \cup {<<id, "saved">>}
  BY DEF SaysSaved
<1>5. mismatched' \subseteq mismatched \cup faulted \cup {NoForm}
  <2>1. CASE id \in faulted \cup {NoForm}
    BY <2>1 DEF SaysSaved
  <2>2. CASE id \notin faulted \cup {NoForm}
    <3>1. i \in Operation(id) /\ Basis(Original(i)) = seen
      BY <1>1, <1>2, <2>2 DEF EntryOf, Operation
    <3>2. mismatched' = mismatched
      BY <3>1 DEF SaysSaved
    <3>3. QED
      BY <3>2
  <2>3. QED
    BY <2>1, <2>2
<1>6. QED
  BY <1>3, <1>4, <1>5 DEF Tells

LEMMA ReplayKeeps ==
    ASSUME OutcomeInv, NEW h \in Handlers, Replay(h)
    PROVE  OutcomeInv'
<1> DEFINE id == handler[h].event.id
<1>1. /\ SaysSaved(id, newest[id], form.id = id) /\ Operation(id) # {}
      /\ Holding(h) /\ Becomes(h, Free) /\ UNCHANGED <<lock, opened, transactions, revisions>>
  BY DEF Replay, Replays, Steady, vars, ledger
<1>2. Tells
  BY <1>1, SavedTells
<1>3. form' \in {form, NoDraft} /\ UNCHANGED <<newest, faulted>>
  BY <1>1 DEF SaysSaved
<1>4. Settles
  BY <1>1, <1>3, HandledSettles
<1>5. QED
  BY <1>1, <1>2, <1>4, SameKeepsForms, SettlesKeeps

(* A form is cleared under the lock, and at most it is said to be canceled.   *)
LEMMA ClearKeeps ==
    ASSUME OutcomeInv, NEW h \in Handlers, Holding(h), NEW said, Clear(h, said),
           said = {} \/ (said = {<<form.id, "canceled">>} /\ form.id # NoForm),
           UNCHANGED <<lock, opened, transactions, revisions>>
    PROVE  OutcomeInv'
<1>1. /\ form' = NoDraft /\ Becomes(h, Free) /\ answers' = answers \cup said
      /\ UNCHANGED <<newest, mismatched, faulted>>
  BY DEF Clear
<1>2. lock = NoHandler
  BY DEF Holding
<1>3. Tells
  BY <1>1, <1>2 DEF Tells
<1>4. Settles
  BY <1>1, HandledSettles
<1>5. QED
  BY <1>3, <1>4, SameKeepsForms, SettlesKeeps

LEMMA IgnoreKeeps ==
    ASSUME OutcomeInv, NEW h \in Handlers, Ignore(h)
    PROVE  OutcomeInv'
<1>1. /\ Holding(h) /\ Becomes(h, Free)
      /\ UNCHANGED <<form, lock, opened, transactions, revisions, newest, answers, mismatched,
                     faulted>>
  BY DEF Ignore, Steady, vars, ledger, heard
<1>2. Settles
  BY <1>1, HandledSettles
<1>3. QED
  BY <1>1, <1>2, SilentTells, SameKeepsForms, SettlesKeeps

(* A handler ends that may have held the lock.                                *)
LEMMA ReleaseSettles ==
    ASSUME OutcomeInv, NEW h \in Handlers, Becomes(h, Free), Release(h),
           form' \in {form, NoDraft}, UNCHANGED <<opened, newest>>,
           faulted \subseteq faulted',
           Confirming(h) => \/ handler[h].draft.id \in faulted' \/ handler[h].phase = "pricing"
                            \/ form' = NoDraft
    PROVE  Settles
<1>1. /\ DOMAIN handler' = Handlers /\ Leaves(h) /\ Receives(h)
      /\ \A k \in Handlers : k # h => handler'[k] = handler[k]
  BY FreeSettles
<1>2. lock # NoHandler => lock \in Handlers /\ Confirming(lock)
  BY DEF OutcomeInv, HandlerInv
<1>3. CASE lock = h
  <2>1. Settled(h)
    BY <1>1, <1>2, <1>3, EntryAssumption DEF Settled
  <2>2. lock' = NoHandler
    BY <1>3 DEF Release
  <2>3. QED
    BY <1>1, <1>3, <2>1, <2>2 DEF Settles
<1>4. CASE lock # h
  <2>1. lock' = lock
    BY <1>4 DEF Release
  <2>2. QED
    BY <1>1, <1>2, <1>4, <2>1 DEF Settles
<1>5. QED
  BY <1>3, <1>4

LEMMA LostConfirmKeeps ==
    ASSUME OutcomeInv, NEW h \in Handlers, LostConfirm(h)
    PROVE  OutcomeInv'
<1>1. /\ form' = NoDraft /\ Becomes(h, Free) /\ Release(h) /\ answers' = answers
      /\ UNCHANGED <<opened, newest, mismatched, faulted, transactions, revisions>>
  BY DEF LostConfirm, Clear, Steady, vars, ledger
<1>2. Settles
  BY <1>1, ReleaseSettles
<1>3. QED
  BY <1>1, <1>2, SilentTells, SameKeepsForms, SettlesKeeps

LEMMA FinishConfirmKeeps ==
    ASSUME OutcomeInv, NEW h \in Handlers, FinishConfirm(h)
    PROVE  OutcomeInv'
<1> DEFINE id == handler[h].draft.id
<1>1. /\ handler[h].phase = "saved" /\ SaysSaved(id, handler[h].seen, TRUE) /\ form' = NoDraft
      /\ Becomes(h, Free) /\ Release(h)
      /\ UNCHANGED <<opened, newest, faulted, transactions, revisions>>
  BY DEF FinishConfirm, SaysSaved, Steady, vars, ledger
<1>2. /\ Operation(id) # {}
      /\ id \notin faulted \cup {NoForm} => handler[h].seen = newest[id]
  BY <1>1 DEF OutcomeInv, HandlerInv, ConfirmationOf, Confirming
<1>3. Tells
  BY <1>1, <1>2, SavedTells
<1>4. Settles
  BY <1>1, ReleaseSettles
<1>5. QED
  BY <1>1, <1>3, <1>4, SameKeepsForms, SettlesKeeps

LEMMA AbandonKeeps ==
    ASSUME OutcomeInv, NEW h \in Handlers, Abandon(h)
    PROVE  OutcomeInv'
<1>1. /\ handler[h].phase \in {"context", "pricing"}
      /\ Becomes(h, Free) /\ Release(h)
      /\ UNCHANGED <<form, opened, newest, answers, mismatched, faulted, transactions,
                     revisions>>
  BY DEF Abandon, Steady, vars, ledger, heard
<1>2. Settles
  BY <1>1, ReleaseSettles DEF Confirming
<1>3. QED
  BY <1>1, <1>2, SilentTells, SameKeepsForms, SettlesKeeps

LEMMA CrashKeeps ==
    ASSUME OutcomeInv, NEW h \in Handlers, Crash(h)
    PROVE  OutcomeInv'
<1>1. /\ faulted' = faulted \cup {handler[h].draft.id} /\ Becomes(h, Free) /\ Release(h)
      /\ UNCHANGED <<form, opened, newest, answers, mismatched, transactions, revisions>>
  BY DEF Crash, vars, ledger
<1>2. Settles
  BY <1>1, ReleaseSettles
<1>3. QED
  BY <1>1, <1>2, SilentTells, SameKeepsForms, SettlesKeeps

LEMMA LockExpiresKeeps ==
    ASSUME OutcomeInv, LockExpires
    PROVE  OutcomeInv'
<1>1. /\ lock # NoHandler /\ lock' = NoHandler
      /\ faulted' = faulted \cup {handler[lock].draft.id}
      /\ UNCHANGED <<form, handler, opened, newest, answers, mismatched, transactions,
                     revisions>>
  BY DEF LockExpires, vars, ledger
<1>2. Settles
  BY <1>1 DEF OutcomeInv, HandlerInv, Settles, Settled
<1>3. QED
  BY <1>1, <1>2, SilentTells, SameKeepsForms, SettlesKeeps

LEMMA CancelCommandKeeps ==
    ASSUME OutcomeInv, CancelCommand
    PROVE  OutcomeInv'
<1>1. /\ lock = NoHandler /\ form.id # NoForm /\ form' = NoDraft
      /\ answers' = answers \cup {<<form.id, "canceled">>}
      /\ UNCHANGED <<lock, handler, opened, newest, mismatched, faulted, transactions,
                     revisions>>
  BY DEF CancelCommand, vars, ledger
<1>2. Settles
  BY <1>1 DEF OutcomeInv, HandlerInv, Settles
<1>3. Tells
  BY <1>1 DEF Tells
<1>4. QED
  BY <1>1, <1>2, <1>3, SameKeepsForms, SettlesKeeps

(* The conversation stays, or its draft is lost.                              *)
LEMMA UntouchedKeeps ==
    ASSUME OutcomeInv, FormsKept, form' \in {form, NoDraft},
           UNCHANGED <<lock, handler, opened, newest, answers, mismatched, faulted>>
    PROVE  OutcomeInv'
<1>1. Settles
  BY DEF OutcomeInv, HandlerInv, Settles
<1>2. QED
  BY <1>1, SilentTells, SettlesKeeps

-----------------------------------------------------------------------------
(* Drafts that are written *)

(* A draft with one field changed, and its step.                              *)
ToStep(d, s) == [d EXCEPT !.step = s]
WithKind(d, v, s) == [d EXCEPT !.kind = v, !.step = s]
WithCat(d, v, s) == [d EXCEPT !.cat = v, !.step = s]
WithAmount(d, v, s) == [d EXCEPT !.amount = v, !.step = s]
WithUnit(d, v, s) == [d EXCEPT !.currency = v, !.step = s]
WithDay(d, v, s) == [d EXCEPT !.at = v, !.step = s]

Changes(d, v, s) ==
    {ToStep(d, s), WithKind(d, v, s), WithCat(d, v, s), WithAmount(d, v, s),
     WithUnit(d, v, s), WithDay(d, v, s)}

LEMMA ChangedDraft ==
    ASSUME NEW d, NEW v, NEW s, IsDraft(d), NEW e \in Changes(d, v, s)
    PROVE  IsDraft(e) /\ e.id = d.id
<1>1. PICK S : d \in DraftsOver(S)
  BY DEF IsDraft
<1> DEFINE T == S \cup {v, s}
<1>2. d \in DraftsOver(T) /\ v \in T /\ s \in T
  BY <1>1 DEF DraftsOver
<1> HIDE DEF T
<1>3. /\ ToStep(d, s) \in DraftsOver(T) /\ ToStep(d, s).id = d.id
      /\ WithKind(d, v, s) \in DraftsOver(T) /\ WithKind(d, v, s).id = d.id
      /\ WithCat(d, v, s) \in DraftsOver(T) /\ WithCat(d, v, s).id = d.id
      /\ WithAmount(d, v, s) \in DraftsOver(T) /\ WithAmount(d, v, s).id = d.id
      /\ WithUnit(d, v, s) \in DraftsOver(T) /\ WithUnit(d, v, s).id = d.id
      /\ WithDay(d, v, s) \in DraftsOver(T) /\ WithDay(d, v, s).id = d.id
  BY <1>2 DEF DraftsOver, ToStep, WithKind, WithCat, WithAmount, WithUnit, WithDay
<1>4. QED
  BY <1>3 DEF IsDraft, Changes

LEMMA OpenedDraft ==
    ASSUME NEW id, NEW m, NEW offered
    PROVE  LET d == NewDraft(id, m, offered)
           IN  IsDraft(d) /\ d.id = id /\ d.step = "kind"
<1> DEFINE expires == clock + DraftTtl
           d == [NoDraft EXCEPT !.id = id, !.month = m, !.expires = expires,
                                !.offered = offered]
<1>1. PICK S : NoDraft \in DraftsOver(S)
  BY EmptyDraft DEF IsDraft
<1> DEFINE T == S \cup {id, m, offered, expires}
<1> HIDE DEF expires
<1>2. /\ NoDraft \in DraftsOver(T) /\ id \in T /\ m \in T /\ offered \in T /\ expires \in T
  BY <1>1 DEF DraftsOver
<1> HIDE DEF T
<1>3. d \in DraftsOver(T) /\ d.id = id /\ d.step = NoDraft.step
  BY <1>2 DEF DraftsOver
<1>4. QED
  <2> HIDE DEF d
  <2>1. IsDraft(d) /\ d.id = id /\ d.step = "kind"
    BY <1>3, EmptyDraft DEF IsDraft
  <2>2. QED
    BY <2>1 DEF NewDraft, d, expires

(* What a choice or a text makes of a draft keeps the form.                   *)
LEMMA OfferedDraft ==
    ASSUME NEW open, NEW d \in Offers(form, open), IsDraft(form)
    PROVE  IsDraft(d) /\ d.id = form.id
<1>1. CASE form.step = "kind"
  <2>1. PICK k : d = WithKind(form, k, "category")
    BY <1>1 DEF Offers, WithKind
  <2>2. d \in Changes(form, k, "category")
    BY <2>1 DEF Changes
  <2>3. QED
    BY <2>2, ChangedDraft
<1>2. CASE form.step = "category"
  <2>1. PICK c : d = WithCat(form, c, "amount")
    BY <1>2 DEF Offers, WithCat
  <2>2. d \in Changes(form, c, "amount")
    BY <2>1 DEF Changes
  <2>3. QED
    BY <2>2, ChangedDraft
<1>3. CASE form.step = "currency"
  <2>1. PICK c : d = WithUnit(form, c, "date")
    BY <1>3 DEF Offers, WithUnit
  <2>2. d \in Changes(form, c, "date")
    BY <2>1 DEF Changes
  <2>3. QED
    BY <2>2, ChangedDraft
<1>4. CASE form.step = "date"
  <2>1. \/ d = WithDay(form, clock, "description")
        \/ d = ToStep(form, "date_input")
    BY <1>4 DEF Offers, WithDay, ToStep
  <2>2. d \in Changes(form, clock, "description") \cup Changes(form, clock, "date_input")
    BY <2>1 DEF Changes
  <2>3. QED
    BY <2>2, ChangedDraft
<1>5. CASE form.step = "description"
  <2>1. d = ToStep(form, "confirmation")
    BY <1>5 DEF Offers, ToStep
  <2>2. d \in Changes(form, 0, "confirmation")
    BY <2>1 DEF Changes
  <2>3. QED
    BY <2>2, ChangedDraft
<1>6. CASE form.step \notin {"kind", "category", "currency", "date", "description"}
  BY <1>6 DEF Offers
<1>7. QED
  BY <1>1, <1>2, <1>3, <1>4, <1>5, <1>6

LEMMA TypedDraft ==
    ASSUME NEW z, NEW d \in Inputs(form, z), IsDraft(form)
    PROVE  IsDraft(d) /\ d.id = form.id
<1>1. CASE form.step = "amount"
  <2>1. PICK a : d = WithAmount(form, a, "currency")
    BY <1>1 DEF Inputs, WithAmount
  <2>2. d \in Changes(form, a, "currency")
    BY <2>1 DEF Changes
  <2>3. QED
    BY <2>2, ChangedDraft
<1>2. CASE form.step = "date_input"
  <2>1. PICK day : d = WithDay(form, day, "description")
    BY <1>2 DEF Inputs, WithDay
  <2>2. d \in Changes(form, day, "description")
    BY <2>1 DEF Changes
  <2>3. QED
    BY <2>2, ChangedDraft
<1>3. CASE form.step = "description"
  <2>1. d = ToStep(form, "confirmation")
    BY <1>3 DEF Inputs, ToStep
  <2>2. d \in Changes(form, 0, "confirmation")
    BY <2>1 DEF Changes
  <2>3. QED
    BY <2>2, ChangedDraft
<1>4. CASE form.step \notin {"amount", "date_input", "description"}
  BY <1>4 DEF Inputs
<1>5. QED
  BY <1>1, <1>2, <1>3, <1>4

LEMMA WriteHandlers ==
    ASSUME OutcomeInv, NEW h \in Handlers, Holding(h), NEW d, Write(h, d)
    PROVE  /\ DOMAIN handler' = Handlers
           /\ \A k \in Handlers : "phase" \in DOMAIN handler'[k]
           /\ \A k \in Handlers : handler'[k] = handler[k] \/ ~Confirming(k)'
<1>1. \A k \in Handlers : "phase" \in DOMAIN handler[k]
  BY DEF OutcomeInv, HandlerInv
<1>2. DOMAIN handler' = Handlers
  BY DEF Write
<1>3. ASSUME NEW k \in Handlers
      PROVE  "phase" \in DOMAIN handler'[k] /\ (handler'[k] = handler[k] \/ ~Confirming(k)')
  <2>1. CASE k = h
    <3>1. handler'[k] = Free
      BY <2>1 DEF Write
    <3>2. QED
      BY <3>1, FreePhase DEF Confirming
  <2>2. CASE k # h /\ handler[k].phase = "context" /\ handler[k].event.kind = "button"
    <3>1. handler'[k] = [handler[k] EXCEPT !.event.live = FALSE]
      BY <2>2 DEF Write
    <3>2. DOMAIN handler'[k] = DOMAIN handler[k] /\ handler'[k].phase = handler[k].phase
      BY <1>1, <3>1
    <3>3. QED
      BY <1>1, <2>2, <3>2 DEF Confirming
  <2>3. CASE k # h /\ ~(handler[k].phase = "context" /\ handler[k].event.kind = "button")
    <3>1. handler'[k] = handler[k]
      BY <2>3 DEF Write
    <3>2. QED
      BY <1>1, <3>1
  <2>4. QED
    BY <2>1, <2>2, <2>3
<1>4. QED
  BY <1>2, <1>3

LEMMA TapEnds ==
    ASSUME NEW s, HasEvent(s), s.event.kind = "button",
           NEW t, t = [s EXCEPT !.event.live = FALSE]
    PROVE  HasEvent(t) /\ ~t.event.live
<1>1. PICK e : e = s.event
  OBVIOUS
<1>2. PICK dead : dead = [e EXCEPT !.live = FALSE]
  OBVIOUS
<1>3. "live" \in DOMAIN e /\ "event" \in DOMAIN s
  BY <1>1 DEF HasEvent
<1>4. DOMAIN dead = DOMAIN e /\ dead.live = FALSE
  BY <1>2, <1>3
<1>5. t = [s EXCEPT !.event = dead]
  BY <1>1, <1>2
<1>6. t.event = dead /\ DOMAIN t = DOMAIN s
  BY <1>3, <1>5
<1>7. QED
  BY <1>3, <1>4, <1>6 DEF HasEvent

(* After a draft has been written no button is live that was tapped before.   *)
LEMMA WriteTaps ==
    ASSUME OutcomeInv, NEW h \in Handlers, NEW d, Write(h, d)
    PROVE  TapInv'
<1>1. ASSUME NEW k \in Handlers, handler'[k].phase = "context"
      PROVE  HasEvent(handler'[k]) /\ ~ConfirmsNow(handler'[k].event)
  <2>1. k # h
    BY <1>1, FreePhase DEF Write
  <2>2. TapOf(k)
    BY DEF OutcomeInv, TapInv
  <2>3. CASE handler[k].phase = "context" /\ handler[k].event.kind = "button"
    <3>1. handler'[k] = [handler[k] EXCEPT !.event.live = FALSE]
      BY <2>1, <2>3 DEF Write
    <3>2. HasEvent(handler'[k]) /\ ~handler'[k].event.live
      BY <2>2, <2>3, <3>1, TapEnds DEF TapOf
    <3>3. QED
      BY <3>2 DEF ConfirmsNow
  <2>4. CASE ~(handler[k].phase = "context" /\ handler[k].event.kind = "button")
    <3>1. handler'[k] = handler[k]
      BY <2>1, <2>4 DEF Write
    <3>2. QED
      BY <1>1, <2>2, <2>4, <3>1 DEF ConfirmsNow, TapOf
  <2>5. QED
    BY <2>3, <2>4
<1>2. QED
  BY <1>1 DEF TapInv, TapOf

(* The present form goes on to another screen, or a new form is opened.       *)
Follow(d) ==
    \/ d.id = form.id /\ form.id # NoForm /\ opened' = opened
    \/ d.id = opened + 1 /\ opened' = opened + 1 /\ d.step # "confirmation"

LEMMA WriteKeeps ==
    ASSUME OutcomeInv, NEW h \in Handlers, Holding(h), NEW d, Write(h, d), IsDraft(d),
           Follow(d), UNCHANGED <<lock, transactions, revisions>>
    PROVE  OutcomeInv'
<1>1. /\ form' = d /\ UNCHANGED <<answers, mismatched, faulted>>
      /\ lock = NoHandler /\ lock' = NoHandler
  BY DEF Write, Holding
<1>2. /\ opened \in Nat /\ opened' \in Nat /\ opened <= opened'
      /\ d.id \in 1..opened' /\ form.id \in 0..opened
  BY DEF OutcomeInv, DraftInv, Follow, NoForm
<1>3. ~Canceled(answers, d.id)
  <2>1. CASE d.id = form.id /\ form.id # NoForm
    BY <2>1 DEF OutcomeInv, DraftInv
  <2>2. CASE d.id = opened + 1
    <3>1. d.id \notin 0..opened
      BY <1>2, <2>2
    <3>2. QED
      BY <3>1 DEF OutcomeInv, AnswerInv, Canceled
  <2>3. QED
    BY <2>1, <2>2 DEF Follow
<1>4. /\ d.step = "confirmation" => d.id \in DOMAIN newest' /\ newest'[d.id] = Basis(d)
      /\ d.step # "confirmation" => newest' = newest
      /\ \A f \in DOMAIN newest : f # d.id => f \in DOMAIN newest' /\ newest'[f] = newest[f]
  BY DEF Write
<1>5. DraftInv'
  BY <1>1, <1>2, <1>3, <1>4 DEF DraftInv, NoForm
<1>6. \A f : Operation(f)' = Operation(f)
  BY DEF Operation
<1>7. AnswerInv'
  <2>1. 0..opened \subseteq 0..opened'
    BY <1>2
  <2>2. \A f \in 0..opened' : <<f, "saved">> \in answers => f \in 0..opened
    BY DEF OutcomeInv, AnswerInv
  <2>3. QED
    BY <1>1, <1>6, <2>1, <2>2 DEF OutcomeInv, AnswerInv
<1>8. ASSUME NEW i \in DOMAIN transactions'
      PROVE  EntryOf(i)'
  <2> DEFINE f == transactions[i].form
  <2>1. i \in DOMAIN transactions /\ EntryOf(i)
    BY <1>8 DEF OutcomeInv
  <2>2. ASSUME f # NoForm, f \notin faulted
        PROVE  f # d.id /\ f \in 1..opened
    <3>1. f \in 1..opened /\ form.id # f
      BY <1>1, <2>1, <2>2, EntryAssumption DEF EntryOf, BeingSaved
    <3>2. QED
      BY <1>2, <3>1 DEF Follow
  <2>3. f # NoForm => f \in 1..opened'
    BY <1>2, <2>1 DEF EntryOf
  <2>4. QED
    BY <1>1, <1>4, <2>1, <2>2, <2>3 DEF EntryOf, Original
<1>9. HandlerInv'
  <2>1. ASSUME NEW k \in Handlers, Confirming(k)'
        PROVE  ConfirmationOf(k)'
    <3>1. handler'[k] = handler[k] /\ Confirming(k)
      BY <2>1, WriteHandlers DEF Confirming
    <3>2. /\ handler[k].draft.id \in 1..opened
          /\ handler[k].seen = Basis(handler[k].draft)
          /\ handler[k].phase = "saved" => Operation(handler[k].draft.id) # {}
          /\ handler[k].draft.id \in faulted
      BY <1>1, <3>1, EntryAssumption DEF OutcomeInv, HandlerInv, ConfirmationOf
    <3>3. Operation(handler[k].draft.id)' = Operation(handler[k].draft.id)
      BY <3>1 DEF Operation
    <3>4. handler[k].draft.id \in 1..opened'
      BY <1>2, <3>2
    <3>5. QED
      BY <1>1, <3>1, <3>2, <3>3, <3>4 DEF ConfirmationOf
  <2>2. \A k \in Handlers : ConfirmationOf(k)'
    BY <2>1 DEF ConfirmationOf, Confirming
  <2>3. QED
    BY <1>1, <2>2, WriteHandlers DEF HandlerInv
<1>10. QED
  BY <1>5, <1>7, <1>8, <1>9, WriteTaps DEF OutcomeInv

LEMMA StepKeeps ==
    ASSUME OutcomeInv, NEW h \in Handlers, Holding(h), form.id # NoForm,
           NEW drafts, Step(h, drafts), \A d \in drafts : IsDraft(d) /\ d.id = form.id
    PROVE  OutcomeInv'
<1>1. UNCHANGED <<lock, opened, transactions, revisions>>
  BY DEF Step, Steady, vars, ledger
<1>2. PICK d \in drafts : IF Selectable(h, d) THEN Write(h, d) ELSE Clear(h, {})
  BY DEF Step
<1>3. CASE Selectable(h, d)
  BY <1>1, <1>2, <1>3, WriteKeeps DEF Follow
<1>4. CASE ~Selectable(h, d)
  BY <1>1, <1>2, <1>4, ClearKeeps
<1>5. QED
  BY <1>3, <1>4

LEMMA ScreenKeeps ==
    ASSUME OutcomeInv, NEW h \in Handlers, Press(h) \/ Back(h) \/ Type(h) \/ ShowAgain(h)
    PROVE  OutcomeInv'
<1>1. Holding(h) /\ form.id # NoForm /\ IsDraft(form)
  BY DEF Press, Back, Type, ShowAgain, Pressed, CurrentDraft, OutcomeInv, DraftInv
<1>2. CASE Press(h)
  BY <1>1, <1>2, OfferedDraft, StepKeeps DEF Press
<1>3. CASE Back(h)
  <2> DEFINE d == ToStep(form, Before(form.step))
  <2>1. Step(h, {d})
    BY <1>3 DEF Back, ToStep
  <2>2. d \in Changes(form, 0, Before(form.step))
    BY DEF Changes
  <2>3. IsDraft(d) /\ d.id = form.id
    BY <1>1, <2>2, ChangedDraft
  <2>4. QED
    BY <1>1, <2>1, <2>3, StepKeeps
<1>4. CASE Type(h)
  BY <1>1, <1>4, TypedDraft, StepKeeps DEF Type
<1>5. CASE ShowAgain(h)
  BY <1>1, <1>5, StepKeeps DEF ShowAgain
<1>6. QED
  BY <1>2, <1>3, <1>4, <1>5

LEMMA OpenFormKeeps ==
    ASSUME OutcomeInv, NEW h \in Handlers, OpenForm(h)
    PROVE  OutcomeInv'
<1> DEFINE d == NewDraft(opened', handler[h].month, handler[h].offered)
<1>1. /\ Holding(h) /\ Write(h, d) /\ opened' = opened + 1
      /\ UNCHANGED <<lock, transactions, revisions>>
  BY DEF OpenForm, vars, ledger
<1>2. IsDraft(d) /\ d.id = opened' /\ d.step = "kind"
  BY OpenedDraft
<1> HIDE DEF d
<1>3. QED
  BY <1>1, <1>2, WriteKeeps DEF Follow

-----------------------------------------------------------------------------
(* Confirming a form *)

(* A handler begins to confirm the draft it finds, and takes the lock.        *)
LEMMA StartConfirmKeeps ==
    ASSUME OutcomeInv, NEW h \in Handlers, StartConfirm(h)
    PROVE  OutcomeInv'
<1>1. PICK rate : Becomes(h, [phase |-> "pricing", draft |-> form,
                              seen |-> handler[h].event.seen, rate |-> rate])
  BY DEF StartConfirm
<1> DEFINE s == [phase |-> "pricing", draft |-> form, seen |-> handler[h].event.seen,
                 rate |-> rate]
<1>2. /\ "phase" \in DOMAIN s /\ s.phase = "pricing" /\ s.draft = form
      /\ s.seen = handler[h].event.seen
  OBVIOUS
<1> HIDE DEF s
<1>3. /\ DOMAIN handler' = Handlers /\ handler'[h] = s
      /\ \A k \in Handlers : k # h => handler'[k] = handler[k]
  BY <1>1 DEF OutcomeInv, HandlerInv, Becomes, s
<1>4. /\ lock = NoHandler /\ lock' = h
      /\ UNCHANGED <<form, opened, newest, answers, mismatched, faulted, transactions,
                     revisions>>
      /\ form.step = "confirmation" /\ form.id # NoForm
  BY DEF StartConfirm, Confirmable, Pressed, Holding, CurrentDraft, Steady, vars, ledger, heard
<1>5. \A f : Operation(f)' = Operation(f)
  BY <1>4 DEF Operation
<1>6. DraftInv' /\ AnswerInv'
  BY <1>4, <1>5 DEF OutcomeInv, DraftInv, AnswerInv
<1>7. ASSUME NEW i \in DOMAIN transactions'
      PROVE  EntryOf(i)'
  <2>1. i \in DOMAIN transactions /\ EntryOf(i)
    BY <1>4, <1>7 DEF OutcomeInv
  <2>2. ~BeingSaved(lock, handler, transactions[i].form)
    BY <1>4, EntryAssumption DEF BeingSaved
  <2>3. QED
    BY <1>4, <2>1, <2>2 DEF EntryOf, Original
<1>8. ConfirmationOf(h)'
  <2>1. /\ form.id \in 1..opened /\ ~Canceled(answers, form.id)
        /\ form.id \in DOMAIN newest /\ newest[form.id] = Basis(form)
    BY <1>4 DEF OutcomeInv, DraftInv, NoForm
  <2>2. /\ handler'[h].phase = "pricing" /\ handler'[h].draft = form
        /\ handler'[h].seen = handler[h].event.seen
    BY <1>2, <1>3
  <2>3. handler[h].event.seen = Basis(form)
    <3>1. /\ handler[h].phase = "context" /\ handler[h].event.kind = "button"
          /\ handler[h].event.action = "confirm" /\ handler[h].event.live
      BY DEF StartConfirm, Confirmable, Pressed, Holding, Matches
    <3>2. QED
      BY <1>4, <3>1 DEF OutcomeInv, TapInv, TapOf, ConfirmsNow
  <2>4. QED
    BY <1>4, <2>1, <2>2, <2>3 DEF ConfirmationOf
<1>9. ASSUME NEW k \in Handlers, k # h
      PROVE  ConfirmationOf(k)'
  <2>1. handler'[k] = handler[k] /\ ConfirmationOf(k) /\ lock # k
    BY <1>3, <1>4, <1>9, EntryAssumption DEF OutcomeInv, HandlerInv
  <2>2. QED
    BY <1>4, <1>5, <2>1 DEF ConfirmationOf, Confirming, Operation
<1>10. HandlerInv'
  <2>1. \A k \in Handlers : "phase" \in DOMAIN handler'[k]
    BY <1>2, <1>3 DEF OutcomeInv, HandlerInv
  <2>2. Confirming(lock)'
    BY <1>2, <1>3, <1>4 DEF Confirming
  <2>3. QED
    BY <1>3, <1>4, <1>8, <1>9, <2>1, <2>2 DEF HandlerInv
<1>11. TapInv'
  <2>1. ASSUME NEW k \in Handlers PROVE TapOf(k)'
    BY <1>2, <1>3, <1>4 DEF OutcomeInv, TapInv, TapOf
  <2>2. QED
    BY <2>1 DEF TapInv
<1>12. QED
  BY <1>6, <1>7, <1>10, <1>11 DEF OutcomeInv

(* The handler h has found or booked the operation of its form: every other   *)
(* confirmation and every entry stays as it is.                               *)
Saves(h) ==
    /\ handler[h].phase = "pricing"
    /\ Becomes(h, [phase |-> "saved", draft |-> handler[h].draft, seen |-> handler[h].seen])
    /\ UNCHANGED <<form, lock, opened, newest, answers, mismatched, faulted>>

LEMMA SavesHandlers ==
    ASSUME OutcomeInv, NEW h \in Handlers, Saves(h),
           \A f : Operation(f) # {} => Operation(f)' # {},
           NEW id, id = handler[h].draft.id, Operation(id)' # {}
    PROVE  /\ HandlerInv' /\ TapInv' /\ DraftInv' /\ AnswerInv'
           /\ handler'[h].phase = "saved" /\ handler'[h].draft = handler[h].draft
           /\ \A k \in Handlers : k # h => handler'[k] = handler[k]
<1> DEFINE s == [phase |-> "saved", draft |-> handler[h].draft, seen |-> handler[h].seen]
           d == handler[h].draft
<1>1. "phase" \in DOMAIN s /\ s.phase = "saved" /\ s.draft = d /\ s.seen = handler[h].seen
  OBVIOUS
<1> HIDE DEF s
<1>2. /\ DOMAIN handler' = Handlers /\ handler'[h] = s
      /\ \A k \in Handlers : k # h => handler'[k] = handler[k]
  BY DEF OutcomeInv, HandlerInv, Saves, Becomes, s
<1>3. handler'[h].phase = "saved" /\ handler'[h].draft = d
  BY <1>1, <1>2
<1>4. DraftInv' /\ AnswerInv'
  BY DEF OutcomeInv, DraftInv, AnswerInv, Saves
<1>5. ConfirmationOf(h)'
  <2>1. /\ d.id \in 1..opened /\ handler[h].seen = Basis(d)
        /\ d.id \notin faulted =>
               /\ lock = h /\ ~Canceled(answers, d.id)
               /\ d.id \in DOMAIN newest /\ newest[d.id] = Basis(d)
    BY DEF OutcomeInv, HandlerInv, ConfirmationOf, Confirming, Saves
  <2>2. Operation(handler[h].draft.id)' # {}
    BY <1>3 DEF Operation
  <2>3. QED
    BY <1>1, <1>2, <1>3, <2>1, <2>2 DEF ConfirmationOf, Saves
<1>6. ASSUME NEW k \in Handlers, k # h
      PROVE  ConfirmationOf(k)'
  <2>1. handler'[k] = handler[k] /\ ConfirmationOf(k)
    BY <1>2, <1>6 DEF OutcomeInv, HandlerInv
  <2>2. Operation(handler[k].draft.id) # {} => Operation(handler[k].draft.id)' # {}
    BY <2>1 DEF Operation
  <2>3. QED
    BY <2>1, <2>2 DEF ConfirmationOf, Confirming, Saves
<1>7. HandlerInv'
  <2>1. \A k \in Handlers : "phase" \in DOMAIN handler'[k]
    BY <1>1, <1>2 DEF OutcomeInv, HandlerInv
  <2>2. lock' # NoHandler => lock' \in Handlers /\ Confirming(lock)'
    BY <1>2, <1>3 DEF OutcomeInv, HandlerInv, Confirming, Saves
  <2>3. QED
    BY <1>2, <1>5, <1>6, <2>1, <2>2 DEF HandlerInv
<1>8. TapInv'
  <2>1. ASSUME NEW k \in Handlers PROVE TapOf(k)'
    BY <1>2, <1>3 DEF OutcomeInv, TapInv, TapOf, Saves
  <2>2. QED
    BY <2>1 DEF TapInv
<1>9. QED
  BY <1>2, <1>3, <1>4, <1>7, <1>8

(* An entry that is there keeps its place beside the handler that goes on.    *)
LEMMA SavesEntry ==
    ASSUME OutcomeInv, NEW h \in Handlers, Saves(h),
           \A k \in Handlers : k # h => handler'[k] = handler[k],
           NEW i \in DOMAIN transactions, NEW f, f = transactions[i].form, f # NoForm
    PROVE  /\ f \in 1..opened
           /\ f \notin faulted =>
                  /\ f \in DOMAIN newest /\ Basis(Original(i)) = newest[f]
                  /\ ~Canceled(answers, f)
                  /\ form.id = f => BeingSaved(lock, handler', f)
<1>1. EntryOf(i)
  BY DEF OutcomeInv
<1>2. BeingSaved(lock, handler, f) => BeingSaved(lock, handler', f)
  BY DEF BeingSaved, Saves
<1>3. QED
  BY <1>1, <1>2 DEF EntryOf

LEMMA FoundConfirmedKeeps ==
    ASSUME OutcomeInv, NEW h \in Handlers, FoundConfirmed(h)
    PROVE  OutcomeInv'
<1>1. /\ Saves(h) /\ Operation(handler[h].draft.id) # {}
      /\ UNCHANGED <<transactions, revisions>>
  BY DEF FoundConfirmed, Saves, Existing, Steady, vars, ledger, heard
<1>2. \A f : Operation(f)' = Operation(f)
  BY <1>1 DEF Operation
<1>3. PICK id : id = handler[h].draft.id
  OBVIOUS
<1>4. Operation(id)' # {}
  BY <1>1, <1>2, <1>3
<1>5. /\ HandlerInv' /\ TapInv' /\ DraftInv' /\ AnswerInv'
      /\ \A k \in Handlers : k # h => handler'[k] = handler[k]
  BY <1>1, <1>2, <1>3, <1>4, SavesHandlers
<1>6. ASSUME NEW i \in DOMAIN transactions'
      PROVE  EntryOf(i)'
  <2>1. i \in DOMAIN transactions
    BY <1>1, <1>6
  <2> DEFINE f == transactions[i].form
  <2>2. f # NoForm =>
            /\ f \in 1..opened
            /\ f \notin faulted =>
                   /\ f \in DOMAIN newest /\ Basis(Original(i)) = newest[f]
                   /\ ~Canceled(answers, f)
                   /\ form.id = f => BeingSaved(lock, handler', f)
    BY <1>1, <1>5, <2>1, SavesEntry
  <2>3. QED
    BY <1>1, <2>2 DEF EntryOf, Original, Saves
<1>7. QED
  BY <1>5, <1>6 DEF OutcomeInv

LEMMA CommitConfirmKeeps ==
    ASSUME RowInv, OutcomeInv, NEW h \in Handlers, CommitConfirm(h)
    PROVE  OutcomeInv'
<1> DEFINE d == handler[h].draft
           row == Entered(d, d.month, handler[h].rate, clock, d.id)
<1>1. /\ Saves(h) /\ Books(d.id, row)
  BY RecordBooks DEF CommitConfirm, Saves, heard
<1>2. row.form = d.id /\ Basis(row) = Basis(d)
  BY EnteredRow
<1> HIDE DEF row
<1>3. /\ NextId \notin DOMAIN transactions
      /\ DOMAIN transactions' = DOMAIN transactions \cup {NextId}
      /\ transactions'[NextId] = row
      /\ FirstOf(transactions', revisions', NextId) = row
  BY <1>1, BooksAdds
<1>4. Follows(transactions, revisions, transactions', revisions') /\ BooksForm
  <2>1. BooksForm
    BY FormStep
  <2>2. QED
    BY <2>1, RowsSucceed DEF Succeeds
<1>5. PICK id : id = d.id
  OBVIOUS
<1>6. Operation(id)' # {}
  BY <1>2, <1>3, <1>5 DEF Operation
<1>7. \A f : Operation(f) # {} => Operation(f)' # {}
  BY <1>4, OperationsStay
<1>8. /\ HandlerInv' /\ TapInv' /\ DraftInv' /\ AnswerInv'
      /\ handler'[h].phase = "saved" /\ handler'[h].draft = d
      /\ \A k \in Handlers : k # h => handler'[k] = handler[k]
  BY <1>1, <1>5, <1>6, <1>7, SavesHandlers
<1>9. /\ d.id \in 1..opened
      /\ d.id \notin faulted =>
             /\ lock = h /\ ~Canceled(answers, d.id)
             /\ d.id \in DOMAIN newest /\ newest[d.id] = Basis(d)
  BY <1>1 DEF OutcomeInv, HandlerInv, ConfirmationOf, Confirming, Saves
<1>10. ASSUME NEW i \in DOMAIN transactions', NEW f, f = transactions'[i].form, f # NoForm
       PROVE  /\ f \in 1..opened
              /\ f \notin faulted =>
                     /\ f \in DOMAIN newest
                     /\ Basis(FirstOf(transactions', revisions', i)) = newest[f]
                     /\ ~Canceled(answers, f)
                     /\ form.id = f => BeingSaved(lock, handler', f)
  <2>1. CASE i = NextId
    <3>1. f = d.id /\ Basis(FirstOf(transactions', revisions', i)) = Basis(d)
      BY <1>2, <1>3, <1>10, <2>1
    <3>2. lock = h => BeingSaved(lock, handler', d.id)
      BY <1>8 DEF BeingSaved
    <3>3. QED
      BY <1>9, <3>1, <3>2
  <2>2. CASE i # NextId
    <3>1. /\ i \in DOMAIN transactions /\ f = transactions[i].form
          /\ Basis(FirstOf(transactions', revisions', i))
                 = Basis(FirstOf(transactions, revisions, i))
      BY <1>3, <1>4, <1>10, <2>2 DEF Follows
    <3>2. /\ f \in 1..opened
          /\ f \notin faulted =>
                 /\ f \in DOMAIN newest /\ Basis(Original(i)) = newest[f]
                 /\ ~Canceled(answers, f)
                 /\ form.id = f => BeingSaved(lock, handler', f)
      BY <1>1, <1>8, <1>10, <3>1, SavesEntry
    <3>3. QED
      BY <3>1, <3>2 DEF Original, FirstOf
  <2>3. QED
    BY <2>1, <2>2
<1>11. ASSUME NEW i \in DOMAIN transactions'
       PROVE  EntryOf(i)'
  BY <1>1, <1>10 DEF EntryOf, Original, FirstOf, Saves
<1>12. QED
  BY <1>8, <1>11 DEF OutcomeInv

-----------------------------------------------------------------------------
(* Every step *)

LEMMA HandledKeeps ==
    ASSUME RowInv, OutcomeInv, NEW h \in Handlers, Handled(h)
    PROVE  OutcomeInv'
<1>1. CASE Outdated(h) \/ ChooseGone(h) \/ ConfirmStale(h)
  <2>1. Holding(h) /\ Clear(h, {})
    BY <1>1 DEF Outdated, ChooseGone, ConfirmStale, Confirmable, Pressed
  <2>2. UNCHANGED <<lock, opened, transactions, revisions>>
    BY <1>1 DEF Outdated, ChooseGone, ConfirmStale, Steady, vars, ledger
  <2>3. QED
    BY <2>1, <2>2, ClearKeeps
<1>2. CASE Cancel(h)
  <2>1. /\ Holding(h) /\ Clear(h, {<<form.id, "canceled">>}) /\ form.id # NoForm
        /\ UNCHANGED <<lock, opened, transactions, revisions>>
    BY <1>2 DEF Cancel, Pressed, CurrentDraft, Steady, vars, ledger
  <2>2. QED
    BY <2>1, ClearKeeps
<1>3. QED
  BY <1>1, <1>2, ReceiveKeeps, ReplayKeeps, OpenFormKeeps, ScreenKeeps, IgnoreKeeps,
     StartConfirmKeeps, CommitConfirmKeeps, FoundConfirmedKeeps, LostConfirmKeeps,
     FinishConfirmKeeps, AbandonKeeps, CrashKeeps
     DEF Handled

LEMMA OutcomeStep ==
    ASSUME RowInv, OutcomeInv, [EntryNext]_allVars
    PROVE  OutcomeInv'
<1>1. CASE LedgerNext /\ UNCHANGED entry /\ UNCHANGED heard
  <2>1. FormsKept
    BY <1>1, LedgerStep, StepKeepsForms
  <2>2. QED
    BY <1>1, <2>1, UntouchedKeeps DEF entry, heard
<1>2. CASE Forget \/ Revoke \/ UNCHANGED allVars
  <2>1. /\ form' \in {form, NoDraft}
        /\ UNCHANGED <<lock, handler, opened, newest, answers, mismatched, faulted,
                       transactions, revisions>>
    BY <1>2 DEF Forget, Revoke, allVars, entry, heard, vars, ledger
  <2>2. QED
    BY <2>1, SameKeepsForms, UntouchedKeeps
<1>3. CASE CancelCommand
  BY <1>3, CancelCommandKeeps
<1>4. CASE LockExpires
  BY <1>4, LockExpiresKeeps
<1>5. ASSUME NEW h \in Handlers, Handled(h)
      PROVE  OutcomeInv'
  BY <1>5, HandledKeeps
<1>6. QED
  BY <1>1, <1>2, <1>3, <1>4, <1>5 DEF EntryNext

LEMMA FilledShape ==
    ASSUME NEW c, NEW amount, NEW currency, NEW day
    PROVE  LET d == FilledDraft(c, amount, currency, day)
           IN  IsDraft(d) /\ d.id = 1
<1> DEFINE new == NewDraft(1, CurrentMonth, Template)
           d == [new EXCEPT !.step = scenario.step, !.cat = c, !.amount = amount,
                            !.currency = currency, !.at = day]
<1>1. IsDraft(new) /\ new.id = 1
  BY OpenedDraft
<1> HIDE DEF new
<1>2. PICK S : new \in DraftsOver(S)
  BY <1>1 DEF IsDraft
<1> DEFINE T == S \cup {scenario.step, c, amount, currency, day}
<1>3. /\ new \in DraftsOver(T) /\ scenario.step \in T /\ c \in T /\ amount \in T
      /\ currency \in T /\ day \in T
  BY <1>2 DEF DraftsOver
<1> HIDE DEF T
<1>4. d \in DraftsOver(T) /\ d.id = new.id
  BY <1>3 DEF DraftsOver
<1>5. QED
  <2> HIDE DEF d
  <2>1. IsDraft(d) /\ d.id = 1
    BY <1>1, <1>4 DEF IsDraft
  <2>2. QED
    BY <2>1 DEF FilledDraft, d, new

LEMMA OutcomeInit ==
    ASSUME EntryInit
    PROVE  OutcomeInv
<1>1. /\ lock = NoHandler /\ handler = [h \in Handlers |-> Free]
      /\ answers = {} /\ mismatched = {} /\ faulted = {}
      /\ DOMAIN transactions = {}
  BY DEF EntryInit, Init
<1>2. HandlerInv
  BY <1>1, FreePhase DEF HandlerInv, ConfirmationOf, Confirming
<1>3. AnswerInv
  BY <1>1 DEF AnswerInv
<1>4. DraftInv
  <2>1. CASE form = NoDraft /\ opened = 0
    BY <1>1, <2>1, EmptyDraft DEF DraftInv, NoForm, Canceled
  <2>2. CASE form # NoDraft \/ opened # 0
    <3>1. /\ opened = 1 /\ newest = [f \in {1} |-> Basis(form)]
          /\ \E c \in Template \ Income, amount \in scenario.amounts,
                currency \in scenario.currencies, day \in scenario.days :
                   form = FilledDraft(c, amount, currency, day)
      BY <2>2 DEF EntryInit
    <3>2. IsDraft(form) /\ form.id = 1
      BY <3>1, FilledShape
    <3>3. 1 \in DOMAIN newest /\ newest[1] = Basis(form)
      BY <3>1
    <3>4. QED
      BY <1>1, <3>1, <3>2, <3>3 DEF DraftInv, NoForm, Canceled
  <2>3. QED
    BY <2>1, <2>2
<1>5. TapInv
  BY <1>1, FreePhase DEF TapInv, TapOf
<1>6. QED
  BY <1>1, <1>2, <1>3, <1>4, <1>5 DEF OutcomeInv

LEMMA OutcomesHold ==
    ASSUME OutcomeInv
    PROVE  FormOutcomes
<1>1. ASSUME NEW f \in 1..opened
      PROVE  /\ <<f, "saved">> \in answers => Operation(f) # {}
             /\ f \notin faulted =>
                    /\ f \notin mismatched
                    /\ ~(<<f, "canceled">> \in answers /\ Operation(f) # {})
  <2>1. f \in 0..opened /\ f # NoForm
    BY DEF OutcomeInv, DraftInv, NoForm
  <2>2. /\ <<f, "saved">> \in answers => Operation(f) # {}
        /\ f \notin faulted => f \notin mismatched
    BY <2>1 DEF OutcomeInv, AnswerInv
  <2>3. ASSUME f \notin faulted, Operation(f) # {}
        PROVE  <<f, "canceled">> \notin answers
    <3>1. PICK i \in DOMAIN transactions : transactions[i].form = f
      BY <2>3 DEF Operation
    <3>2. EntryOf(i)
      BY DEF OutcomeInv
    <3>3. QED
      BY <2>1, <2>3, <3>1, <3>2 DEF EntryOf, Canceled
  <2>4. QED
    BY <2>2, <2>3
<1>2. QED
  BY <1>1 DEF FormOutcomes

(* What the participant is told of a form stays true.  The lock serializes    *)
(* the conversation until it times out, and then, or when the draft is not    *)
(* cleared after its commit, the form counts as faulted: SAVED is true even   *)
(* of such a form, since the operation is looked up by the form's id.         *)
THEOREM FormOutcomesCorrect == EntrySpec => []FormOutcomes
<1>1. EntryInit => OutcomeInv
  BY OutcomeInit
<1>2. RowInv /\ OutcomeInv /\ [EntryNext]_allVars => OutcomeInv'
  BY OutcomeStep
<1>3. OutcomeInv => FormOutcomes
  BY OutcomesHold
<1>4. QED
  BY <1>1, <1>2, <1>3, RowsCorrect, PTL DEF EntrySpec
=============================================================================
