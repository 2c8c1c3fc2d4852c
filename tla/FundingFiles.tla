------------------------------ MODULE FundingFiles ------------------------------
(***************************************************************************)
(* The import of a funding file: a list of periods with their rates, in the   *)
(* order the file names them.  A period that starts on the same day as a      *)
(* stored one updates it, any other is created.  One transaction: what the    *)
(* service refuses of one period or rate refuses the whole file.  What is     *)
(* stored is a table, of periods each with a table of rates, by their ids.    *)
(***************************************************************************)
EXTENDS Rates

\* Key, value and both ages.
PropertyMatchKey(rate) == <<rate.kv, rate.min, rate.max>>

\* Of the entries with one key the last.
IndexBy(Key(_), list) ==
    [k \in {Key(list[i]) : i \in DOMAIN list} |-> Max({i \in DOMAIN list : Key(list[i]) = k})]

RowsOverlap(p, o) == p.from <= o.to /\ o.from <= p.to

LastId(rows) == Max({0} \cup DOMAIN rows)

---------------------------------------------------------------------------
(* The rates of a period. *)

RateChanged(stored, rate) == [stored EXCEPT !.pay = rate.pay, !.req = rate.req, !.all = rate.all] # stored

CreatePropertyOK(rate) == rate.min <= rate.max
UpdatePropertyOK(rate) == rate.min < rate.max

\* Mutant: a rate that the file names no longer stays.
KeepAll(stored, file) == {}

\* The stored rates, by id, that the file does not name.
Unseen(stored, file) ==
    LET index == IndexBy(PropertyMatchKey, stored)
        seen == {PropertyMatchKey(rate) : rate \in ToSet(file)}
    IN  {index[k] : k \in DOMAIN index \ seen}

\* What a file does to the rates stored before, whose rows it found by key: it updates
\* those it names otherwise, creates those it did not find, and deletes the unseen.
DiffProperties(stored, file) ==
    LET index == IndexBy(PropertyMatchKey, stored)
        Found(j) == PropertyMatchKey(file[j]) \in DOMAIN index
        Row(j) == index[PropertyMatchKey(file[j])]
        changing == {j \in DOMAIN file : Found(j) /\ RateChanged(stored[Row(j)], file[j])}
        Updates(i) == {j \in changing : Row(j) = i}
        created == {j \in DOMAIN file : ~Found(j)}
    IN  [ok |-> /\ \A j \in created : CreatePropertyOK(file[j])
                /\ \A j \in changing : UpdatePropertyOK(file[j]),
         rates |-> [i \in (DOMAIN stored \ Unseen(stored, file)) \cup {LastId(stored) + j : j \in created} |->
                       IF i \notin DOMAIN stored THEN file[i - LastId(stored)]
                       ELSE IF Updates(i) = {} THEN stored[i] ELSE file[Max(Updates(i))]]]

---------------------------------------------------------------------------
(* The periods. *)

ValidatePeriodNoOverlap(rows, period, self) ==
    \A i \in DOMAIN rows \ self : ~RowsOverlap(rows[i], period)

CreatePeriod(rows, period) ==
    LET filled == DiffProperties(<<>>, period.rates)
        new == LastId(rows) + 1
    IN  [ok |-> period.hours > 0 /\ ValidatePeriodNoOverlap(rows, period, {}) /\ filled.ok,
         rows |-> [i \in DOMAIN rows \cup {new} |->
                      IF i = new THEN [period EXCEPT !.rates = filled.rates] ELSE rows[i]]]

\* The period itself is written, and checked, only where it changes.
UpdatePeriodIfChanged(rows, i, period) ==
    LET written == [period EXCEPT !.rates = rows[i].rates]
        diff == DiffProperties(rows[i].rates, period.rates)
    IN  [ok |-> (written # rows[i] => ValidatePeriodNoOverlap(rows, written, {i})) /\ diff.ok,
         rows |-> [rows EXCEPT ![i] = [written EXCEPT !.rates = diff.rates]]]

\* The next period of the file; the periods are matched with those stored before.
ApplyPeriod(stored, done, period) ==
    LET index == IndexBy(LAMBDA row : row.from, stored)
    IN  IF ~done.ok THEN done
        ELSE IF period.from \in DOMAIN index THEN UpdatePeriodIfChanged(done.rows, index[period.from], period)
        ELSE CreatePeriod(done.rows, period)

\* A funding of the state that does not exist is an empty table.
ImportFile(stored, file) ==
    LET done[n \in 0..Len(file)] ==
            IF n = 0 THEN [ok |-> TRUE, rows |-> stored] ELSE ApplyPeriod(stored, done[n - 1], file[n])
    IN  done[Len(file)]
=============================================================================
