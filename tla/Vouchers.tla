------------------------------- MODULE Vouchers -------------------------------
(***************************************************************************)
(* Funding bills and the voucher numbers that link their rows to children.   *)
(* An upload stores the bill and then links the numbers it does not know to  *)
(* the one child of that name; an operator assigns and removes numbers.      *)
(***************************************************************************)
EXTENDS Persons

CONSTANTS
    Numbers,   \* voucher numbers
    Files,     \* [month, rows]: bill files, rows a sequence of [number, who]
    NoRun      \* the request runs no discovery

\* A file's rows are grouped by their number before they are stored.
ASSUME FilesAssumption ==
    \A f \in Files : \A i \in DOMAIN f.rows :
        /\ f.rows[i].number \in Numbers /\ f.rows[i].who \in Names
        /\ \A j \in DOMAIN f.rows : f.rows[i].number = f.rows[j].number => i = j

\* A row is told apart by the request that inserted it.
Voucher == [child : PersonId, by : Reqs \cup {Seeded}]
Bill == [file : Files, by : Reqs \cup {Seeded}]

ASSUME VoucherSentinel == NoRow \notin Voucher

VoucherKinds == {"upload", "deleteBill", "assign", "removeVoucher"}
VoucherRequests ==
    [kind : VoucherKinds, file : Files, person : PersonId, number : Numbers,
     row : Reqs \cup {Seeded}]    \* the id of the voucher or the bill

VARIABLES
    vouchers,    \* the row of each number
    bills,
    discovery    \* per request: the rows still to match, the one at hand and its child

voucherTables == <<vouchers, bills>>
voucherVars == <<voucherTables, discovery>>

VoucherReply(r, code) == Answer(r, code) /\ UNCHANGED voucherTables
VoucherGoto(r, stage) == Goto(r, stage) /\ UNCHANGED voucherTables

Free(n) == vouchers[n] = NoRow
Rows(r) == q[r].file.rows

---------------------------------------------------------------------------
(* Upload. *)

SameFile(r) == \E b \in bills : b.file = q[r].file
SameMonth(r) == \E b \in bills : b.file.month = q[r].file.month

FindHash(r) ==
    /\ pc[r] = "upload" /\ UNCHANGED discovery
    /\ IF SameFile(r) THEN VoucherReply(r, "conflict") ELSE VoucherGoto(r, "findMonth")

FindMonth(r) ==
    /\ pc[r] = "findMonth" /\ UNCHANGED discovery
    /\ IF SameMonth(r) THEN VoucherReply(r, "conflict") ELSE VoucherGoto(r, "storeBill")

\* The unique indexes; their violation is not mapped to a 409.
StoreBill(r) ==
    /\ pc[r] = "storeBill" /\ UNCHANGED discovery
    /\ IF SameMonth(r) THEN VoucherReply(r, "error")
       ELSE /\ bills' = bills \cup {[file |-> q[r].file, by |-> r]}
            /\ Goto(r, "knownVouchers") /\ UNCHANGED vouchers

\* Rows whose number is unknown, one after the other.
KnownVouchers(r) ==
    /\ pc[r] = "knownVouchers" /\ VoucherGoto(r, "discover")
    /\ discovery' = [discovery EXCEPT ![r] =
         [left |-> {i \in DOMAIN Rows(r) : Free(Rows(r)[i].number)}, row |-> 0, child |-> NoRow]]

OnlyMatch(who) == IF Cardinality({p \in PersonId : persons[p] = who}) = 1
                  THEN CHOOSE p \in PersonId : persons[p] = who ELSE NoRow

\* A name that no child or several children have is passed over.
MatchRow(r) ==
    LET left == discovery[r].left
    IN  /\ pc[r] = "discover" /\ UNCHANGED voucherTables
        /\ \/ left = {} /\ Answer(r, "ok") /\ discovery' = [discovery EXCEPT ![r] = NoRun]
           \/ \E i \in left :
                LET match == OnlyMatch(Rows(r)[i].who)
                IN  /\ \A j \in left : i <= j
                    /\ discovery' = [discovery EXCEPT ![r] = [left |-> left \ {i}, row |-> i, child |-> match]]
                    /\ IF match = NoRow THEN UNCHANGED <<pc, resp>> ELSE Goto(r, "link")

\* ON CONFLICT DO NOTHING, and an error is only logged.
Link(r) ==
    LET d == discovery[r]
        n == Rows(r)[d.row].number
    IN  /\ pc[r] = "link" /\ Goto(r, "discover") /\ UNCHANGED <<bills, discovery>>
        /\ vouchers' = IF Free(n) /\ Found(d.child)
                       THEN [vouchers EXCEPT ![n] = [child |-> d.child, by |-> r]] ELSE vouchers

FindBill(r) ==
    /\ pc[r] = "deleteBill" /\ UNCHANGED discovery
    /\ IF [file |-> q[r].file, by |-> q[r].row] \notin bills THEN VoucherReply(r, "notFound")
       ELSE VoucherGoto(r, "dropBill")

DropBill(r) ==
    /\ pc[r] = "dropBill" /\ Answer(r, "ok") /\ UNCHANGED <<discovery, vouchers>>
    /\ bills' = bills \ {[file |-> q[r].file, by |-> q[r].row]}

---------------------------------------------------------------------------
(* Assign and remove. *)

FindVoucherChild(r) ==
    /\ pc[r] \in {"assign", "removeVoucher"} /\ UNCHANGED discovery
    /\ IF ~Found(q[r].person) THEN VoucherReply(r, "notFound")
       ELSE VoucherGoto(r, IF pc[r] = "assign" THEN "insertVoucher" ELSE "findVoucher")

\* Mutant: a number that is taken moves to the child.
MoveVoucher(r) ==
    LET k == q[r]
    IN  /\ pc[r] = "insertVoucher" /\ UNCHANGED <<discovery, bills>>
        /\ vouchers' = [vouchers EXCEPT ![k.number] = [child |-> k.person, by |-> r]]
        /\ Answer(r, "ok")

\* The child may be gone by now: its check takes no lock.
InsertVoucher(r) ==
    LET k == q[r]
    IN  /\ pc[r] = "insertVoucher" /\ UNCHANGED <<discovery, bills>>
        /\ IF ~Free(k.number) THEN Goto(r, "whoseVoucher") /\ UNCHANGED vouchers
           ELSE IF ~Found(k.person) THEN Answer(r, "error") /\ UNCHANGED vouchers
           ELSE /\ vouchers' = [vouchers EXCEPT ![k.number] = [child |-> k.person, by |-> r]]
                /\ Answer(r, "ok")

\* The row that stood in the way may be gone by now.
WhoseVoucher(r) ==
    /\ pc[r] = "whoseVoucher" /\ UNCHANGED discovery
    /\ VoucherReply(r, IF Free(q[r].number) THEN "error"
                       ELSE IF vouchers[q[r].number].child = q[r].person THEN "ok" ELSE "conflict")

TheVoucher(r) == ~Free(q[r].number) /\ vouchers[q[r].number].by = q[r].row

FindVoucher(r) ==
    /\ pc[r] = "findVoucher" /\ UNCHANGED discovery
    /\ IF ~TheVoucher(r) \/ vouchers[q[r].number].child # q[r].person THEN VoucherReply(r, "notFound")
       ELSE VoucherGoto(r, "dropVoucher")

DropVoucher(r) ==
    /\ pc[r] = "dropVoucher" /\ UNCHANGED discovery
    /\ IF ~TheVoucher(r) THEN VoucherReply(r, "notFound")
       ELSE /\ vouchers' = [vouchers EXCEPT ![q[r].number] = NoRow]
            /\ Answer(r, "ok") /\ UNCHANGED bills

VoucherStep(r) ==
    \/ FindHash(r) \/ FindMonth(r) \/ StoreBill(r) \/ KnownVouchers(r) \/ MatchRow(r) \/ Link(r)
    \/ FindBill(r) \/ DropBill(r)
    \/ FindVoucherChild(r) \/ InsertVoucher(r) \/ WhoseVoucher(r) \/ FindVoucher(r) \/ DropVoucher(r)

---------------------------------------------------------------------------

VouchersConsistent ==
    /\ \A n \in Numbers : ~Free(n) => Found(vouchers[n].child)
    /\ \A b, c \in bills : b.file.month = c.file.month => b = c
=============================================================================
