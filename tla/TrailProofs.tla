------------------------------ MODULE TrailProofs ------------------------------
(***************************************************************************)
(* Theorems about the audit trail of Records: what the handlers log of what   *)
(* they and others did, and the entries about denials.                        *)
(***************************************************************************)
EXTENDS RecordsProofs, SequenceTheorems, WellFoundedInduction

---------------------------------------------------------------------------
(* The programs of the handlers. *)

Reads == {"list", "ifMatch", "fetch", "peek", "peekOther", "load", "check", "password", "count", "page", "admit"}
Changes == {"create", "assign", "change", "amend", "move", "save", "drop", "remove", "replace", "merge"}
Follows == {"reread", "revoke"}
ReadLogs == {"logExport", "logDenied"}
ChangeLogs ==
    {"logCreate", "logChanges", "logUpdate", "logDelete", "logSnapshot", "logAmended", "logMoved",
     "logAcrossOrgs", "logRole", "logGranted", "logImport"}
Logs == ReadLogs \cup ChangeLogs
Steps == Reads \cup Changes \cup Follows \cup Logs

\* The entries that can be made of a change.
Tells(change, log) ==
    \/ change \in {"create", "assign"} /\ log = "logCreate"
    \/ change = "change" /\ log \in {"logChanges", "logUpdate", "logRole", "logGranted"}
    \/ change = "amend" /\ log = "logAmended"
    \/ change = "move" /\ log = "logMoved"
    \/ change = "save" /\ log \in {"logChanges", "logUpdate", "logAcrossOrgs"}
    \/ change \in {"drop", "remove"} /\ log \in {"logSnapshot", "logDelete"}
    \/ change \in {"replace", "merge"} /\ log \in {"logCreate", "logImport"}

Has(t, S) == \E i \in DOMAIN t : t[i] \in S

\* Reads come first, one change at most, and its entry after it.
Orderly(t) ==
    /\ t \in Seq(Steps)
    /\ \A i, j \in DOMAIN t : i < j =>
         /\ t[i] \notin Reads => t[j] \notin Reads \cup Changes
         /\ t[i] \in Logs => t[j] \notin Logs
    /\ \A i \in DOMAIN t : t[i] \in Changes =>
         /\ \E j \in DOMAIN t : t[j] \in Logs
         /\ \A j \in DOMAIN t : t[j] \in Logs => i < j /\ Tells(t[i], t[j])

\* What can fail after the change comes before the entry, but for a superadmin change.
\* These are facts of what is left of a program, too.
Fair(h, t) ==
    \A i \in DOMAIN t :
        /\ t[i] \in Follows =>
             \/ h \in LateFailures /\ \E j \in DOMAIN t : i < j /\ t[j] \in Logs
             \/ h = "SetSuperAdmin" /\ \A j \in DOMAIN t : i < j => t[j] \notin Logs
        /\ t[i] = "assign" => h = "AssignVoucher"
        /\ t[i] \in Logs /\ h = "SetSuperAdmin" => t[i] = "logGranted"
        /\ t[i] \in {"admit", "logDenied"} => h = "Refused"

Before(t, i, S) == \E j \in DOMAIN t : j < i /\ t[j] \in S
\* A step is left, and none of those it needs before it.
Due(t, x, S) == \E i \in DOMAIN t : t[i] = x /\ ~Before(t, i, S)

\* What only a whole program has.
Whole(t) ==
    /\ t # <<>>
    /\ Has(t, Follows \cup ChangeLogs) => Has(t, Changes)
    /\ \A i \in DOMAIN t :
         /\ t[i] = "drop" => Before(t, i, {"fetch", "check"})
         /\ t[i] = "save" => Before(t, i, {"load"})
         /\ t[i] = "logSnapshot" => Before(t, i, {"fetch"})
         /\ t[i] = "page" => Before(t, i, {"count"})
         /\ t[i] = "logDenied" => Before(t, i, {"admit"})

\* The programs there are.
Plain ==
    {<<"list">>, <<"fetch">>, <<"create", "logCreate">>,
     <<"fetch", "load", "save", "logChanges">>, <<"fetch", "check", "drop", "logSnapshot">>,
     <<"ifMatch", "peek", "change", "logChanges">>,
     <<"ifMatch", "peek", "amend", "logAmended">>, <<"peek", "peekOther", "move", "logMoved">>,
     <<"ifMatch", "fetch", "remove", "logSnapshot">>, <<"fetch", "logExport">>,
     <<"replace", "logCreate">>, <<"replace", "logImport">>, <<"fetch", "change", "logUpdate">>,
     <<"fetch", "check", "drop", "logDelete">>, <<"count", "page">>,
     <<"count", "page", "logExport">>, <<"fetch", "drop", "logSnapshot">>,
     <<"fetch", "remove", "logDelete">>, <<"fetch", "load", "save", "logAcrossOrgs">>,
     <<"peek", "change", "logRole">>, <<"check", "drop", "logDelete">>}
Shape(h, p) ==
    \/ p \in Plain /\ h \notin {"SetSuperAdmin", "Refused"}
    \/ h = "ImportFunding" /\ p = <<"merge", "reread", "logImport">>
    \/ h = "UploadISBJ" /\ p = <<"create", "reread", "logCreate">>
    \/ h = "AssignVoucher" /\ p = <<"assign", "logCreate">>
    \/ h = "SetSuperAdmin" /\ p = <<"fetch", "password", "change", "logGranted", "reread">>
    \/ h = "ResetPassword" /\ p = <<"load", "password", "save", "revoke", "logUpdate">>
    \/ h = "Refused" /\ p = <<"admit", "logDenied">>

\* A tuple is a sequence of its parts.
LEMMA Tuples ==
    ASSUME NEW a, NEW b, NEW c, NEW d, NEW e
    PROVE  /\ \A p : p = <<a>> =>
                /\ DOMAIN p = {1} /\ p[1] = a /\ p # <<>>
                /\ \A S : {a} \subseteq S => p \in Seq(S)
           /\ \A p : p = <<a, b>> =>
                /\ DOMAIN p = {1, 2} /\ p[1] = a /\ p[2] = b /\ p # <<>>
                /\ \A S : {a, b} \subseteq S => p \in Seq(S)
           /\ \A p : p = <<a, b, c>> =>
                /\ DOMAIN p = {1, 2, 3} /\ p[1] = a /\ p[2] = b /\ p[3] = c /\ p # <<>>
                /\ \A S : {a, b, c} \subseteq S => p \in Seq(S)
           /\ \A p : p = <<a, b, c, d>> =>
                /\ DOMAIN p = {1, 2, 3, 4} /\ p[1] = a /\ p[2] = b /\ p[3] = c /\ p[4] = d /\ p # <<>>
                /\ \A S : {a, b, c, d} \subseteq S => p \in Seq(S)
           /\ \A p : p = <<a, b, c, d, e>> =>
                /\ DOMAIN p = {1, 2, 3, 4, 5} /\ p[1] = a /\ p[2] = b /\ p[3] = c /\ p[4] = d /\ p[5] = e /\ p # <<>>
                /\ \A S : {a, b, c, d, e} \subseteq S => p \in Seq(S)
<1>1. ASSUME NEW p, p = <<a>>
     PROVE  /\ DOMAIN p = {1} /\ p[1] = a /\ p # <<>>
            /\ \A S : {a} \subseteq S => p \in Seq(S)
  BY <1>1
<1>2. ASSUME NEW p, p = <<a, b>>
     PROVE  /\ DOMAIN p = {1, 2} /\ p[1] = a /\ p[2] = b /\ p # <<>>
            /\ \A S : {a, b} \subseteq S => p \in Seq(S)
  BY <1>2
<1>3. ASSUME NEW p, p = <<a, b, c>>
     PROVE  /\ DOMAIN p = {1, 2, 3} /\ p[1] = a /\ p[2] = b /\ p[3] = c /\ p # <<>>
            /\ \A S : {a, b, c} \subseteq S => p \in Seq(S)
  BY <1>3
<1>4. ASSUME NEW p, p = <<a, b, c, d>>
     PROVE  /\ DOMAIN p = {1, 2, 3, 4} /\ p[1] = a /\ p[2] = b /\ p[3] = c /\ p[4] = d /\ p # <<>>
            /\ \A S : {a, b, c, d} \subseteq S => p \in Seq(S)
  BY <1>4
<1>5. ASSUME NEW p, p = <<a, b, c, d, e>>
     PROVE  /\ DOMAIN p = {1, 2, 3, 4, 5} /\ p[1] = a /\ p[2] = b /\ p[3] = c /\ p[4] = d /\ p[5] = e /\ p # <<>>
            /\ \A S : {a, b, c, d, e} \subseteq S => p \in Seq(S)
  BY <1>5
<1> QED  BY <1>1, <1>2, <1>3, <1>4, <1>5

\* Each of them is in order.
LEMMA ShapesGood ==
    ASSUME NEW h, NEW p, Shape(h, p)
    PROVE  Orderly(p) /\ Fair(h, p) /\ Whole(p)
<1>1. ASSUME h # "SetSuperAdmin" /\ p = <<"list">> PROVE Orderly(p) /\ Fair(h, p) /\ Whole(p)
  <2>1. DOMAIN p = {1} /\ p[1] = "list" /\ p # <<>>
    BY <1>1, Tuples
  <2>2. p \in Seq(Steps)
    BY <1>1, Tuples DEF Steps, Reads, Changes, Follows, Logs, ReadLogs, ChangeLogs
  <2>3. Orderly(p)
    BY <2>1, <2>2 DEF Orderly, Tells, Reads, Changes, Logs, ReadLogs, ChangeLogs
  <2>4. Fair(h, p) /\ Whole(p)
    BY <1>1, <2>1 DEF Fair, Whole, Before, Has, Changes, Follows, Logs, ReadLogs, ChangeLogs, LateFailures
  <2> QED  BY <2>3, <2>4
<1>2. ASSUME h # "SetSuperAdmin" /\ p = <<"fetch">> PROVE Orderly(p) /\ Fair(h, p) /\ Whole(p)
  <2>1. DOMAIN p = {1} /\ p[1] = "fetch" /\ p # <<>>
    BY <1>2, Tuples
  <2>2. p \in Seq(Steps)
    BY <1>2, Tuples DEF Steps, Reads, Changes, Follows, Logs, ReadLogs, ChangeLogs
  <2>3. Orderly(p)
    BY <2>1, <2>2 DEF Orderly, Tells, Reads, Changes, Logs, ReadLogs, ChangeLogs
  <2>4. Fair(h, p) /\ Whole(p)
    BY <1>2, <2>1 DEF Fair, Whole, Before, Has, Changes, Follows, Logs, ReadLogs, ChangeLogs, LateFailures
  <2> QED  BY <2>3, <2>4
<1>3. ASSUME h # "SetSuperAdmin" /\ p = <<"create", "logCreate">> PROVE Orderly(p) /\ Fair(h, p) /\ Whole(p)
  <2>1. DOMAIN p = {1, 2} /\ p[1] = "create" /\ p[2] = "logCreate" /\ p # <<>>
    BY <1>3, Tuples
  <2>2. p \in Seq(Steps)
    BY <1>3, Tuples DEF Steps, Reads, Changes, Follows, Logs, ReadLogs, ChangeLogs
  <2>3. Orderly(p)
    BY <2>1, <2>2 DEF Orderly, Tells, Reads, Changes, Logs, ReadLogs, ChangeLogs
  <2>4. Fair(h, p) /\ Whole(p)
    BY <1>3, <2>1 DEF Fair, Whole, Before, Has, Changes, Follows, Logs, ReadLogs, ChangeLogs, LateFailures
  <2> QED  BY <2>3, <2>4
<1>4. ASSUME h # "SetSuperAdmin" /\ p = <<"fetch", "load", "save", "logChanges">> PROVE Orderly(p) /\ Fair(h, p) /\ Whole(p)
  <2>1. DOMAIN p = {1, 2, 3, 4} /\ p[1] = "fetch" /\ p[2] = "load" /\ p[3] = "save" /\ p[4] = "logChanges" /\ p # <<>>
    BY <1>4, Tuples
  <2>2. p \in Seq(Steps)
    BY <1>4, Tuples DEF Steps, Reads, Changes, Follows, Logs, ReadLogs, ChangeLogs
  <2>3. Orderly(p)
    BY <2>1, <2>2 DEF Orderly, Tells, Reads, Changes, Logs, ReadLogs, ChangeLogs
  <2>4. Fair(h, p) /\ Whole(p)
    BY <1>4, <2>1 DEF Fair, Whole, Before, Has, Changes, Follows, Logs, ReadLogs, ChangeLogs, LateFailures
  <2> QED  BY <2>3, <2>4
<1>5. ASSUME h # "SetSuperAdmin" /\ p = <<"fetch", "check", "drop", "logSnapshot">> PROVE Orderly(p) /\ Fair(h, p) /\ Whole(p)
  <2>1. DOMAIN p = {1, 2, 3, 4} /\ p[1] = "fetch" /\ p[2] = "check" /\ p[3] = "drop" /\ p[4] = "logSnapshot" /\ p # <<>>
    BY <1>5, Tuples
  <2>2. p \in Seq(Steps)
    BY <1>5, Tuples DEF Steps, Reads, Changes, Follows, Logs, ReadLogs, ChangeLogs
  <2>3. Orderly(p)
    BY <2>1, <2>2 DEF Orderly, Tells, Reads, Changes, Logs, ReadLogs, ChangeLogs
  <2>4. Fair(h, p) /\ Whole(p)
    BY <1>5, <2>1 DEF Fair, Whole, Before, Has, Changes, Follows, Logs, ReadLogs, ChangeLogs, LateFailures
  <2> QED  BY <2>3, <2>4
<1>6. ASSUME h # "SetSuperAdmin" /\ p = <<"ifMatch", "peek", "change", "logChanges">> PROVE Orderly(p) /\ Fair(h, p) /\ Whole(p)
  <2>1. DOMAIN p = {1, 2, 3, 4} /\ p[1] = "ifMatch" /\ p[2] = "peek" /\ p[3] = "change" /\ p[4] = "logChanges" /\ p # <<>>
    BY <1>6, Tuples
  <2>2. p \in Seq(Steps)
    BY <1>6, Tuples DEF Steps, Reads, Changes, Follows, Logs, ReadLogs, ChangeLogs
  <2>3. Orderly(p)
    BY <2>1, <2>2 DEF Orderly, Tells, Reads, Changes, Logs, ReadLogs, ChangeLogs
  <2>4. Fair(h, p) /\ Whole(p)
    BY <1>6, <2>1 DEF Fair, Whole, Before, Has, Changes, Follows, Logs, ReadLogs, ChangeLogs, LateFailures
  <2> QED  BY <2>3, <2>4
<1>7. ASSUME h # "SetSuperAdmin" /\ p = <<"ifMatch", "peek", "amend", "logAmended">> PROVE Orderly(p) /\ Fair(h, p) /\ Whole(p)
  <2>1. DOMAIN p = {1, 2, 3, 4} /\ p[1] = "ifMatch" /\ p[2] = "peek" /\ p[3] = "amend" /\ p[4] = "logAmended" /\ p # <<>>
    BY <1>7, Tuples
  <2>2. p \in Seq(Steps)
    BY <1>7, Tuples DEF Steps, Reads, Changes, Follows, Logs, ReadLogs, ChangeLogs
  <2>3. Orderly(p)
    BY <2>1, <2>2 DEF Orderly, Tells, Reads, Changes, Logs, ReadLogs, ChangeLogs
  <2>4. Fair(h, p) /\ Whole(p)
    BY <1>7, <2>1 DEF Fair, Whole, Before, Has, Changes, Follows, Logs, ReadLogs, ChangeLogs, LateFailures
  <2> QED  BY <2>3, <2>4
<1>8. ASSUME h # "SetSuperAdmin" /\ p = <<"peek", "peekOther", "move", "logMoved">> PROVE Orderly(p) /\ Fair(h, p) /\ Whole(p)
  <2>1. DOMAIN p = {1, 2, 3, 4} /\ p[1] = "peek" /\ p[2] = "peekOther" /\ p[3] = "move" /\ p[4] = "logMoved" /\ p # <<>>
    BY <1>8, Tuples
  <2>2. p \in Seq(Steps)
    BY <1>8, Tuples DEF Steps, Reads, Changes, Follows, Logs, ReadLogs, ChangeLogs
  <2>3. Orderly(p)
    BY <2>1, <2>2 DEF Orderly, Tells, Reads, Changes, Logs, ReadLogs, ChangeLogs
  <2>4. Fair(h, p) /\ Whole(p)
    BY <1>8, <2>1 DEF Fair, Whole, Before, Has, Changes, Follows, Logs, ReadLogs, ChangeLogs, LateFailures
  <2> QED  BY <2>3, <2>4
<1>9. ASSUME h # "SetSuperAdmin" /\ p = <<"ifMatch", "fetch", "remove", "logSnapshot">> PROVE Orderly(p) /\ Fair(h, p) /\ Whole(p)
  <2>1. DOMAIN p = {1, 2, 3, 4} /\ p[1] = "ifMatch" /\ p[2] = "fetch" /\ p[3] = "remove" /\ p[4] = "logSnapshot" /\ p # <<>>
    BY <1>9, Tuples
  <2>2. p \in Seq(Steps)
    BY <1>9, Tuples DEF Steps, Reads, Changes, Follows, Logs, ReadLogs, ChangeLogs
  <2>3. Orderly(p)
    BY <2>1, <2>2 DEF Orderly, Tells, Reads, Changes, Logs, ReadLogs, ChangeLogs
  <2>4. Fair(h, p) /\ Whole(p)
    BY <1>9, <2>1 DEF Fair, Whole, Before, Has, Changes, Follows, Logs, ReadLogs, ChangeLogs, LateFailures
  <2> QED  BY <2>3, <2>4
<1>10. ASSUME h # "SetSuperAdmin" /\ p = <<"fetch", "logExport">> PROVE Orderly(p) /\ Fair(h, p) /\ Whole(p)
  <2>1. DOMAIN p = {1, 2} /\ p[1] = "fetch" /\ p[2] = "logExport" /\ p # <<>>
    BY <1>10, Tuples
  <2>2. p \in Seq(Steps)
    BY <1>10, Tuples DEF Steps, Reads, Changes, Follows, Logs, ReadLogs, ChangeLogs
  <2>3. Orderly(p)
    BY <2>1, <2>2 DEF Orderly, Tells, Reads, Changes, Logs, ReadLogs, ChangeLogs
  <2>4. Fair(h, p) /\ Whole(p)
    BY <1>10, <2>1 DEF Fair, Whole, Before, Has, Changes, Follows, Logs, ReadLogs, ChangeLogs, LateFailures
  <2> QED  BY <2>3, <2>4
<1>11. ASSUME h # "SetSuperAdmin" /\ p = <<"replace", "logCreate">> PROVE Orderly(p) /\ Fair(h, p) /\ Whole(p)
  <2>1. DOMAIN p = {1, 2} /\ p[1] = "replace" /\ p[2] = "logCreate" /\ p # <<>>
    BY <1>11, Tuples
  <2>2. p \in Seq(Steps)
    BY <1>11, Tuples DEF Steps, Reads, Changes, Follows, Logs, ReadLogs, ChangeLogs
  <2>3. Orderly(p)
    BY <2>1, <2>2 DEF Orderly, Tells, Reads, Changes, Logs, ReadLogs, ChangeLogs
  <2>4. Fair(h, p) /\ Whole(p)
    BY <1>11, <2>1 DEF Fair, Whole, Before, Has, Changes, Follows, Logs, ReadLogs, ChangeLogs, LateFailures
  <2> QED  BY <2>3, <2>4
<1>12. ASSUME h # "SetSuperAdmin" /\ p = <<"replace", "logImport">> PROVE Orderly(p) /\ Fair(h, p) /\ Whole(p)
  <2>1. DOMAIN p = {1, 2} /\ p[1] = "replace" /\ p[2] = "logImport" /\ p # <<>>
    BY <1>12, Tuples
  <2>2. p \in Seq(Steps)
    BY <1>12, Tuples DEF Steps, Reads, Changes, Follows, Logs, ReadLogs, ChangeLogs
  <2>3. Orderly(p)
    BY <2>1, <2>2 DEF Orderly, Tells, Reads, Changes, Logs, ReadLogs, ChangeLogs
  <2>4. Fair(h, p) /\ Whole(p)
    BY <1>12, <2>1 DEF Fair, Whole, Before, Has, Changes, Follows, Logs, ReadLogs, ChangeLogs, LateFailures
  <2> QED  BY <2>3, <2>4
<1>13. ASSUME h # "SetSuperAdmin" /\ p = <<"fetch", "change", "logUpdate">> PROVE Orderly(p) /\ Fair(h, p) /\ Whole(p)
  <2>1. DOMAIN p = {1, 2, 3} /\ p[1] = "fetch" /\ p[2] = "change" /\ p[3] = "logUpdate" /\ p # <<>>
    BY <1>13, Tuples
  <2>2. p \in Seq(Steps)
    BY <1>13, Tuples DEF Steps, Reads, Changes, Follows, Logs, ReadLogs, ChangeLogs
  <2>3. Orderly(p)
    BY <2>1, <2>2 DEF Orderly, Tells, Reads, Changes, Logs, ReadLogs, ChangeLogs
  <2>4. Fair(h, p) /\ Whole(p)
    BY <1>13, <2>1 DEF Fair, Whole, Before, Has, Changes, Follows, Logs, ReadLogs, ChangeLogs, LateFailures
  <2> QED  BY <2>3, <2>4
<1>14. ASSUME h # "SetSuperAdmin" /\ p = <<"fetch", "check", "drop", "logDelete">> PROVE Orderly(p) /\ Fair(h, p) /\ Whole(p)
  <2>1. DOMAIN p = {1, 2, 3, 4} /\ p[1] = "fetch" /\ p[2] = "check" /\ p[3] = "drop" /\ p[4] = "logDelete" /\ p # <<>>
    BY <1>14, Tuples
  <2>2. p \in Seq(Steps)
    BY <1>14, Tuples DEF Steps, Reads, Changes, Follows, Logs, ReadLogs, ChangeLogs
  <2>3. Orderly(p)
    BY <2>1, <2>2 DEF Orderly, Tells, Reads, Changes, Logs, ReadLogs, ChangeLogs
  <2>4. Fair(h, p) /\ Whole(p)
    BY <1>14, <2>1 DEF Fair, Whole, Before, Has, Changes, Follows, Logs, ReadLogs, ChangeLogs, LateFailures
  <2> QED  BY <2>3, <2>4
<1>15. ASSUME h # "SetSuperAdmin" /\ p = <<"count", "page">> PROVE Orderly(p) /\ Fair(h, p) /\ Whole(p)
  <2>1. DOMAIN p = {1, 2} /\ p[1] = "count" /\ p[2] = "page" /\ p # <<>>
    BY <1>15, Tuples
  <2>2. p \in Seq(Steps)
    BY <1>15, Tuples DEF Steps, Reads, Changes, Follows, Logs, ReadLogs, ChangeLogs
  <2>3. Orderly(p)
    BY <2>1, <2>2 DEF Orderly, Tells, Reads, Changes, Logs, ReadLogs, ChangeLogs
  <2>4. Fair(h, p) /\ Whole(p)
    BY <1>15, <2>1 DEF Fair, Whole, Before, Has, Changes, Follows, Logs, ReadLogs, ChangeLogs, LateFailures
  <2> QED  BY <2>3, <2>4
<1>16. ASSUME h # "SetSuperAdmin" /\ p = <<"count", "page", "logExport">> PROVE Orderly(p) /\ Fair(h, p) /\ Whole(p)
  <2>1. DOMAIN p = {1, 2, 3} /\ p[1] = "count" /\ p[2] = "page" /\ p[3] = "logExport" /\ p # <<>>
    BY <1>16, Tuples
  <2>2. p \in Seq(Steps)
    BY <1>16, Tuples DEF Steps, Reads, Changes, Follows, Logs, ReadLogs, ChangeLogs
  <2>3. Orderly(p)
    BY <2>1, <2>2 DEF Orderly, Tells, Reads, Changes, Logs, ReadLogs, ChangeLogs
  <2>4. Fair(h, p) /\ Whole(p)
    BY <1>16, <2>1 DEF Fair, Whole, Before, Has, Changes, Follows, Logs, ReadLogs, ChangeLogs, LateFailures
  <2> QED  BY <2>3, <2>4
<1>17. ASSUME h # "SetSuperAdmin" /\ p = <<"fetch", "drop", "logSnapshot">> PROVE Orderly(p) /\ Fair(h, p) /\ Whole(p)
  <2>1. DOMAIN p = {1, 2, 3} /\ p[1] = "fetch" /\ p[2] = "drop" /\ p[3] = "logSnapshot" /\ p # <<>>
    BY <1>17, Tuples
  <2>2. p \in Seq(Steps)
    BY <1>17, Tuples DEF Steps, Reads, Changes, Follows, Logs, ReadLogs, ChangeLogs
  <2>3. Orderly(p)
    BY <2>1, <2>2 DEF Orderly, Tells, Reads, Changes, Logs, ReadLogs, ChangeLogs
  <2>4. Fair(h, p) /\ Whole(p)
    BY <1>17, <2>1 DEF Fair, Whole, Before, Has, Changes, Follows, Logs, ReadLogs, ChangeLogs, LateFailures
  <2> QED  BY <2>3, <2>4
<1>18. ASSUME h # "SetSuperAdmin" /\ p = <<"fetch", "remove", "logDelete">> PROVE Orderly(p) /\ Fair(h, p) /\ Whole(p)
  <2>1. DOMAIN p = {1, 2, 3} /\ p[1] = "fetch" /\ p[2] = "remove" /\ p[3] = "logDelete" /\ p # <<>>
    BY <1>18, Tuples
  <2>2. p \in Seq(Steps)
    BY <1>18, Tuples DEF Steps, Reads, Changes, Follows, Logs, ReadLogs, ChangeLogs
  <2>3. Orderly(p)
    BY <2>1, <2>2 DEF Orderly, Tells, Reads, Changes, Logs, ReadLogs, ChangeLogs
  <2>4. Fair(h, p) /\ Whole(p)
    BY <1>18, <2>1 DEF Fair, Whole, Before, Has, Changes, Follows, Logs, ReadLogs, ChangeLogs, LateFailures
  <2> QED  BY <2>3, <2>4
<1>19. ASSUME h # "SetSuperAdmin" /\ p = <<"fetch", "load", "save", "logAcrossOrgs">> PROVE Orderly(p) /\ Fair(h, p) /\ Whole(p)
  <2>1. DOMAIN p = {1, 2, 3, 4} /\ p[1] = "fetch" /\ p[2] = "load" /\ p[3] = "save" /\ p[4] = "logAcrossOrgs" /\ p # <<>>
    BY <1>19, Tuples
  <2>2. p \in Seq(Steps)
    BY <1>19, Tuples DEF Steps, Reads, Changes, Follows, Logs, ReadLogs, ChangeLogs
  <2>3. Orderly(p)
    BY <2>1, <2>2 DEF Orderly, Tells, Reads, Changes, Logs, ReadLogs, ChangeLogs
  <2>4. Fair(h, p) /\ Whole(p)
    BY <1>19, <2>1 DEF Fair, Whole, Before, Has, Changes, Follows, Logs, ReadLogs, ChangeLogs, LateFailures
  <2> QED  BY <2>3, <2>4
<1>20. ASSUME h # "SetSuperAdmin" /\ p = <<"peek", "change", "logRole">> PROVE Orderly(p) /\ Fair(h, p) /\ Whole(p)
  <2>1. DOMAIN p = {1, 2, 3} /\ p[1] = "peek" /\ p[2] = "change" /\ p[3] = "logRole" /\ p # <<>>
    BY <1>20, Tuples
  <2>2. p \in Seq(Steps)
    BY <1>20, Tuples DEF Steps, Reads, Changes, Follows, Logs, ReadLogs, ChangeLogs
  <2>3. Orderly(p)
    BY <2>1, <2>2 DEF Orderly, Tells, Reads, Changes, Logs, ReadLogs, ChangeLogs
  <2>4. Fair(h, p) /\ Whole(p)
    BY <1>20, <2>1 DEF Fair, Whole, Before, Has, Changes, Follows, Logs, ReadLogs, ChangeLogs, LateFailures
  <2> QED  BY <2>3, <2>4
<1>21. ASSUME h # "SetSuperAdmin" /\ p = <<"check", "drop", "logDelete">> PROVE Orderly(p) /\ Fair(h, p) /\ Whole(p)
  <2>1. DOMAIN p = {1, 2, 3} /\ p[1] = "check" /\ p[2] = "drop" /\ p[3] = "logDelete" /\ p # <<>>
    BY <1>21, Tuples
  <2>2. p \in Seq(Steps)
    BY <1>21, Tuples DEF Steps, Reads, Changes, Follows, Logs, ReadLogs, ChangeLogs
  <2>3. Orderly(p)
    BY <2>1, <2>2 DEF Orderly, Tells, Reads, Changes, Logs, ReadLogs, ChangeLogs
  <2>4. Fair(h, p) /\ Whole(p)
    BY <1>21, <2>1 DEF Fair, Whole, Before, Has, Changes, Follows, Logs, ReadLogs, ChangeLogs, LateFailures
  <2> QED  BY <2>3, <2>4
<1>22. ASSUME h = "ImportFunding" /\ p = <<"merge", "reread", "logImport">> PROVE Orderly(p) /\ Fair(h, p) /\ Whole(p)
  <2>1. DOMAIN p = {1, 2, 3} /\ p[1] = "merge" /\ p[2] = "reread" /\ p[3] = "logImport" /\ p # <<>>
    BY <1>22, Tuples
  <2>2. p \in Seq(Steps)
    BY <1>22, Tuples DEF Steps, Reads, Changes, Follows, Logs, ReadLogs, ChangeLogs
  <2>3. Orderly(p)
    BY <2>1, <2>2 DEF Orderly, Tells, Reads, Changes, Logs, ReadLogs, ChangeLogs
  <2>4. Fair(h, p) /\ Whole(p)
    BY <1>22, <2>1 DEF Fair, Whole, Before, Has, Changes, Follows, Logs, ReadLogs, ChangeLogs, LateFailures
  <2> QED  BY <2>3, <2>4
<1>23. ASSUME h = "UploadISBJ" /\ p = <<"create", "reread", "logCreate">> PROVE Orderly(p) /\ Fair(h, p) /\ Whole(p)
  <2>1. DOMAIN p = {1, 2, 3} /\ p[1] = "create" /\ p[2] = "reread" /\ p[3] = "logCreate" /\ p # <<>>
    BY <1>23, Tuples
  <2>2. p \in Seq(Steps)
    BY <1>23, Tuples DEF Steps, Reads, Changes, Follows, Logs, ReadLogs, ChangeLogs
  <2>3. Orderly(p)
    BY <2>1, <2>2 DEF Orderly, Tells, Reads, Changes, Logs, ReadLogs, ChangeLogs
  <2>4. Fair(h, p) /\ Whole(p)
    BY <1>23, <2>1 DEF Fair, Whole, Before, Has, Changes, Follows, Logs, ReadLogs, ChangeLogs, LateFailures
  <2> QED  BY <2>3, <2>4
<1>24. ASSUME h = "AssignVoucher" /\ p = <<"assign", "logCreate">> PROVE Orderly(p) /\ Fair(h, p) /\ Whole(p)
  <2>1. DOMAIN p = {1, 2} /\ p[1] = "assign" /\ p[2] = "logCreate" /\ p # <<>>
    BY <1>24, Tuples
  <2>2. p \in Seq(Steps)
    BY <1>24, Tuples DEF Steps, Reads, Changes, Follows, Logs, ReadLogs, ChangeLogs
  <2>3. Orderly(p)
    BY <2>1, <2>2 DEF Orderly, Tells, Reads, Changes, Logs, ReadLogs, ChangeLogs
  <2>4. Fair(h, p) /\ Whole(p)
    BY <1>24, <2>1 DEF Fair, Whole, Before, Has, Changes, Follows, Logs, ReadLogs, ChangeLogs, LateFailures
  <2> QED  BY <2>3, <2>4
<1>25. ASSUME h = "SetSuperAdmin" /\ p = <<"fetch", "password", "change", "logGranted", "reread">> PROVE Orderly(p) /\ Fair(h, p) /\ Whole(p)
  <2>1. DOMAIN p = {1, 2, 3, 4, 5} /\ p[1] = "fetch" /\ p[2] = "password" /\ p[3] = "change" /\ p[4] = "logGranted" /\ p[5] = "reread" /\ p # <<>>
    BY <1>25, Tuples
  <2>2. p \in Seq(Steps)
    BY <1>25, Tuples DEF Steps, Reads, Changes, Follows, Logs, ReadLogs, ChangeLogs
  <2>3. Orderly(p)
    BY <2>1, <2>2 DEF Orderly, Tells, Reads, Changes, Logs, ReadLogs, ChangeLogs
  <2>4. Fair(h, p) /\ Whole(p)
    BY <1>25, <2>1 DEF Fair, Whole, Before, Has, Changes, Follows, Logs, ReadLogs, ChangeLogs, LateFailures
  <2> QED  BY <2>3, <2>4
<1>26. ASSUME h = "ResetPassword" /\ p = <<"load", "password", "save", "revoke", "logUpdate">> PROVE Orderly(p) /\ Fair(h, p) /\ Whole(p)
  <2>1. DOMAIN p = {1, 2, 3, 4, 5} /\ p[1] = "load" /\ p[2] = "password" /\ p[3] = "save" /\ p[4] = "revoke" /\ p[5] = "logUpdate" /\ p # <<>>
    BY <1>26, Tuples
  <2>2. p \in Seq(Steps)
    BY <1>26, Tuples DEF Steps, Reads, Changes, Follows, Logs, ReadLogs, ChangeLogs
  <2>3. Orderly(p)
    BY <2>1, <2>2 DEF Orderly, Tells, Reads, Changes, Logs, ReadLogs, ChangeLogs
  <2>4. Fair(h, p) /\ Whole(p)
    BY <1>26, <2>1 DEF Fair, Whole, Before, Has, Changes, Follows, Logs, ReadLogs, ChangeLogs, LateFailures
  <2> QED  BY <2>3, <2>4
<1>27. ASSUME h = "Refused" /\ p = <<"admit", "logDenied">> PROVE Orderly(p) /\ Fair(h, p) /\ Whole(p)
  <2>1. DOMAIN p = {1, 2} /\ p[1] = "admit" /\ p[2] = "logDenied" /\ p # <<>>
    BY <1>27, Tuples
  <2>2. p \in Seq(Steps)
    BY <1>27, Tuples DEF Steps, Reads, Changes, Follows, Logs, ReadLogs, ChangeLogs
  <2>3. Orderly(p)
    BY <2>1, <2>2 DEF Orderly, Tells, Reads, Changes, Logs, ReadLogs, ChangeLogs
  <2>4. Fair(h, p) /\ Whole(p)
    BY <1>27, <2>1 DEF Fair, Whole, Before, Has, Changes, Follows, Logs, ReadLogs, ChangeLogs, LateFailures
  <2> QED  BY <2>3, <2>4
<1> QED  BY <1>1, <1>2, <1>3, <1>4, <1>5, <1>6, <1>7, <1>8, <1>9, <1>10, <1>11, <1>12, <1>13, <1>14, <1>15, <1>16, <1>17, <1>18, <1>19, <1>20, <1>21, <1>22, <1>23, <1>24, <1>25, <1>26, <1>27 DEF Shape, Plain

\* Programs put together.
LEMMA Concats ==
    ASSUME NEW a, NEW b, NEW c, NEW d, NEW e
    PROVE  /\ <<a>> \o <<b>> = <<a, b>>
           /\ <<a>> \o <<b, c>> = <<a, b, c>>
           /\ <<a, b>> \o <<c>> = <<a, b, c>>
           /\ <<a, b, c>> \o <<d>> = <<a, b, c, d>>
           /\ <<a>> \o <<b, c, d, e>> = <<a, b, c, d, e>>
<1>1. <<a>> \o <<b>> = <<a, b>>
  <2> DEFINE s == <<a>> \o <<b>>
  <2> DEFINE t == <<a, b>>
  <2>1. s \in Seq({a, b, c, d, e}) /\ t \in Seq({a, b, c, d, e}) /\ Len(s) = 2 /\ Len(t) = 2
    OBVIOUS
  <2>2. s[1] = a /\ s[2] = b
    OBVIOUS
  <2>3. t[1] = a /\ t[2] = b
    OBVIOUS
  <2>4. \A i \in 1..2 : s[i] = t[i]
    BY <2>2, <2>3
  <2> HIDE DEF s, t
  <2>5. s = t
    BY <2>1, <2>4, SeqEqual
  <2> QED  BY <2>5 DEF s, t
<1>2. <<a>> \o <<b, c>> = <<a, b, c>>
  <2> DEFINE s == <<a>> \o <<b, c>>
  <2> DEFINE t == <<a, b, c>>
  <2>1. s \in Seq({a, b, c, d, e}) /\ t \in Seq({a, b, c, d, e}) /\ Len(s) = 3 /\ Len(t) = 3
    OBVIOUS
  <2>2. s[1] = a /\ s[2] = b /\ s[3] = c
    OBVIOUS
  <2>3. t[1] = a /\ t[2] = b /\ t[3] = c
    OBVIOUS
  <2>4. \A i \in 1..3 : s[i] = t[i]
    BY <2>2, <2>3
  <2> HIDE DEF s, t
  <2>5. s = t
    BY <2>1, <2>4, SeqEqual
  <2> QED  BY <2>5 DEF s, t
<1>3. <<a, b>> \o <<c>> = <<a, b, c>>
  <2> DEFINE s == <<a, b>> \o <<c>>
  <2> DEFINE t == <<a, b, c>>
  <2>1. s \in Seq({a, b, c, d, e}) /\ t \in Seq({a, b, c, d, e}) /\ Len(s) = 3 /\ Len(t) = 3
    OBVIOUS
  <2>2. s[1] = a /\ s[2] = b /\ s[3] = c
    OBVIOUS
  <2>3. t[1] = a /\ t[2] = b /\ t[3] = c
    OBVIOUS
  <2>4. \A i \in 1..3 : s[i] = t[i]
    BY <2>2, <2>3
  <2> HIDE DEF s, t
  <2>5. s = t
    BY <2>1, <2>4, SeqEqual
  <2> QED  BY <2>5 DEF s, t
<1>4. <<a, b, c>> \o <<d>> = <<a, b, c, d>>
  <2> DEFINE s == <<a, b, c>> \o <<d>>
  <2> DEFINE t == <<a, b, c, d>>
  <2>1. s \in Seq({a, b, c, d, e}) /\ t \in Seq({a, b, c, d, e}) /\ Len(s) = 4 /\ Len(t) = 4
    OBVIOUS
  <2>2. s[1] = a /\ s[2] = b /\ s[3] = c /\ s[4] = d
    OBVIOUS
  <2>3. t[1] = a /\ t[2] = b /\ t[3] = c /\ t[4] = d
    OBVIOUS
  <2>4. \A i \in 1..4 : s[i] = t[i]
    BY <2>2, <2>3
  <2> HIDE DEF s, t
  <2>5. s = t
    BY <2>1, <2>4, SeqEqual
  <2> QED  BY <2>5 DEF s, t
<1>5. <<a>> \o <<b, c, d, e>> = <<a, b, c, d, e>>
  <2> DEFINE s == <<a>> \o <<b, c, d, e>>
  <2> DEFINE t == <<a, b, c, d, e>>
  <2>1. s \in Seq({a, b, c, d, e}) /\ t \in Seq({a, b, c, d, e}) /\ Len(s) = 5 /\ Len(t) = 5
    OBVIOUS
  <2>2. s[1] = a /\ s[2] = b /\ s[3] = c /\ s[4] = d /\ s[5] = e
    OBVIOUS
  <2>3. t[1] = a /\ t[2] = b /\ t[3] = c /\ t[4] = d /\ t[5] = e
    OBVIOUS
  <2>4. \A i \in 1..5 : s[i] = t[i]
    BY <2>2, <2>3
  <2> HIDE DEF s, t
  <2>5. s = t
    BY <2>1, <2>4, SeqEqual
  <2> QED  BY <2>5 DEF s, t
<1> QED  BY <1>1, <1>2, <1>3, <1>4, <1>5

\* Every handler has one of the programs.
LEMMA HandlersGood ==
    ASSUME NEW h \in DOMAIN Handlers
    PROVE  Orderly(Handlers[h]) /\ Fair(h, Handlers[h]) /\ Whole(Handlers[h]) /\ Shape(h, Handlers[h])
<1> DEFINE Known(t) == \A x \in DOMAIN t : Shape(x, t[x])
<1>1. Known(PayPlanReads)
  BY DEF PayPlanReads, OrgList, List, Get, Shape, Plain
<1>2. Known(PayPlanWrites)
  BY Concats DEF PayPlanWrites, OrgCreate, OrgUpdate, Get, Patch, OrgDelete, Drop, Shape, Plain
<1>3. Known(PayPlanPeriods)
  BY Concats DEF PayPlanPeriods, OrgNestedList, List, OrgNestedCreate, OrgNestedGet, Get, OrgNestedUpdate, Patch, OrgNestedDeleteWithFetch, Drop, Shape, Plain
<1>4. Known(PayPlanEntries)
  BY Concats DEF PayPlanEntries, OrgDeepNestedList, List, OrgDeepNestedCreate, OrgDeepNestedGet, Get, OrgDeepNestedUpdate, Patch, OrgDeepNestedDeleteWithFetch, Drop, Shape, Plain
<1>5. Known(PayPlanFiles)
  BY Concats DEF PayPlanFiles, Get, Shape, Plain
<1>6. Known(BudgetItems)
  BY DEF BudgetItems, OrgList, List, Get, OrgCreate, Shape, Plain
<1>7. Known(BudgetItemWrites)
  BY Concats DEF BudgetItemWrites, OrgUpdate, Get, Patch, OrgDelete, Drop, Shape, Plain
<1>8. Known(BudgetItemEntries)
  BY Concats DEF BudgetItemEntries, OrgNestedList, List, OrgNestedCreate, OrgNestedGet, Get, OrgNestedUpdate, Patch, OrgNestedDeleteWithFetch, Drop, Shape, Plain
<1>9. Known(FundingReads)
  BY DEF FundingReads, List, Get, Shape, Plain
<1>10. Known(FundingWrites)
  BY Concats DEF FundingWrites, OrgCreate, OrgUpdate, Get, Patch, OrgDelete, Drop, Shape, Plain
<1>11. Known(FundingPeriods)
  BY Concats DEF FundingPeriods, GlobalNestedList, List, GlobalNestedCreate, GlobalNestedGet, Get, GlobalNestedUpdate, Patch, GlobalNestedDeleteWithFetch, Drop, Shape, Plain
<1>12. Known(FundingProperties)
  BY Concats DEF FundingProperties, GlobalDeepNestedList, List, GlobalDeepNestedCreate, GlobalDeepNestedGet, Get, GlobalDeepNestedUpdate, Patch, GlobalDeepNestedDeleteWithFetch, Drop, Shape, Plain
<1>13. Known(FundingFile)
  BY DEF FundingFile, Shape, Plain
<1>14. Known(Sections)
  BY Concats DEF Sections, OrgList, List, OrgGet, Get, OrgCreate, OrgUpdate, Patch, OrgDelete, Drop, Shape, Plain
<1>15. Known(Organizations)
  BY DEF Organizations, List, Get, OrgCreate, Shape, Plain
<1>16. Known(OrganizationWrites)
  BY Concats DEF OrganizationWrites, OrgUpdate, Get, Patch, OrgDelete, Drop, Shape, Plain
<1>17. Known(ChildReads)
  BY DEF ChildReads, List, Get, Shape, Plain
<1>18. Known(ChildWrites)
  BY Concats DEF ChildWrites, OrgCreate, OrgUpdate, Get, Patch, Drop, Shape, Plain
<1>19. Known(ChildContracts)
  BY DEF ChildContracts, List, Get, GetContract, CreateContract, Shape, Plain
<1>20. Known(ChildContractIntents)
  BY DEF ChildContractIntents, UpdateContract, AmendContract, Shape, Plain
<1>21. Known(ChildContractMoves)
  BY Concats DEF ChildContractMoves, MoveBoundary, DeleteVersioned, Get, Shape, Plain
<1>22. Known(ChildFiles)
  BY DEF ChildFiles, Shape, Plain
<1>23. Known(EmployeeReads)
  BY DEF EmployeeReads, List, Get, Shape, Plain
<1>24. Known(EmployeeWrites)
  BY Concats DEF EmployeeWrites, OrgCreate, OrgUpdate, Get, Patch, Drop, Shape, Plain
<1>25. Known(EmployeeContracts)
  BY DEF EmployeeContracts, List, Get, GetContract, CreateContract, Shape, Plain
<1>26. Known(EmployeeContractIntents)
  BY DEF EmployeeContractIntents, UpdateContract, AmendContract, Shape, Plain
<1>27. Known(EmployeeContractMoves)
  BY Concats DEF EmployeeContractMoves, MoveBoundary, DeleteVersioned, Get, Shape, Plain
<1>28. Known(EmployeeFiles)
  BY DEF EmployeeFiles, Shape, Plain
<1>29. Known(Workbooks)
  BY DEF Workbooks, Shape, Plain
<1>30. Known(AttendanceReads)
  BY DEF AttendanceReads, List, Shape, Plain
<1>31. Known(AttendanceWrites)
  BY Concats DEF AttendanceWrites, OrgNestedCreate, Get, Patch, Drop, Shape, Plain
<1>32. Known(BillReads)
  BY DEF BillReads, Get, List, Shape, Plain
<1>33. Known(BillWrites)
  BY DEF BillWrites, List, Get, Shape, Plain
<1>34. Known(BillReports)
  BY DEF BillReports, List, Shape, Plain
<1>35. Known(BillVouchers)
  BY Concats DEF BillVouchers, Get, List, Shape, Plain
<1>36. Known(UserReads)
  BY DEF UserReads, List, Get, Shape, Plain
<1>37. Known(UserWrites)
  BY Concats DEF UserWrites, OrgCreate, Get, Patch, Shape, Plain
<1>38. Known(UserRemovals)
  BY Concats DEF UserRemovals, Get, Drop, Shape, Plain
<1>39. Known(Memberships)
  BY Concats DEF Memberships, Drop, Shape, Plain
<1>40. Known(MembershipReads)
  BY DEF MembershipReads, List, Shape, Plain
<1>41. Known(Superadmins)
  BY Concats DEF Superadmins, Get, Shape, Plain
<1>42. Known(Passwords)
  BY DEF Passwords, Shape, Plain
<1>43. Known(Statistics)
  BY DEF Statistics, List, Shape, Plain
<1>44. Known(Finances)
  BY DEF Finances, List, Shape, Plain
<1>45. Known(Estimates)
  BY DEF Estimates, List, Shape, Plain
<1>46. Known(Promotions)
  BY DEF Promotions, List, Shape, Plain
<1>47. Known(AuditTrail)
  BY DEF AuditTrail, List, Get, Shape, Plain
<1>48. Known(Denials)
  BY DEF Denials, Shape, Plain
<1>100. \A t \in Routes : Known(t)
  BY <1>1, <1>2, <1>3, <1>4, <1>5, <1>6, <1>7, <1>8, <1>9, <1>10, <1>11, <1>12, <1>13, <1>14, <1>15, <1>16, <1>17, <1>18, <1>19, <1>20, <1>21, <1>22, <1>23, <1>24, <1>25, <1>26, <1>27, <1>28, <1>29, <1>30, <1>31, <1>32, <1>33, <1>34, <1>35, <1>36, <1>37, <1>38, <1>39, <1>40, <1>41, <1>42, <1>43, <1>44, <1>45, <1>46, <1>47, <1>48 DEF Routes
<1>101. PICK t \in Routes : h \in DOMAIN t /\ Handlers[h] = t[h]
  BY DEF Handlers
<1>102. Shape(h, Handlers[h])
  BY <1>100, <1>101
<1> QED  BY <1>102, ShapesGood

---------------------------------------------------------------------------
(* Entries and changes, by request. *)

IsSeq(s) == s \in Seq({s[i] : i \in DOMAIN s})

By(s, r) == {s[i] : i \in {j \in DOMAIN s : s[j].by = r}}
Said(r) == By(trail, r)
Did(r) == By(done, r)

\* Entries and changes are only ever appended: what was there keeps its place.
\* Entries and changes are only ever appended: what was there keeps its place.
LEMMA Joined ==
    ASSUME NEW s, NEW e, IsSeq(s), IsSeq(e)
    PROVE  /\ IsSeq(s \o e) /\ DOMAIN (s \o e) = 1..(Len(s) + Len(e))
           /\ DOMAIN s = 1..Len(s) /\ DOMAIN e = 1..Len(e) /\ Len(s) \in Nat /\ Len(e) \in Nat
           /\ \A i \in DOMAIN s : (s \o e)[i] = s[i]
           /\ \A i \in DOMAIN e : (s \o e)[Len(s) + i] = e[i]
<1> DEFINE S == {s[i] : i \in DOMAIN s} \cup {e[i] : i \in DOMAIN e}
<1>1. s \in Seq(S) /\ e \in Seq(S)
  <2>1. {s[i] : i \in DOMAIN s} \subseteq S /\ {e[i] : i \in DOMAIN e} \subseteq S
    OBVIOUS
  <2> QED  BY <2>1, SeqMonotonic DEF IsSeq
<1> HIDE DEF S
<1> DEFINE t == s \o e
<1>2. /\ t \in Seq(S) /\ Len(t) = Len(s) + Len(e) /\ Len(s) \in Nat /\ Len(e) \in Nat
      /\ DOMAIN s = 1..Len(s) /\ DOMAIN e = 1..Len(e) /\ DOMAIN t = 1..Len(t)
      /\ \A i \in 1..Len(s) + Len(e) : t[i] = IF i <= Len(s) THEN s[i] ELSE e[i - Len(s)]
  BY <1>1, ConcatProperties, LenProperties
<1>3. t \in Seq({t[i] : i \in DOMAIN t})
  <2> DEFINE T == {t[i] : i \in DOMAIN t}
  <2>1. \A i \in 1..Len(t) : t[i] \in T
    BY <1>2
  <2> HIDE DEF T, t
  <2>2. t \in [1..Len(t) -> T]
    BY <1>2, <2>1, LenProperties
  <2>3. t \in Seq(T)
    BY <1>2, <2>2
  <2> QED  BY <2>3 DEF T
<1> HIDE DEF t
<1>4. \A i \in DOMAIN e : Len(s) + i \in 1..Len(s) + Len(e) /\ ~(Len(s) + i <= Len(s)) /\ Len(s) + i - Len(s) = i
  BY <1>2
<1>5. \A i \in DOMAIN s : i \in 1..Len(s) + Len(e) /\ i <= Len(s)
  BY <1>2
<1>6. \A i \in DOMAIN e : t[Len(s) + i] = e[i]
  BY <1>2, <1>4
<1>7. \A i \in DOMAIN s : t[i] = s[i]
  BY <1>2, <1>5
<1> QED  BY <1>2, <1>3, <1>6, <1>7 DEF IsSeq, t

\* What is appended is its own request's.
LEMMA ByJoined ==
    ASSUME NEW s, NEW e, IsSeq(s), IsSeq(e), NEW r, \A i \in DOMAIN e : e[i].by = r
    PROVE  /\ By(s \o e, r) = By(s, r) \cup {e[i] : i \in DOMAIN e}
           /\ \A x : x # r => By(s \o e, x) = By(s, x)
<1> DEFINE t == s \o e
<1>1. /\ DOMAIN t = 1..(Len(s) + Len(e)) /\ Len(s) \in Nat /\ Len(e) \in Nat
      /\ DOMAIN s = 1..Len(s) /\ DOMAIN e = 1..Len(e)
      /\ \A i \in DOMAIN s : t[i] = s[i]
      /\ \A i \in DOMAIN e : t[Len(s) + i] = e[i]
  BY Joined
<1> HIDE DEF t
<1>2. \A i \in DOMAIN t : i \in DOMAIN s \/ \E j \in DOMAIN e : i = Len(s) + j
  <2> TAKE i \in DOMAIN t
  <2>1. CASE i <= Len(s)
    BY <1>1, <2>1
  <2>2. CASE i > Len(s)
    <3>1. i - Len(s) \in DOMAIN e /\ i = Len(s) + (i - Len(s))
      BY <1>1, <2>2
    <3> QED  BY <3>1
  <2> QED  BY <1>1, <2>1, <2>2
<1>3. DOMAIN s \subseteq DOMAIN t /\ \A j \in DOMAIN e : Len(s) + j \in DOMAIN t
  BY <1>1
<1>4. By(t, r) \subseteq By(s, r) \cup {e[i] : i \in DOMAIN e}
  <2> SUFFICES ASSUME NEW i \in DOMAIN t, t[i].by = r
               PROVE  t[i] \in By(s, r) \cup {e[j] : j \in DOMAIN e}
    BY DEF By
  <2> QED  BY <1>1, <1>2 DEF By
<1>5. By(s, r) \subseteq By(t, r)
  BY <1>1, <1>3 DEF By
<1>6. {e[i] : i \in DOMAIN e} \subseteq By(t, r)
  <2> SUFFICES ASSUME NEW j \in DOMAIN e PROVE e[j] \in By(t, r)
    OBVIOUS
  <2>1. Len(s) + j \in DOMAIN t /\ t[Len(s) + j] = e[j] /\ e[j].by = r
    BY <1>1, <1>3
  <2> QED  BY <2>1 DEF By
<1>7. ASSUME NEW x, x # r PROVE By(t, x) = By(s, x)
  <2>1. By(s, x) \subseteq By(t, x)
    BY <1>1, <1>3 DEF By
  <2>2. ASSUME NEW i \in DOMAIN t, t[i].by = x PROVE i \in DOMAIN s /\ t[i] = s[i]
    BY <1>1, <1>2, <1>7, <2>2
  <2>3. By(t, x) \subseteq By(s, x)
    BY <2>2 DEF By
  <2> QED  BY <2>1, <2>3
<1> QED  BY <1>4, <1>5, <1>6, <1>7 DEF t

---------------------------------------------------------------------------
(* What is left of a program. *)

\* What is left of a program once its first step has been taken.
\* What is left of a program once its first step has been taken.
LEMMA TailFacts ==
    ASSUME NEW t, t \in Seq(Steps), t # <<>>
    PROVE  /\ DOMAIN t = 1..Len(t) /\ Len(t) \in Nat /\ 1 \in DOMAIN t /\ Head(t) = t[1] /\ t[1] \in Steps
           /\ Tail(t) \in Seq(Steps) /\ Len(Tail(t)) = Len(t) - 1 /\ DOMAIN Tail(t) = 1..(Len(t) - 1)
           /\ \A i \in DOMAIN Tail(t) : i + 1 \in DOMAIN t /\ i + 1 # 1 /\ Tail(t)[i] = t[i + 1]
           /\ \A i \in DOMAIN t : i # 1 => i - 1 \in DOMAIN Tail(t) /\ i = (i - 1) + 1 /\ Tail(t)[i - 1] = t[i]
           /\ Tail(t) = <<>> <=> Len(t) = 1
<1>1. /\ Tail(t) \in Seq(Steps) /\ Len(Tail(t)) = Len(t) - 1
      /\ \A i \in 1..Len(Tail(t)) : Tail(t)[i] = t[i + 1]
  BY HeadTailProperties
<1>2. DOMAIN t = 1..Len(t) /\ Len(t) \in Nat /\ Len(t) # 0 /\ Head(t) = t[1]
  BY EmptySeq, LenProperties
<1>3. DOMAIN Tail(t) = 1..(Len(t) - 1)
  BY <1>1, LenProperties
<1>4. 1 \in DOMAIN t /\ t[1] \in Steps
  BY <1>2
<1>5. Tail(t) = <<>> <=> Len(t) = 1
  BY <1>1, <1>2, EmptySeq
<1>6. \A i \in DOMAIN t : i # 1 => i - 1 \in DOMAIN Tail(t) /\ i = (i - 1) + 1
  BY <1>2, <1>3
<1>7. \A i \in DOMAIN Tail(t) : i + 1 \in DOMAIN t /\ i + 1 # 1 /\ Tail(t)[i] = t[i + 1]
  BY <1>1, <1>2, <1>3
<1>8. \A i \in DOMAIN t : i # 1 => Tail(t)[i - 1] = t[i]
  <2> SUFFICES ASSUME NEW i \in DOMAIN t, i # 1 PROVE Tail(t)[i - 1] = t[i]
    OBVIOUS
  <2>1. i - 1 \in DOMAIN Tail(t) /\ (i - 1) + 1 = i
    BY <1>6
  <2> QED  BY <2>1, <1>7
<1> QED  BY <1>1, <1>2, <1>3, <1>4, <1>5, <1>6, <1>7, <1>8

\* A step is left if it is the next one, or is left after it.
\* A step is left if it is the next one, or is left after it.
LEMMA TailHas ==
    ASSUME NEW t, t \in Seq(Steps), t # <<>>, NEW S
    PROVE  Has(t, S) <=> Head(t) \in S \/ Has(Tail(t), S)
<1> DEFINE u == Tail(t)
<1>1. /\ 1 \in DOMAIN t /\ Head(t) = t[1]
      /\ \A i \in DOMAIN u : i + 1 \in DOMAIN t /\ u[i] = t[i + 1]
      /\ \A i \in DOMAIN t : i # 1 => i - 1 \in DOMAIN u /\ u[i - 1] = t[i]
  BY TailFacts
<1> HIDE DEF u
<1>2. Head(t) \in S => Has(t, S)
  BY <1>1 DEF Has
<1>3. Has(u, S) => Has(t, S)
  BY <1>1 DEF Has
<1>4. Has(t, S) => Head(t) \in S \/ Has(u, S)
  BY <1>1 DEF Has
<1> QED  BY <1>2, <1>3, <1>4 DEF u

\* What holds of a program by the order of its steps holds of what is left of it.
\* What holds of a program by the order of its steps holds of what is left of it.
LEMMA TailGood ==
    ASSUME NEW h, NEW t, Orderly(t), Fair(h, t), t # <<>>
    PROVE  Orderly(Tail(t)) /\ Fair(h, Tail(t))
<1> DEFINE u == Tail(t)
<1>1. t \in Seq(Steps)
  BY DEF Orderly
<1>2. /\ u \in Seq(Steps) /\ DOMAIN u = 1..(Len(t) - 1) /\ DOMAIN t = 1..Len(t) /\ Len(t) \in Nat /\ 1 \in DOMAIN t
      /\ \A i \in DOMAIN u : i + 1 \in DOMAIN t /\ i + 1 # 1 /\ u[i] = t[i + 1]
      /\ \A i \in DOMAIN t : i # 1 => i - 1 \in DOMAIN u /\ i = (i - 1) + 1 /\ u[i - 1] = t[i]
  BY <1>1, TailFacts
<1> HIDE DEF u
<1>3. \A i, j \in DOMAIN u : i < j =>
        /\ u[i] \notin Reads => u[j] \notin Reads \cup Changes
        /\ u[i] \in Logs => u[j] \notin Logs
  <2> SUFFICES ASSUME NEW i \in DOMAIN u, NEW j \in DOMAIN u, i < j
               PROVE  /\ t[i + 1] \notin Reads => t[j + 1] \notin Reads \cup Changes
                      /\ t[i + 1] \in Logs => t[j + 1] \notin Logs
    BY <1>2
  <2>1. i + 1 \in DOMAIN t /\ j + 1 \in DOMAIN t /\ i + 1 < j + 1
    BY <1>2
  <2> QED  BY <2>1 DEF Orderly
<1>4. ASSUME NEW i \in DOMAIN u, u[i] \in Changes
      PROVE  /\ \E j \in DOMAIN u : u[j] \in Logs
             /\ \A j \in DOMAIN u : u[j] \in Logs => i < j /\ Tells(u[i], u[j])
  <2>1. i + 1 \in DOMAIN t /\ t[i + 1] \in Changes /\ u[i] = t[i + 1]
    BY <1>2, <1>4
  <2>2. PICK k \in DOMAIN t : t[k] \in Logs
    BY <2>1 DEF Orderly
  <2>3. \A k2 \in DOMAIN t : t[k2] \in Logs => i + 1 < k2 /\ Tells(t[i + 1], t[k2])
    BY <2>1 DEF Orderly
  <2>4. k - 1 \in DOMAIN u /\ u[k - 1] = t[k]
    BY <1>2, <2>2, <2>3
  <2>5. ASSUME NEW j \in DOMAIN u, u[j] \in Logs PROVE i < j /\ Tells(u[i], u[j])
    BY <1>2, <2>1, <2>3, <2>5
  <2> QED  BY <2>2, <2>4, <2>5
<1>5. Orderly(u)
  BY <1>2, <1>3, <1>4 DEF Orderly
<1>6. ASSUME NEW i \in DOMAIN u
      PROVE  /\ u[i] \in Follows =>
                  \/ h \in LateFailures /\ \E j \in DOMAIN u : i < j /\ u[j] \in Logs
                  \/ h = "SetSuperAdmin" /\ \A j \in DOMAIN u : i < j => u[j] \notin Logs
             /\ u[i] = "assign" => h = "AssignVoucher"
             /\ u[i] \in Logs /\ h = "SetSuperAdmin" => u[i] = "logGranted"
             /\ u[i] \in {"admit", "logDenied"} => h = "Refused"
  <2>1. i + 1 \in DOMAIN t /\ u[i] = t[i + 1]
    BY <1>2
  <2>2. /\ u[i] = "assign" => h = "AssignVoucher"
        /\ u[i] \in Logs /\ h = "SetSuperAdmin" => u[i] = "logGranted"
        /\ u[i] \in {"admit", "logDenied"} => h = "Refused"
    BY <2>1 DEF Fair
  <2>3. ASSUME u[i] \in Follows, NEW k \in DOMAIN t, i + 1 < k, t[k] \in Logs
        PROVE  \E j \in DOMAIN u : i < j /\ u[j] \in Logs
    <3>1. k - 1 \in DOMAIN u /\ u[k - 1] = t[k] /\ i < k - 1
      BY <1>2, <2>3
    <3> QED  BY <2>3, <3>1
  <2>4. ASSUME \A k \in DOMAIN t : i + 1 < k => t[k] \notin Logs, NEW j \in DOMAIN u, i < j
        PROVE  u[j] \notin Logs
    BY <1>2, <2>4
  <2>5. u[i] \in Follows =>
          \/ h \in LateFailures /\ \E k \in DOMAIN t : i + 1 < k /\ t[k] \in Logs
          \/ h = "SetSuperAdmin" /\ \A k \in DOMAIN t : i + 1 < k => t[k] \notin Logs
    BY <2>1 DEF Fair
  <2> QED  BY <2>2, <2>3, <2>4, <2>5
<1> QED  BY <1>5, <1>6 DEF Fair, u

\* A page that was not the last puts the count back.
LEMMA PageGood ==
    ASSUME NEW h, NEW t, Orderly(t), Fair(h, t), t # <<>>, Head(t) \in Reads
    PROVE  LET u == <<"count">> \o t
           IN  /\ Orderly(u) /\ Fair(h, u) /\ u # <<>> /\ u \in Seq(Steps)
               /\ \A S : "count" \notin S => (Has(u, S) <=> Has(t, S))
               /\ \A i \in DOMAIN u : u[i] # "count" => i - 1 \in DOMAIN t /\ t[i - 1] = u[i]
               /\ \A j \in DOMAIN t : j + 1 \in DOMAIN u /\ u[j + 1] = t[j]
<1> DEFINE u == <<"count">> \o t
<1>1. /\ t \in Seq(Steps) /\ <<"count">> \in Seq(Steps) /\ Len(<<"count">>) = 1 /\ <<"count">>[1] = "count"
  BY DEF Orderly, Steps, Reads
<1>2. /\ u \in Seq(Steps) /\ Len(u) = 1 + Len(t) /\ DOMAIN u = 1..Len(u)
      /\ \A i \in 1..(1 + Len(t)) : u[i] = IF i <= 1 THEN "count" ELSE t[i - 1]
  <2>1. /\ u \in Seq(Steps) /\ Len(u) = Len(<<"count">>) + Len(t)
        /\ \A i \in 1..(Len(<<"count">>) + Len(t)) :
             u[i] = IF i <= Len(<<"count">>) THEN <<"count">>[i] ELSE t[i - Len(<<"count">>)]
    BY <1>1, ConcatProperties
  <2>2. DOMAIN u = 1..Len(u)
    BY <2>1, LenProperties
  <2> HIDE DEF u
  <2>3. Len(u) = 1 + Len(t)
    BY <1>1, <2>1
  <2>4. \A i \in 1..(1 + Len(t)) : u[i] = IF i <= 1 THEN "count" ELSE t[i - 1]
    <3> TAKE i \in 1..(1 + Len(t))
    <3>1. u[i] = IF i <= 1 THEN <<"count">>[i] ELSE t[i - 1]
      BY <1>1, <2>1
    <3>2. i <= 1 => i = 1
      OBVIOUS
    <3> QED  BY <3>1, <3>2, <1>1
  <2> QED  BY <2>1, <2>2, <2>3, <2>4
<1>3. /\ DOMAIN t = 1..Len(t) /\ Len(t) \in Nat /\ 1 \in DOMAIN t /\ Head(t) = t[1]
  BY <1>1, TailFacts
<1> HIDE DEF u
<1>4. u[1] = "count" /\ 1 \in DOMAIN u /\ \A j \in DOMAIN t : j + 1 \in DOMAIN u /\ u[j + 1] = t[j]
  BY <1>2, <1>3
<1>5. \A i \in DOMAIN u : i # 1 => i - 1 \in DOMAIN t /\ u[i] = t[i - 1]
  BY <1>2, <1>3
<1>6. "count" \in Reads /\ "count" \notin Changes \cup Follows \cup Logs /\ "count" # "assign"
      /\ "count" \notin {"admit", "logDenied"}
  BY DEF Reads, Changes, Follows, Logs, ReadLogs, ChangeLogs
<1>7. \A i, j \in DOMAIN u : i < j =>
        /\ u[i] \notin Reads => u[j] \notin Reads \cup Changes
        /\ u[i] \in Logs => u[j] \notin Logs
  <2> SUFFICES ASSUME NEW i \in DOMAIN u, NEW j \in DOMAIN u, i < j, i # 1
               PROVE  /\ t[i - 1] \notin Reads => t[j - 1] \notin Reads \cup Changes
                      /\ t[i - 1] \in Logs => t[j - 1] \notin Logs
    BY <1>2, <1>4, <1>5, <1>6
  <2>1. i - 1 \in DOMAIN t /\ j - 1 \in DOMAIN t /\ i - 1 < j - 1
    BY <1>2, <1>3, <1>5
  <2> QED  BY <2>1 DEF Orderly
<1>8. ASSUME NEW i \in DOMAIN u, u[i] \in Changes
      PROVE  /\ \E j \in DOMAIN u : u[j] \in Logs
             /\ \A j \in DOMAIN u : u[j] \in Logs => i < j /\ Tells(u[i], u[j])
  <2>1. i # 1 /\ i - 1 \in DOMAIN t /\ u[i] = t[i - 1]
    BY <1>4, <1>5, <1>6, <1>8
  <2>2. \E j \in DOMAIN t : t[j] \in Logs
    BY <1>8, <2>1 DEF Orderly
  <2>3. \A k \in DOMAIN t : t[k] \in Logs => i - 1 < k /\ Tells(t[i - 1], t[k])
    BY <1>8, <2>1 DEF Orderly
  <2>4. ASSUME NEW j \in DOMAIN u, u[j] \in Logs PROVE i < j /\ Tells(u[i], u[j])
    <3>1. j # 1 /\ j - 1 \in DOMAIN t /\ u[j] = t[j - 1]
      BY <1>4, <1>5, <1>6, <2>4
    <3>2. i - 1 < j - 1 /\ Tells(t[i - 1], t[j - 1])
      BY <2>3, <2>4, <3>1
    <3> QED  BY <1>2, <1>3, <2>1, <3>1, <3>2
  <2> QED  BY <1>4, <2>2, <2>4
<1>9. Orderly(u)
  BY <1>2, <1>7, <1>8 DEF Orderly
<1>10. ASSUME NEW i \in DOMAIN u
       PROVE  /\ u[i] \in Follows =>
                   \/ h \in LateFailures /\ \E j \in DOMAIN u : i < j /\ u[j] \in Logs
                   \/ h = "SetSuperAdmin" /\ \A j \in DOMAIN u : i < j => u[j] \notin Logs
              /\ u[i] = "assign" => h = "AssignVoucher"
              /\ u[i] \in Logs /\ h = "SetSuperAdmin" => u[i] = "logGranted"
              /\ u[i] \in {"admit", "logDenied"} => h = "Refused"
  <2>1. CASE i = 1
    BY <1>4, <1>6, <2>1
  <2>2. CASE i # 1
    <3>1. i - 1 \in DOMAIN t /\ u[i] = t[i - 1]
      BY <1>5, <2>2
    <3>2. /\ u[i] = "assign" => h = "AssignVoucher"
          /\ u[i] \in Logs /\ h = "SetSuperAdmin" => u[i] = "logGranted"
          /\ u[i] \in {"admit", "logDenied"} => h = "Refused"
      BY <3>1 DEF Fair
    <3>3. ASSUME u[i] \in Follows, NEW k \in DOMAIN t, i - 1 < k, t[k] \in Logs
          PROVE  \E j \in DOMAIN u : i < j /\ u[j] \in Logs
      <4>1. k + 1 \in DOMAIN u /\ u[k + 1] = t[k] /\ i < k + 1
        BY <1>2, <1>3, <1>4, <3>3
      <4> QED  BY <3>3, <4>1
    <3>4. ASSUME \A k \in DOMAIN t : i - 1 < k => t[k] \notin Logs, NEW j \in DOMAIN u, i < j
          PROVE  u[j] \notin Logs
      <4>1. j # 1 /\ i - 1 < j - 1
        BY <1>2, <3>4
      <4> QED  BY <1>5, <3>4, <4>1
    <3>5. u[i] \in Follows =>
            \/ h \in LateFailures /\ \E k \in DOMAIN t : i - 1 < k /\ t[k] \in Logs
            \/ h = "SetSuperAdmin" /\ \A k \in DOMAIN t : i - 1 < k => t[k] \notin Logs
      BY <3>1 DEF Fair
    <3> QED  BY <3>2, <3>3, <3>4, <3>5
  <2> QED  BY <2>1, <2>2
<1>11. Fair(h, u)
  BY <1>10 DEF Fair
<1>12. ASSUME NEW S, "count" \notin S PROVE Has(u, S) <=> Has(t, S)
  BY <1>4, <1>5, <1>12 DEF Has
<1>13. u # <<>>
  BY <1>4
<1>14. \A i \in DOMAIN u : u[i] # "count" => i - 1 \in DOMAIN t /\ t[i - 1] = u[i]
  BY <1>4, <1>5
<1> QED  BY <1>2, <1>4, <1>9, <1>11, <1>12, <1>13, <1>14 DEF u
---------------------------------------------------------------------------
(* The tables of the trail, and what each handler holds. *)

Views ==
    [before : Row \cup {NoRow}, other : Row \cup {NoRow}, loaded : Row \cup {NoRow}, after : Row \cup {NoRow},
     id : Nat, total : Nat, offset : Nat, file : Seq(RowId), carried : Nat]
ChangeType ==
    [by : Reqs, id : RowId, old : Nat \cup {NoRow}, new : Nat \cup {NoRow}, gone : SUBSET RowId]
Window == [emitted : Nat, suppressed : Nat]

Elements(C) == {C[k] : k \in DOMAIN C}
History == Elements(done)

TrailTables ==
    /\ rows \in [RowId -> Row \cup {NoRow}] /\ nextRow \in Nat
    /\ \A i \in RowId : There(i) => i < nextRow
    /\ IsSeq(trail) /\ IsSeq(done) /\ History \subseteq ChangeType
    /\ todo \in [Reqs -> Seq(Steps)] /\ view \in [Reqs -> Views]
    /\ throttle \in Window \cup {NoRow}

\* A row that is saved whole was loaded: its id is not given out again, and its parent
\* is the one it was loaded under.
Saving(r) ==
    pc[r] = "trail" /\ Due(todo[r], "save", {"load"})
Saves(r) ==
    Saving(r) =>
        /\ view[r].loaded \in Row /\ view[r].loaded.under = q[r].under /\ q[r].id < nextRow
        /\ There(q[r].id) => Target(r).under = q[r].under
SavesAgree ==
    \A r, s \in Reqs : Saving(r) /\ Saving(s) /\ q[r].id = q[s].id => q[r].under = q[s].under

Ready(r) ==
    /\ pc[r] = "idle" => view[r] = Nothing
    /\ pc[r] = "trail" => todo[r] # <<>> /\ Orderly(todo[r]) /\ Fair(Handler(r), todo[r])
    /\ Saves(r)

\* What a handler holds after it has read.
Looks(r) ==
    LET h == Head(todo[r])
        v == view[r]
        w == view'[r]
    IN  /\ w.id = v.id /\ w.after = v.after
        /\ w.loaded = IF h = "load" THEN Target(r) ELSE v.loaded
        /\ h \notin {"fetch", "peek"} => w.before = v.before
        /\ h = "fetch" => w.before = Target(r)
        /\ h = "peek" => w.before \in {Target(r), NoRow}
        /\ w.other = v.other \/ (h = "peekOther" /\ w.other \in {rows[q[r].other], NoRow})
        /\ h # "page" => w.file = v.file /\ w.offset = v.offset
        /\ w.total = IF h = "count" THEN Cardinality(Listed) ELSE v.total
        /\ h # "admit" => w.carried = v.carried

\* The kinds of steps.
Reading(r) ==
    /\ Head(todo[r]) \in Reads \cup Follows /\ Proceed(r)
    /\ UNCHANGED <<rows, nextRow, trail, done>>
    /\ Head(todo[r]) \in {"fetch", "check", "load"} => Reached(r)
    /\ Looks(r)
Paging(r) ==
    /\ Head(todo[r]) = "page" /\ todo' = [todo EXCEPT ![r] = <<"count">> \o @]
    /\ UNCHANGED <<pc, resp, rows, nextRow, trail, done, throttle>> /\ Looks(r)
Refusing(r) ==
    /\ Head(todo[r]) \in Reads \cup Changes /\ Stop(r, "refused")
    /\ UNCHANGED <<rows, nextRow, done, view, throttle>>
    /\ \/ UNCHANGED trail
       \/ trail' = trail \o <<Entry(r, "refusal", {q[r].id}, NoRow, NoRow)>>
Failing(r) ==
    /\ Head(todo[r]) \in Follows /\ Stop(r, "failed")
    /\ UNCHANGED <<rows, nextRow, trail, done, view, throttle>>
Denying(r) ==
    /\ Head(todo[r]) = "admit" /\ Stop(r, "denied")
    /\ UNCHANGED <<rows, nextRow, trail, done, view>>
Changing(r) ==
    \/ Insert(r) \/ Assign(r) \/ Update(r) \/ Amend(r) \/ Move(r) \/ SaveRow(r) \/ Delete(r)
    \/ Replace(r) \/ Merge(r)
Logging(r) ==
    \/ LogResourceCreate(r) \/ LogResourceUpdate(r) \/ LogResourceUpdateWithChanges(r)
    \/ LogResourceDelete(r) \/ LogResourceDeleteWithSnapshot(r) \/ LogAmended(r) \/ LogMoved(r)
    \/ LogResourceUpdateAcrossOrgs(r) \/ LogRoleChange(r) \/ LogSuperAdminChange(r)
    \/ LogResourceImport(r) \/ LogDataExport(r) \/ LogAccessDenied(r)

\* A request of the trail has the fields of one.
LEMMA TrailBody ==
    ASSUME NEW r \in Reqs, Kinds(r), pc[r] = "trail" \/ (Sent(r) /\ q[r].kind = "trail")
    PROVE  /\ q[r] \in TrailRequests /\ q[r].kind = "trail" /\ Sent(r)
           /\ Handler(r) \in DOMAIN Handlers /\ q[r].id \in RowId /\ q[r].other \in RowId
           /\ q[r].under \in 0..MaxRow /\ q[r].val \in Nat /\ q[r].known \in BOOLEAN
<1>1. pc[r] # "idle" /\ q[r] \in Request
  BY DEF Kinds, Sent
<1>2. q[r].kind = "trail"
  BY <1>1 DEF Kinds, Fits, UserKinds
<1>3. q[r] \in TrailRequests
  BY <1>1, <1>2, KindSets
<1>4. q[r] # NoRequest
  BY <1>1, RequestSentinel
<1> QED  BY <1>2, <1>3, <1>4 DEF TrailRequests, Handler, Sent

---------------------------------------------------------------------------
(* What a service changes, and what it puts on record of it. *)

Changed(S) == {c.id : c \in S}

\* Each row that differs after the step is told by one of the changes.
Accounts(r, S) ==
    /\ S \subseteq ChangeType /\ \A c \in S : c.by = r
    /\ rows' \in [RowId -> Row \cup {NoRow}] /\ nextRow' \in Nat /\ nextRow' >= nextRow
    /\ \A i \in RowId : rows'[i] # NoRow => i < nextRow'
    /\ \A i \in RowId : rows'[i] # rows[i] =>
         /\ \E c \in S : i \in Touched(c)
         /\ rows'[i] = NoRow => \E c \in S : i \in c.gone
         /\ rows'[i] = NoRow /\ rows[i].under = 0 => \E c \in S : c.new = NoRow
         /\ rows[i] = NoRow =>
              /\ \E c \in S : c.old = NoRow
              /\ i >= nextRow \/ (Head(todo[r]) = "save" /\ i = q[r].id)
         /\ rows[i] # NoRow /\ rows'[i] # NoRow =>
              /\ rows'[i].under = rows[i].under
              /\ rows'[i].ver > rows[i].ver \/ (Head(todo[r]) \in {"save", "replace", "merge"} /\ i = q[r].id)
Recorded(r, C) == IsSeq(C) /\ done' = done \o C /\ Accounts(r, Elements(C))

\* The rows and the values an entry can be made of.
Told(r, S) ==
    LET h == Head(todo[r])
        v == view'[r]
    IN  /\ h \in {"create", "assign", "replace", "merge"} => Changed(S) = {v.id} \/ (h = "assign" /\ S = {})
        /\ h \in {"change", "save", "drop", "remove"} =>
             /\ Changed(S) = {q[r].id} \/ (h = "drop" /\ ~There(q[r].id) /\ S = {})
             /\ \A c \in S : c.old = Val(Target(r))
        /\ h \in {"change", "save", "move"} => v.after \in Row /\ v.after.val = q[r].val /\ \A c \in S : c.new = q[r].val
        /\ h \in {"drop", "remove"} => \A c \in S : c.new = NoRow
        /\ h = "amend" =>
             /\ Changed(S) = {q[r].id, v.id} /\ v.id # q[r].id /\ v.after \in Row
             /\ \A c \in S : c.id = q[r].id => c.old = Val(Target(r)) /\ c.new = v.after.val
        /\ h = "move" =>
             /\ Changed(S) = {q[r].id, q[r].other} /\ v.loaded \in Row /\ v.loaded.val = q[r].val
             /\ \A c \in S : c.old = Val(rows[c.id])

\* What a handler holds beside the answer of its service.
Kept(r) ==
    /\ view' \in [Reqs -> Views] /\ \A s \in Reqs \ {r} : view'[s] = view[s]
    /\ view'[r].before = view[r].before /\ view'[r].other = view[r].other
    /\ view'[r].carried = view[r].carried /\ view'[r].file = view[r].file

\* One statement changes no row, one or two (an amendment, a boundary move).
\* One statement changes no row, one or two (an amendment, a boundary move).
LEMMA Few ==
    /\ IsSeq(<<>>) /\ Elements(<<>>) = {}
    /\ \A a : IsSeq(<<a>>) /\ Elements(<<a>>) = {a}
    /\ \A a, b : IsSeq(<<a, b>>) /\ Elements(<<a, b>>) = {a, b}
<1>1. IsSeq(<<>>) /\ Elements(<<>>) = {}
  BY DEF IsSeq, Elements
<1>2. ASSUME NEW a PROVE IsSeq(<<a>>) /\ Elements(<<a>>) = {a}
  <2> DEFINE p == <<a>>
  <2>1. DOMAIN p = {1} /\ p[1] = a /\ p \in Seq({a})
    BY Tuples
  <2> HIDE DEF p
  <2>2. {p[i] : i \in DOMAIN p} = {a}
    BY <2>1
  <2> QED  BY <2>1, <2>2 DEF IsSeq, Elements, p
<1>3. ASSUME NEW a, NEW b PROVE IsSeq(<<a, b>>) /\ Elements(<<a, b>>) = {a, b}
  <2> DEFINE p == <<a, b>>
  <2>1. DOMAIN p = {1, 2} /\ p[1] = a /\ p[2] = b /\ p \in Seq({a, b})
    BY Tuples
  <2> HIDE DEF p
  <2>2. {p[i] : i \in DOMAIN p} = {a, b}
    BY <2>1
  <2> QED  BY <2>1, <2>2 DEF IsSeq, Elements, p
<1> QED  BY <1>1, <1>2, <1>3

\* The kinds of values rows have, and what a deletion takes with a row.
\* The kinds of values rows have, and what a deletion takes with a row.
LEMMA RowFacts ==
    /\ \A x \in Row : x # NoRow /\ x.under \in 0..MaxRow /\ x.val \in Nat /\ x.ver \in Nat
    /\ \A i : Below(i) \subseteq RowId \cup {i} /\ i \in Below(i)
    /\ \A i \in RowId : i \in Nat /\ i # 0
<1>1. ASSUME NEW x \in Row PROVE x # NoRow /\ x.under \in 0..MaxRow /\ x.val \in Nat /\ x.ver \in Nat
  BY <1>1, TrailSentinels DEF Row
<1>2. \A i : Below(i) \subseteq RowId \cup {i} /\ i \in Below(i)
  BY DEF Below, Under
<1>3. \A i \in RowId : i \in Nat /\ i # 0
  BY DEF RowId
<1> QED  BY <1>1, <1>2, <1>3

\* A row with a new value has the next version.
Stamped(y, v) == [y EXCEPT !.val = v, !.ver = @ + 1]

\* An update keeps the parent of a row and moves its version on.
\* An update keeps the parent of a row and moves its version on.
LEMMA StampedFacts ==
    ASSUME NEW y \in Row, NEW v \in Nat
    PROVE  /\ Stamped(y, v) \in Row /\ Stamped(y, v) # NoRow /\ Stamped(y, v).under = y.under
           /\ Stamped(y, v).val = v /\ Stamped(y, v).ver = y.ver + 1 /\ Stamped(y, v).ver > y.ver
<1>1. y.ver \in Nat /\ y.ver + 1 \in Nat /\ y.under \in 0..MaxRow /\ y.ver + 1 > y.ver
  BY RowFacts
<1>2. Stamped(y, v) = [under |-> y.under, val |-> v, ver |-> y.ver + 1]
  <2>1. y = [under |-> y.under, val |-> y.val, ver |-> y.ver]
    BY DEF Row
  <2>2. PICK a, b, c : a = y.under /\ b = y.val /\ c = y.ver /\ y = [under |-> a, val |-> b, ver |-> c]
    BY <2>1
  <2> DEFINE z == [y EXCEPT !.val = v]
  <2>3. z = [under |-> a, val |-> v, ver |-> c]
    BY <2>2
  <2>4. ASSUME NEW d PROVE [[under |-> a, val |-> v, ver |-> c] EXCEPT !.ver = d] = [under |-> a, val |-> v, ver |-> d]
    OBVIOUS
  <2>5. Stamped(y, v) = [z EXCEPT !.ver = y.ver + 1]
    BY DEF Stamped
  <2> HIDE DEF z
  <2> QED  BY <2>2, <2>3, <2>4, <2>5
<1>3. /\ Stamped(y, v) \in Row /\ Stamped(y, v).under = y.under
      /\ Stamped(y, v).val = v /\ Stamped(y, v).ver = y.ver + 1
  BY <1>1, <1>2 DEF Row
<1> QED  BY <1>1, <1>3, RowFacts

\* The create services: what is recorded is the row that was inserted.
\* The create services: what is recorded is the row that was inserted.
LEMMA InsertRecorded ==
    ASSUME TrailTables, NEW r \in Reqs, Kinds(r), pc[r] = "trail", Ready(r), Insert(r)
    PROVE  Kept(r) /\ \E C : Recorded(r, C) /\ Told(r, Elements(C))
<1> USE DEF At
<1> DEFINE x == FreshRow(r, q[r].under)
           c == Change(r, nextRow, NoRow, x)
           C == <<c>>
           h == Head(todo[r])
<1>1. /\ h = "create" \/ h = "assign"
      /\ nextRow \in RowId /\ rows' = [rows EXCEPT ![nextRow] = x] /\ done' = done \o C
      /\ view' = [view EXCEPT ![r].id = nextRow] /\ nextRow' = nextRow + 1
  BY DEF Insert, Write, Hold
<1>2. x \in Row /\ x # NoRow /\ x.under = q[r].under /\ x.val = q[r].val
  <2>1. x \in Row /\ x.under = q[r].under /\ x.val = q[r].val
    BY TrailBody DEF FreshRow, Row
  <2> QED  BY <2>1, RowFacts
<1> HIDE DEF x
<1>3. c \in ChangeType /\ c.by = r /\ c.id = nextRow /\ c.old = NoRow /\ nextRow \in Touched(c)
  BY <1>1, <1>2, RowFacts DEF Change, ChangeType, Val, Touched
<1> HIDE DEF c
<1>4. IsSeq(C) /\ Elements(C) = {c}
  BY Few
<1> HIDE DEF C
<1>5. rows \in [RowId -> Row \cup {NoRow}] /\ nextRow \in Nat /\ \A i \in RowId : rows[i] # NoRow => i < nextRow
  BY DEF TrailTables, There
<1>6. rows' \in [RowId -> Row \cup {NoRow}] /\ nextRow' \in Nat /\ nextRow' >= nextRow
  BY <1>1, <1>2, <1>5
<1>7. \A i \in RowId : rows'[i] # NoRow => i < nextRow'
  BY <1>1, <1>5, RowFacts
<1>8. rows[nextRow] = NoRow
  BY <1>1, <1>5
<1>9. Recorded(r, C)
  BY <1>1, <1>2, <1>3, <1>4, <1>5, <1>6, <1>7, <1>8 DEF Recorded, Accounts
<1>10. Kept(r) /\ view'[r].id = nextRow
  BY <1>1, <1>5 DEF TrailTables, Views, Kept
<1>11. Told(r, Elements(C))
  BY <1>1, <1>3, <1>4, <1>10 DEF Told, Changed
<1> QED  BY <1>9, <1>10, <1>11

\* Corrections and role changes: the row, under its next version.
\* Corrections and role changes: the row, under its next version.
LEMMA UpdateRecorded ==
    ASSUME TrailTables, NEW r \in Reqs, Kinds(r), pc[r] = "trail", Ready(r), Update(r)
    PROVE  Kept(r) /\ \E C : Recorded(r, C) /\ Told(r, Elements(C))
<1> USE DEF At
<1> DEFINE x == [Target(r) EXCEPT !.val = q[r].val, !.ver = @ + 1]
           c == Change(r, q[r].id, Target(r), x)
           C == <<c>>
           h == Head(todo[r])
           i0 == q[r].id
<1>1. /\ h = "change" /\ Reached(r)
      /\ rows' = [rows EXCEPT ![i0] = x] /\ done' = done \o C
      /\ view' = [view EXCEPT ![r].after = x, ![r].id = i0] /\ nextRow' = nextRow
  BY DEF Update, Write
<1>2. i0 \in RowId /\ i0 \in Nat /\ q[r].val \in Nat
  BY TrailBody, RowFacts
<1>3. rows \in [RowId -> Row \cup {NoRow}] /\ nextRow \in Nat /\ \A i \in RowId : rows[i] # NoRow => i < nextRow
  BY DEF TrailTables, There
<1>4. Target(r) = rows[i0] /\ rows[i0] \in Row /\ rows[i0] # NoRow
  BY <1>1, <1>2, <1>3 DEF Target, Reached, There
<1>5. /\ x \in Row /\ x # NoRow /\ x.under = rows[i0].under /\ x.val = q[r].val
      /\ x.ver = rows[i0].ver + 1 /\ x.ver > rows[i0].ver
  <2>1. x = Stamped(rows[i0], q[r].val)
    BY <1>4 DEF Stamped
  <2> QED  BY <1>2, <1>4, <2>1, StampedFacts
<1> HIDE DEF x, i0
<1>6. /\ c \in ChangeType /\ c.by = r /\ c.id = i0 /\ i0 \in Touched(c)
      /\ c.old = Val(Target(r)) /\ c.new = q[r].val
  BY <1>2, <1>4, <1>5, RowFacts DEF Change, ChangeType, Val, Touched, i0
<1> HIDE DEF c
<1>7. IsSeq(C) /\ Elements(C) = {c}
  BY Few
<1> HIDE DEF C
<1>8. rows' \in [RowId -> Row \cup {NoRow}] /\ nextRow' \in Nat /\ nextRow' >= nextRow
  <2>1. rows' \in [RowId -> Row \cup {NoRow}]
    BY <1>1, <1>3, <1>5
  <2> QED  BY <1>1, <1>3, <2>1
<1>9. \A i \in RowId : rows'[i] # NoRow => i < nextRow'
  BY <1>1, <1>3, <1>4, <1>2
<1>10. \A i \in RowId : rows'[i] # rows[i] => i = i0 /\ rows'[i] = x
  BY <1>1, <1>3
<1>11. Recorded(r, C)
  BY <1>1, <1>2, <1>4, <1>5, <1>6, <1>7, <1>8, <1>9, <1>10 DEF Recorded, Accounts
<1>12. Kept(r) /\ view'[r].id = i0 /\ view'[r].after = x
  BY <1>1, <1>2, <1>5 DEF TrailTables, Views, Kept
<1>13. Told(r, Elements(C))
  BY <1>1, <1>5, <1>6, <1>7, <1>12 DEF Told, Changed, i0
<1> QED  BY <1>11, <1>12, <1>13

\* A save of a whole row: of the one it loaded, over what is there, or there again.
\* A save of a whole row: of the one it loaded, over what is there, or there again.
LEMMA SaveRecorded ==
    ASSUME TrailTables, NEW r \in Reqs, Kinds(r), pc[r] = "trail", Ready(r), SaveRow(r)
    PROVE  Kept(r) /\ \E C : Recorded(r, C) /\ Told(r, Elements(C))
<1> USE DEF At
<1> DEFINE x == [view[r].loaded EXCEPT !.val = q[r].val]
           c == Change(r, q[r].id, Target(r), x)
           C == <<c>>
           h == Head(todo[r])
           i0 == q[r].id
<1>1. /\ h = "save"
      /\ rows' = [rows EXCEPT ![i0] = x] /\ done' = done \o C
      /\ view' = [view EXCEPT ![r].after = x, ![r].id = i0] /\ nextRow' = nextRow
  BY DEF SaveRow, Write
<1>2. i0 \in RowId /\ i0 \in Nat /\ q[r].val \in Nat
  BY TrailBody, RowFacts
<1>3. rows \in [RowId -> Row \cup {NoRow}] /\ nextRow \in Nat /\ \A i \in RowId : rows[i] # NoRow => i < nextRow
  BY DEF TrailTables, There
<1>4. Target(r) = rows[i0] /\ rows[i0] \in Row \cup {NoRow}
  BY <1>1, <1>2, <1>3 DEF Target
<1>5. /\ view[r].loaded \in Row /\ view[r].loaded.under = q[r].under /\ i0 < nextRow
      /\ rows[i0] # NoRow => rows[i0].under = q[r].under
  <2>1. todo[r] \in Seq(Steps) /\ todo[r] # <<>>
    BY DEF TrailTables, Ready
  <2>2. 1 \in DOMAIN todo[r] /\ todo[r][1] = "save" /\ DOMAIN todo[r] = 1..Len(todo[r]) /\ Len(todo[r]) \in Nat
    BY <1>1, <2>1, TailFacts
  <2>3. ~Before(todo[r], 1, {"load"})
    BY <2>2 DEF Before
  <2>4. Saving(r)
    BY <2>2, <2>3 DEF Saving, Due
  <2> QED  BY <2>4 DEF Ready, Saves, There, Target
<1>6. x \in Row /\ x # NoRow /\ x.under = q[r].under /\ x.val = q[r].val
  <2>1. x \in Row /\ x.under = q[r].under /\ x.val = q[r].val
    BY <1>2, <1>5 DEF Row
  <2> QED  BY <2>1, RowFacts
<1> HIDE DEF x, i0
<1>7. /\ c \in ChangeType /\ c.by = r /\ c.id = i0 /\ i0 \in Touched(c)
      /\ c.old = Val(Target(r)) /\ c.new = q[r].val
  BY <1>2, <1>4, <1>6, RowFacts DEF Change, ChangeType, Val, Touched, i0
<1>8. rows[i0] = NoRow => c.old = NoRow
  BY <1>4, <1>7 DEF Val
<1> HIDE DEF c
<1>9. IsSeq(C) /\ Elements(C) = {c}
  BY Few
<1> HIDE DEF C
<1>10. rows' \in [RowId -> Row \cup {NoRow}] /\ nextRow' \in Nat /\ nextRow' >= nextRow
  <2>1. rows' \in [RowId -> Row \cup {NoRow}]
    BY <1>1, <1>3, <1>6
  <2> QED  BY <1>1, <1>3, <2>1
<1>11. \A i \in RowId : rows'[i] # NoRow => i < nextRow'
  BY <1>1, <1>3, <1>5, <1>2
<1>12. \A i \in RowId : rows'[i] # rows[i] => i = i0 /\ rows'[i] = x
  BY <1>1, <1>3
<1>13. Recorded(r, C)
  BY <1>1, <1>2, <1>5, <1>6, <1>7, <1>8, <1>9, <1>10, <1>11, <1>12 DEF Recorded, Accounts, i0
<1>14. Kept(r) /\ view'[r].id = i0 /\ view'[r].after = x
  BY <1>1, <1>2, <1>6 DEF TrailTables, Views, Kept
<1>15. Told(r, Elements(C))
  BY <1>1, <1>6, <1>7, <1>9, <1>14 DEF Told, Changed, i0
<1> QED  BY <1>13, <1>14, <1>15

\* AssignVoucher of a voucher the child has: nothing is changed, and it is said so.
\* AssignVoucher of a voucher the child has: nothing is changed, and it is said so.
LEMMA AssignRecorded ==
    ASSUME TrailTables, NEW r \in Reqs, Kinds(r), pc[r] = "trail", Ready(r), Assign(r)
    PROVE  Kept(r) /\ \E C : Recorded(r, C) /\ Told(r, Elements(C))
<1> USE DEF At
<1>1. /\ Head(todo[r]) = "assign" /\ UNCHANGED <<rows, nextRow, done>>
      /\ view' = [view EXCEPT ![r].id = q[r].id]
  BY DEF Assign, Hold
<1>2. done \o <<>> = done
  BY ConcatEmptySeq DEF TrailTables, IsSeq
<1>3. rows \in [RowId -> Row \cup {NoRow}] /\ nextRow \in Nat /\ \A i \in RowId : rows[i] # NoRow => i < nextRow
  BY DEF TrailTables, There
<1>4. nextRow >= nextRow
  BY <1>3
<1>5. Recorded(r, <<>>)
  BY <1>1, <1>2, <1>3, <1>4, Few DEF Recorded, Accounts
<1>6. q[r].id \in Nat
  BY TrailBody, RowFacts
<1>8. Kept(r)
  BY <1>1, <1>6 DEF TrailTables, Views, Kept
<1>7. Told(r, Elements(<<>>))
  BY <1>1, Few DEF Told, Changed
<1> QED  BY <1>5, <1>7, <1>8

\* An amendment: the closed contract and its successor.
\* An amendment: the closed contract and its successor.
LEMMA AmendRecorded ==
    ASSUME TrailTables, NEW r \in Reqs, Kinds(r), pc[r] = "trail", Ready(r), Amend(r)
    PROVE  Kept(r) /\ \E C : Recorded(r, C) /\ Told(r, Elements(C))
<1> USE DEF At
<1> DEFINE x == Stamped(Target(r), 0)
           y == FreshRow(r, q[r].under)
           c == Change(r, q[r].id, Target(r), x)
           d == Change(r, nextRow, NoRow, y)
           C == <<c, d>>
           h == Head(todo[r])
           i0 == q[r].id
<1>1. /\ h = "amend" /\ Reached(r) /\ nextRow \in RowId
      /\ rows' = [rows EXCEPT ![i0] = x, ![nextRow] = y] /\ done' = done \o C
      /\ view' = [view EXCEPT ![r].after = x, ![r].id = nextRow] /\ nextRow' = nextRow + 1
  BY DEF Amend, Write, Stamped
<1>2. i0 \in RowId /\ i0 \in Nat /\ 0 \in Nat
  BY TrailBody, RowFacts
<1>3. rows \in [RowId -> Row \cup {NoRow}] /\ nextRow \in Nat /\ \A i \in RowId : rows[i] # NoRow => i < nextRow
  BY DEF TrailTables, There
<1>4. Target(r) = rows[i0] /\ rows[i0] \in Row /\ rows[i0] # NoRow /\ i0 < nextRow /\ i0 # nextRow
  BY <1>1, <1>2, <1>3 DEF Target, Reached, There
<1>5. /\ x \in Row /\ x # NoRow /\ x.under = rows[i0].under /\ x.val = 0
      /\ x.ver = rows[i0].ver + 1 /\ x.ver > rows[i0].ver
  BY <1>2, <1>4, StampedFacts
<1>6. y \in Row /\ y # NoRow
  <2>1. y \in Row
    BY TrailBody DEF FreshRow, Row
  <2> QED  BY <2>1, RowFacts
<1> HIDE DEF x, y, i0
<1>7. /\ c \in ChangeType /\ c.by = r /\ c.id = i0 /\ i0 \in Touched(c)
      /\ c.old = Val(Target(r)) /\ c.new = x.val
  BY <1>2, <1>4, <1>5, RowFacts DEF Change, ChangeType, Val, Touched, i0
<1>8. d \in ChangeType /\ d.by = r /\ d.id = nextRow /\ d.old = NoRow /\ nextRow \in Touched(d)
  BY <1>1, <1>6, RowFacts DEF Change, ChangeType, Val, Touched
<1> HIDE DEF c, d
<1>9. IsSeq(C) /\ Elements(C) = {c, d}
  BY Few
<1> HIDE DEF C
<1>10. rows' \in [RowId -> Row \cup {NoRow}]
  BY <1>1, <1>3, <1>5, <1>6
<1>11. nextRow' \in Nat /\ nextRow' >= nextRow
  BY <1>1, <1>3
<1>12. \A i \in RowId : rows'[i] # NoRow => i < nextRow'
  BY <1>1, <1>2, <1>3, <1>4, RowFacts
<1>13. /\ \A i \in RowId : rows'[i] # rows[i] => i = i0 \/ i = nextRow
       /\ rows'[i0] = x /\ rows'[nextRow] = y /\ rows[nextRow] = NoRow
  BY <1>1, <1>2, <1>3, <1>4
<1>17. nextRow >= nextRow
  BY <1>3
<1>18. \A i \in RowId : rows'[i] # rows[i] =>
         /\ \E e \in {c, d} : i \in Touched(e)
         /\ rows'[i] # NoRow
         /\ rows[i] = NoRow => d.old = NoRow /\ i >= nextRow
         /\ rows[i] # NoRow => i = i0 /\ rows'[i].under = rows[i].under /\ rows'[i].ver > rows[i].ver
  BY <1>4, <1>5, <1>6, <1>7, <1>8, <1>13, <1>17
<1>14. Recorded(r, C)
  BY <1>1, <1>7, <1>8, <1>9, <1>10, <1>11, <1>12, <1>18 DEF Recorded, Accounts
<1>15. Kept(r) /\ view'[r].id = nextRow /\ view'[r].after = x
  BY <1>1, <1>3, <1>5 DEF TrailTables, Views, Kept
<1>16. Told(r, Elements(C))
  BY <1>1, <1>4, <1>5, <1>7, <1>8, <1>9, <1>15 DEF Told, Changed, i0
<1> QED  BY <1>14, <1>15, <1>16

\* A boundary move: both contracts.
\* A boundary move: both contracts.
LEMMA MoveRecorded ==
    ASSUME TrailTables, NEW r \in Reqs, Kinds(r), pc[r] = "trail", Ready(r), Move(r)
    PROVE  Kept(r) /\ \E C : Recorded(r, C) /\ Told(r, Elements(C))
<1> USE DEF At
<1> DEFINE x == Stamped(Target(r), q[r].val)
           y == Stamped(rows[q[r].other], q[r].val)
           c == Change(r, q[r].id, Target(r), x)
           d == Change(r, q[r].other, rows[q[r].other], y)
           C == <<c, d>>
           h == Head(todo[r])
           i0 == q[r].id
           j0 == q[r].other
<1>1. /\ h = "move" /\ Reached(r) /\ There(j0)
      /\ rows' = [rows EXCEPT ![i0] = x, ![j0] = y] /\ done' = done \o C
      /\ view' = [view EXCEPT ![r].after = x, ![r].loaded = y] /\ nextRow' = nextRow
  BY DEF Move, Write, Stamped
<1>2. i0 \in RowId /\ i0 \in Nat /\ j0 \in RowId /\ j0 \in Nat /\ q[r].val \in Nat
  BY TrailBody, RowFacts
<1>3. rows \in [RowId -> Row \cup {NoRow}] /\ nextRow \in Nat /\ \A i \in RowId : rows[i] # NoRow => i < nextRow
  BY DEF TrailTables, There
<1>4. /\ Target(r) = rows[i0] /\ rows[i0] \in Row /\ rows[i0] # NoRow
      /\ rows[j0] \in Row /\ rows[j0] # NoRow
  BY <1>1, <1>2, <1>3 DEF Target, Reached, There
<1>5. /\ x \in Row /\ x # NoRow /\ x.under = rows[i0].under /\ x.val = q[r].val /\ x.ver > rows[i0].ver
      /\ y \in Row /\ y # NoRow /\ y.under = rows[j0].under /\ y.val = q[r].val /\ y.ver > rows[j0].ver
      /\ i0 = j0 => x = y
  <2>1. /\ x \in Row /\ x # NoRow /\ x.under = rows[i0].under /\ x.val = q[r].val /\ x.ver > rows[i0].ver
    <3>1. Target(r) \in Row /\ q[r].val \in Nat
      BY <1>2, <1>4
    <3>2. /\ x \in Row /\ x # NoRow /\ x.under = Target(r).under /\ x.val = q[r].val /\ x.ver > Target(r).ver
      BY <3>1, StampedFacts
    <3> QED  BY <1>4, <3>2
  <2>2. /\ y \in Row /\ y # NoRow /\ y.under = rows[j0].under /\ y.val = q[r].val /\ y.ver > rows[j0].ver
    BY <1>2, <1>4, StampedFacts
  <2>3. i0 = j0 => x = y
    BY DEF Target
  <2> QED  BY <2>1, <2>2, <2>3
<1> HIDE DEF x, y, i0, j0
<1>6. /\ c \in ChangeType /\ c.by = r /\ c.id = i0 /\ i0 \in Touched(c)
      /\ c.old = Val(rows[i0]) /\ c.new = q[r].val
  BY <1>2, <1>4, <1>5, RowFacts DEF Change, ChangeType, Val, Touched, i0
<1>7. /\ d \in ChangeType /\ d.by = r /\ d.id = j0 /\ j0 \in Touched(d)
      /\ d.old = Val(rows[j0]) /\ d.new = q[r].val
  BY <1>2, <1>4, <1>5, RowFacts DEF Change, ChangeType, Val, Touched, j0
<1> HIDE DEF c, d
<1>8. IsSeq(C) /\ Elements(C) = {c, d}
  BY Few
<1> HIDE DEF C
<1>9. rows' \in [RowId -> Row \cup {NoRow}]
  BY <1>1, <1>3, <1>5
<1>10. nextRow' \in Nat /\ nextRow' >= nextRow
  BY <1>1, <1>3
<1>11. \A i \in RowId : rows'[i] # NoRow => i < nextRow'
  BY <1>1, <1>2, <1>3, <1>4
<1>12. /\ \A i \in RowId : rows'[i] # rows[i] => i = i0 \/ i = j0
       /\ rows'[i0] = x /\ rows'[j0] = y
  BY <1>1, <1>2, <1>3, <1>5
<1>13. Recorded(r, C)
  BY <1>1, <1>2, <1>4, <1>5, <1>6, <1>7, <1>8, <1>9, <1>10, <1>11, <1>12 DEF Recorded, Accounts
<1>14. Kept(r) /\ view'[r].after = x /\ view'[r].loaded = y
  BY <1>1, <1>3, <1>5 DEF TrailTables, Views, Kept
<1>15. Told(r, Elements(C))
  BY <1>1, <1>4, <1>5, <1>6, <1>7, <1>8, <1>14 DEF Told, Changed, i0, j0
<1> QED  BY <1>13, <1>14, <1>15

\* A deletion: the row with what hangs below it, or nothing if it is gone.
\* A deletion: the row with what hangs below it, or nothing if it is gone.
LEMMA DeleteRecorded ==
    ASSUME TrailTables, NEW r \in Reqs, Kinds(r), pc[r] = "trail", Ready(r), Delete(r)
    PROVE  Kept(r) /\ \E C : Recorded(r, C) /\ Told(r, Elements(C))
<1> USE DEF At
<1> DEFINE i0 == q[r].id
           h == Head(todo[r])
           c == Change(r, q[r].id, Target(r), NoRow)
           C == <<c>>
<1>1. /\ h = "drop" \/ (h = "remove" /\ There(i0))
      /\ rows' = (IF There(i0) THEN Without(Below(i0)) ELSE rows)
      /\ done' = done \o (IF There(i0) THEN C ELSE <<>>)
      /\ UNCHANGED <<nextRow, view>>
  BY DEF Delete, Write, Reached
<1>2. i0 \in RowId /\ i0 \in Nat
  BY TrailBody, RowFacts
<1>3. rows \in [RowId -> Row \cup {NoRow}] /\ nextRow \in Nat /\ \A i \in RowId : rows[i] # NoRow => i < nextRow
  BY DEF TrailTables, There
<1>4. nextRow' \in Nat /\ nextRow' >= nextRow
  BY <1>1, <1>3
<1>5. Kept(r)
  BY <1>1 DEF Kept, TrailTables
<1>6. CASE ~There(i0)
  <2>1. done' = done \o <<>> /\ rows' = rows
    BY <1>1, <1>6
  <2>2. Recorded(r, <<>>)
    BY <1>1, <1>3, <1>4, <2>1, Few DEF Recorded, Accounts
  <2>3. Told(r, Elements(<<>>))
    BY <1>1, <1>6, Few DEF Told, Changed
  <2> QED  BY <1>5, <2>2, <2>3
<1>7. CASE There(i0)
  <2>1. done' = done \o C /\ rows' = Without(Below(i0))
    BY <1>1, <1>7
  <2>2. Target(r) = rows[i0] /\ rows[i0] \in Row
    BY <1>2, <1>3, <1>7 DEF There, Target
  <2> HIDE DEF i0
  <2>3. Below(i0) \subseteq RowId /\ i0 \in Below(i0)
    BY <1>2, RowFacts
  <2>4. /\ c \in ChangeType /\ c.by = r /\ c.id = i0 /\ c.old = Val(Target(r)) /\ c.new = NoRow
        /\ c.gone = Below(i0)
    BY <1>2, <2>2, <2>3, RowFacts DEF Change, ChangeType, Val, i0
  <2> HIDE DEF c
  <2>5. IsSeq(C) /\ Elements(C) = {c}
    BY Few
  <2> HIDE DEF C
  <2>6. /\ rows' \in [RowId -> Row \cup {NoRow}]
        /\ \A i \in RowId : rows'[i] = IF i \in Below(i0) THEN NoRow ELSE rows[i]
    BY <1>3, <2>1 DEF Without
  <2>7. Recorded(r, C)
    BY <1>1, <1>3, <1>4, <2>1, <2>4, <2>5, <2>6 DEF Recorded, Accounts, Touched
  <2>8. Told(r, Elements(C))
    BY <1>1, <2>4, <2>5 DEF Told, Changed, i0
  <2> QED  BY <1>5, <2>7, <2>8
<1> QED  BY <1>6, <1>7

\* An import: the row that was found or created, and what was deleted below it.
\* An import: the row that was found or created, and what was deleted below it.
LEMMA ImportRecorded ==
    ASSUME TrailTables, NEW r \in Reqs, Kinds(r), pc[r] = "trail", Ready(r), Replace(r) \/ Merge(r)
    PROVE  Kept(r) /\ \E C : Recorded(r, C) /\ Told(r, Elements(C))
<1> USE DEF At
<1> DEFINE h == Head(todo[r])
<1>1. /\ h \in {"replace", "merge"}
      /\ \E g : g \in SUBSET (Under({q[r].id}) \cup Under(Under({q[r].id}))) /\ Import(r, g)
  <2>1. Below(q[r].id) \ {q[r].id} \subseteq Under({q[r].id}) \cup Under(Under({q[r].id}))
    BY DEF Below
  <2>2. CASE Replace(r)
    BY <2>1, <2>2 DEF Replace
  <2>3. CASE Merge(r)
    BY <2>3 DEF Merge
  <2> QED  BY <2>2, <2>3
<1>2. PICK g : g \in SUBSET (Under({q[r].id}) \cup Under(Under({q[r].id}))) /\ Import(r, g)
  BY <1>1
<1> DEFINE i0 == IF Reached(r) THEN q[r].id ELSE nextRow
           x == FreshRow(r, q[r].under)
           below == IF Reached(r) THEN g ELSE {}
           c == [Change(r, i0, rows[i0], x) EXCEPT !.gone = below]
           C == <<c>>
<1>3. /\ i0 \in RowId /\ rows' = [Without(below) EXCEPT ![i0] = x] /\ done' = done \o C
      /\ view' = [view EXCEPT ![r].id = i0] /\ nextRow' = nextRow + (IF Reached(r) THEN 0 ELSE 1)
  BY <1>2 DEF Import, Write, Hold
<1>4. rows \in [RowId -> Row \cup {NoRow}] /\ nextRow \in Nat /\ \A i \in RowId : rows[i] # NoRow => i < nextRow
  BY DEF TrailTables, There
<1>5. x \in Row /\ x # NoRow /\ x.under = q[r].under /\ x.val = q[r].val
  <2>1. x \in Row /\ x.under = q[r].under /\ x.val = q[r].val
    BY TrailBody DEF FreshRow, Row
  <2> QED  BY <2>1, RowFacts
<1>6. /\ Reached(r) => i0 = q[r].id /\ rows[i0] # NoRow /\ rows[i0].under = q[r].under /\ i0 < nextRow /\ nextRow' = nextRow
      /\ ~Reached(r) => i0 = nextRow /\ rows[i0] = NoRow /\ nextRow' = nextRow + 1
  <2>1. CASE Reached(r)
    <3>1. i0 = q[r].id /\ nextRow' = nextRow
      BY <1>3, <1>4, <2>1
    <3>2. rows[q[r].id] # NoRow /\ rows[q[r].id].under = q[r].under
      BY <2>1 DEF Reached, There, Target
    <3> QED  BY <1>3, <1>4, <2>1, <3>1, <3>2
  <2>2. CASE ~Reached(r)
    <3>1. i0 = nextRow /\ nextRow' = nextRow + 1
      BY <1>3, <2>2
    <3> QED  BY <1>3, <1>4, <2>2, <3>1
  <2> QED  BY <2>1, <2>2
<1>7. q[r].id \in RowId /\ \A j \in RowId : j \in Nat /\ j # 0
  BY TrailBody, RowFacts
\* What goes hung below a row, so it is not at the top.
<1>8. below \subseteq RowId /\ \A j \in below : rows[j].under # 0 \/ rows[j] = NoRow
  BY <1>2, <1>7 DEF Under, There
<1> HIDE DEF x, below, i0
<1>9. i0 \in Nat /\ q[r].val \in Nat
  BY <1>3, <1>7, TrailBody
<1>10. /\ c \in ChangeType /\ c.by = r /\ c.id = i0 /\ c.old = Val(rows[i0]) /\ c.gone = below
  BY <1>3, <1>4, <1>5, <1>8, RowFacts DEF Change, ChangeType, Val
<1>11. rows[i0] = NoRow => c.old = NoRow
  BY <1>10 DEF Val
<1> HIDE DEF c
<1>12. IsSeq(C) /\ Elements(C) = {c}
  BY Few
<1> HIDE DEF C
<1>13. /\ rows' \in [RowId -> Row \cup {NoRow}]
       /\ \A i \in RowId : rows'[i] = IF i = i0 THEN x ELSE IF i \in below THEN NoRow ELSE rows[i]
  BY <1>3, <1>4, <1>5 DEF Without
<1>14. nextRow' \in Nat /\ nextRow' >= nextRow
  BY <1>4, <1>6
<1>15. \A i \in RowId : rows'[i] # NoRow => i < nextRow'
  BY <1>4, <1>6, <1>7, <1>13
<1>16. \A i \in RowId : rows'[i] # rows[i] =>
         /\ i = i0 \/ (i \in below /\ rows'[i] = NoRow)
         /\ rows'[i] = NoRow => i # i0 /\ i \in below /\ rows[i].under # 0
         /\ rows[i] = NoRow => i = i0 /\ i = nextRow
         /\ rows[i] # NoRow /\ rows'[i] # NoRow => i = i0 /\ i = q[r].id /\ rows'[i].under = rows[i].under
  BY <1>5, <1>6, <1>8, <1>13
<1>17. Recorded(r, C)
  BY <1>1, <1>3, <1>4, <1>7, <1>10, <1>11, <1>12, <1>13, <1>14, <1>15, <1>16 DEF Recorded, Accounts, Touched
<1>18. Kept(r) /\ view'[r].id = i0
  BY <1>3, <1>9 DEF TrailTables, Views, Kept
<1>19. Told(r, Elements(C))
  BY <1>1, <1>10, <1>12, <1>18 DEF Told, Changed
<1> QED  BY <1>17, <1>18, <1>19

\* Every service records what it changes, and the view names it.
\* Every service records what it changes, and the view names it.
LEMMA ChangesRecorded ==
    ASSUME TrailTables, NEW r \in Reqs, Kinds(r), pc[r] = "trail", Ready(r), Changing(r)
    PROVE  /\ Head(todo[r]) \in Changes /\ Proceed(r) /\ UNCHANGED <<trail, throttle>>
           /\ Kept(r) /\ \E C : Recorded(r, C) /\ Told(r, Elements(C))
<1>1. Head(todo[r]) \in Changes /\ Proceed(r) /\ UNCHANGED <<trail, throttle>>
  BY DEF Changing, At, Changes, Insert, Assign, Update, Amend, Move, SaveRow, Delete, Replace, Merge, Import, Write
<1> QED  BY <1>1, InsertRecorded, AssignRecorded, UpdateRecorded, AmendRecorded, MoveRecorded, SaveRecorded,
            DeleteRecorded, ImportRecorded DEF Changing

---------------------------------------------------------------------------
(* What a handler logs. *)

\* The rows that the entries of a log name.
Subjects(r, log) ==
    CASE log \in {"logCreate", "logImport"} -> {view[r].id}
      [] log = "logAmended" -> {q[r].id, view[r].id}
      [] log = "logMoved" -> {q[r].id, q[r].other}
      [] OTHER -> {q[r].id}
Named(S) == UNION {e.ids : e \in S}

\* Where the values of an entry are from.
Sourced(r, log, e) ==
    HasValues(e) =>
        \/ /\ log \in {"logChanges", "logAcrossOrgs", "logAmended", "logMoved"} /\ e.ids = {q[r].id}
           /\ view[r].before # NoRow /\ e.old = view[r].before.val /\ e.new = view[r].after.val
        \/ /\ log = "logMoved" /\ e.ids = {q[r].other}
           /\ view[r].other # NoRow /\ e.old = view[r].other.val /\ e.new = view[r].loaded.val
        \/ log = "logSnapshot" /\ e.ids = {q[r].id} /\ e.old = Val(view[r].before) /\ e.new = NoRow
        \/ log = "logRole" /\ e.ids = {q[r].id} /\ e.old = Val(view[r].before) /\ e.new = q[r].val
        \/ log = "logGranted" /\ e.ids = {q[r].id} /\ e.old = NoRow /\ e.new = q[r].val
        \/ log = "logDenied" /\ e.ids = {}

Entered(r, S) ==
    LET log == Head(todo[r])
    IN  /\ log \in ChangeLogs => Named(S) = Subjects(r, log)
        /\ log \in ReadLogs => \A e \in S : e.act \in {"export", "denied"}
        /\ log = "logExport" => \A e \in S : e.ids = ToSet(view[r].file)
        /\ \A e \in S : Sourced(r, log, e)

\* Every logging step appends entries of its own request, made from its view.
\* Every logging step appends entries of its own request, made from its view.
LEMMA EntriesWritten ==
    ASSUME TrailTables, NEW r \in Reqs, pc[r] = "trail", Logging(r)
    PROVE  /\ Head(todo[r]) \in Logs /\ Proceed(r) /\ UNCHANGED <<rows, nextRow, done, view, throttle>>
           /\ \E E : /\ IsSeq(E) /\ trail' = trail \o E /\ \A e \in Elements(E) : e.by = r
                     /\ Entered(r, Elements(E))
<1> DEFINE log == Head(todo[r])
           v == view[r]
           first == Diff(r, q[r].id, v.before, v.after)
           second == Diff(r, q[r].other, v.other, v.loaded)
           Good(S) == (\A e \in S : e.by = r) /\ Entered(r, S)
           Goal == /\ log \in Logs /\ Proceed(r) /\ UNCHANGED <<rows, nextRow, done, view, throttle>>
                   /\ \E E : IsSeq(E) /\ trail' = trail \o E /\ Good(Elements(E))
<1>1. ASSUME NEW step, step \in Logs, NEW E, Log(r, step, E), NEW S, IsSeq(E) /\ Elements(E) = S, log = step => Good(S)
      PROVE  Goal
  BY <1>1 DEF Log, At
<1>18. /\ {"logExport", "logDenied"} \subseteq Logs
       /\ {"logCreate", "logChanges", "logUpdate", "logDelete", "logSnapshot", "logAmended", "logMoved",
           "logAcrossOrgs", "logRole", "logGranted", "logImport"} \subseteq Logs
  BY DEF Logs, ReadLogs, ChangeLogs
<1>2. \A o, n, a, ids : Entry(r, a, ids, o, n).by = r /\ Entry(r, a, ids, o, n).act = a
        /\ Entry(r, a, ids, o, n).ids = ids /\ Entry(r, a, ids, o, n).old = o /\ Entry(r, a, ids, o, n).new = n
  BY DEF Entry
<1>3. /\ first.by = r /\ first.ids = {q[r].id}
      /\ HasValues(first) => v.before # NoRow /\ first.old = v.before.val /\ first.new = v.after.val
  BY DEF Diff, Entry, HasValues
<1>4. /\ second.by = r /\ second.ids = {q[r].other}
      /\ HasValues(second) => v.other # NoRow /\ second.old = v.other.val /\ second.new = v.loaded.val
  BY DEF Diff, Entry, HasValues
<1> HIDE DEF Goal, Good, first, second
<1>5. ASSUME LogResourceCreate(r) PROVE Goal
  <2> DEFINE e == Entry(r, "create", {v.id}, NoRow, NoRow)
  <2>1. IsSeq(<<e>>) /\ Elements(<<e>>) = {e}
    BY Few
  <2>2. e.by = r /\ e.ids = {v.id} /\ ~HasValues(e)
    BY <1>2 DEF HasValues
  <2> HIDE DEF e
  <2>3. log = "logCreate" => Good({e})
    BY <2>2 DEF Entered, ChangeLogs, ReadLogs, Subjects, Named, Sourced, Good
  <2>4. Log(r, "logCreate", <<e>>)
    BY <1>5 DEF LogResourceCreate, e
  <2> QED  BY <1>1, <1>18, <2>1, <2>3, <2>4
<1>6. ASSUME LogResourceUpdate(r) PROVE Goal
  <2> DEFINE e == Entry(r, "update", {q[r].id}, NoRow, NoRow)
  <2>1. IsSeq(<<e>>) /\ Elements(<<e>>) = {e}
    BY Few
  <2>2. e.by = r /\ e.ids = {q[r].id} /\ ~HasValues(e)
    BY <1>2 DEF HasValues
  <2> HIDE DEF e
  <2>3. log = "logUpdate" => Good({e})
    BY <2>2 DEF Entered, ChangeLogs, ReadLogs, Subjects, Named, Sourced, Good
  <2>4. Log(r, "logUpdate", <<e>>)
    BY <1>6 DEF LogResourceUpdate, e
  <2> QED  BY <1>1, <1>18, <2>1, <2>3, <2>4
<1>7. ASSUME LogResourceUpdateWithChanges(r) PROVE Goal
  <2>1. IsSeq(<<first>>) /\ Elements(<<first>>) = {first}
    BY Few
  <2>3. log = "logChanges" => Good({first})
    BY <1>3 DEF Entered, ChangeLogs, ReadLogs, Subjects, Named, Sourced, Good
  <2>4. Log(r, "logChanges", <<first>>)
    BY <1>7 DEF LogResourceUpdateWithChanges, first
  <2> QED  BY <1>1, <1>18, <2>1, <2>3, <2>4
<1>8. ASSUME LogResourceDelete(r) PROVE Goal
  <2> DEFINE e == Entry(r, "delete", {q[r].id}, NoRow, NoRow)
  <2>1. IsSeq(<<e>>) /\ Elements(<<e>>) = {e}
    BY Few
  <2>2. e.by = r /\ e.ids = {q[r].id} /\ ~HasValues(e)
    BY <1>2 DEF HasValues
  <2> HIDE DEF e
  <2>3. log = "logDelete" => Good({e})
    BY <2>2 DEF Entered, ChangeLogs, ReadLogs, Subjects, Named, Sourced, Good
  <2>4. Log(r, "logDelete", <<e>>)
    BY <1>8 DEF LogResourceDelete, e
  <2> QED  BY <1>1, <1>18, <2>1, <2>3, <2>4
<1>9. ASSUME LogResourceDeleteWithSnapshot(r) PROVE Goal
  <2> DEFINE e == Entry(r, "delete", {q[r].id}, Val(v.before), NoRow)
  <2>1. IsSeq(<<e>>) /\ Elements(<<e>>) = {e}
    BY Few
  <2>2. e.by = r /\ e.ids = {q[r].id} /\ e.old = Val(v.before) /\ e.new = NoRow
    BY <1>2
  <2> HIDE DEF e
  <2>3. log = "logSnapshot" => Good({e})
    BY <2>2 DEF Entered, ChangeLogs, ReadLogs, Subjects, Named, Sourced, Good
  <2>4. Log(r, "logSnapshot", <<e>>)
    BY <1>9 DEF LogResourceDeleteWithSnapshot, e
  <2> QED  BY <1>1, <1>18, <2>1, <2>3, <2>4
<1>10. ASSUME LogAmended(r) PROVE Goal
  <2> DEFINE e == Entry(r, "create", {v.id}, NoRow, NoRow)
  <2>1. IsSeq(<<first, e>>) /\ Elements(<<first, e>>) = {first, e}
    BY Few
  <2>2. e.by = r /\ e.ids = {v.id} /\ ~HasValues(e)
    BY <1>2 DEF HasValues
  <2> HIDE DEF e
  <2>3. log = "logAmended" => Good({first, e})
    BY <1>3, <2>2 DEF Entered, ChangeLogs, ReadLogs, Subjects, Named, Sourced, Good
  <2>4. Log(r, "logAmended", <<first, e>>)
    BY <1>10 DEF LogAmended, e, first
  <2> QED  BY <1>1, <1>18, <2>1, <2>3, <2>4
<1>11. ASSUME LogMoved(r) PROVE Goal
  <2>1. IsSeq(<<first, second>>) /\ Elements(<<first, second>>) = {first, second}
    BY Few
  <2>3. log = "logMoved" => Good({first, second})
    BY <1>3, <1>4 DEF Entered, ChangeLogs, ReadLogs, Subjects, Named, Sourced, Good
  <2>4. Log(r, "logMoved", <<first, second>>)
    BY <1>11 DEF LogMoved, first, second
  <2> QED  BY <1>1, <1>18, <2>1, <2>3, <2>4
<1>12. ASSUME LogResourceUpdateAcrossOrgs(r) PROVE Goal
  <2>1. PICK n \in 1..2 : Log(r, "logAcrossOrgs", [i \in 1..n |-> first])
    BY <1>12 DEF LogResourceUpdateAcrossOrgs, first
  <2> DEFINE E == [i \in 1..n |-> first]
  <2>2. IsSeq(E) /\ Elements(E) = {first}
    <3>1. DOMAIN E = 1..n /\ 1 \in 1..n /\ n \in Nat /\ \A i \in 1..n : E[i] = first
      OBVIOUS
    <3>2. E \in Seq({first})
      BY <3>1
    <3> HIDE DEF E
    <3>3. {E[i] : i \in DOMAIN E} = {first}
      BY <3>1
    <3> QED  BY <3>2, <3>3 DEF IsSeq, Elements
  <2> HIDE DEF E
  <2>3. log = "logAcrossOrgs" => Good({first})
    BY <1>3 DEF Entered, ChangeLogs, ReadLogs, Subjects, Named, Sourced, Good
  <2> QED  BY <1>1, <1>18, <2>1, <2>2, <2>3 DEF E
<1>13. ASSUME LogRoleChange(r) PROVE Goal
  <2> DEFINE e == Entry(r, "update", {q[r].id}, Val(v.before), q[r].val)
  <2>1. IsSeq(<<e>>) /\ Elements(<<e>>) = {e}
    BY Few
  <2>2. e.by = r /\ e.ids = {q[r].id} /\ e.old = Val(v.before) /\ e.new = q[r].val
    BY <1>2
  <2> HIDE DEF e
  <2>3. log = "logRole" => Good({e})
    BY <2>2 DEF Entered, ChangeLogs, ReadLogs, Subjects, Named, Sourced, Good
  <2>4. Log(r, "logRole", <<e>>)
    BY <1>13 DEF LogRoleChange, e
  <2> QED  BY <1>1, <1>18, <2>1, <2>3, <2>4
<1>14. ASSUME LogSuperAdminChange(r) PROVE Goal
  <2> DEFINE e == Entry(r, "update", {q[r].id}, NoRow, q[r].val)
  <2>1. IsSeq(<<e>>) /\ Elements(<<e>>) = {e}
    BY Few
  <2>2. e.by = r /\ e.ids = {q[r].id} /\ e.old = NoRow /\ e.new = q[r].val
    BY <1>2
  <2> HIDE DEF e
  <2>3. log = "logGranted" => Good({e})
    BY <2>2 DEF Entered, ChangeLogs, ReadLogs, Subjects, Named, Sourced, Good
  <2>4. Log(r, "logGranted", <<e>>)
    BY <1>14 DEF LogSuperAdminChange, e
  <2> QED  BY <1>1, <1>18, <2>1, <2>3, <2>4
<1>15. ASSUME LogResourceImport(r) PROVE Goal
  <2> DEFINE e == Entry(r, "import", {v.id}, NoRow, NoRow)
  <2>1. IsSeq(<<e>>) /\ Elements(<<e>>) = {e}
    BY Few
  <2>2. e.by = r /\ e.ids = {v.id} /\ ~HasValues(e)
    BY <1>2 DEF HasValues
  <2> HIDE DEF e
  <2>3. log = "logImport" => Good({e})
    BY <2>2 DEF Entered, ChangeLogs, ReadLogs, Subjects, Named, Sourced, Good
  <2>4. Log(r, "logImport", <<e>>)
    BY <1>15 DEF LogResourceImport, e
  <2> QED  BY <1>1, <1>18, <2>1, <2>3, <2>4
<1>16. ASSUME LogDataExport(r) PROVE Goal
  <2> DEFINE e == Entry(r, "export", ToSet(v.file), NoRow, NoRow)
  <2>1. IsSeq(<<e>>) /\ Elements(<<e>>) = {e}
    BY Few
  <2>2. e.by = r /\ e.act = "export" /\ e.ids = ToSet(v.file) /\ ~HasValues(e)
    BY <1>2 DEF HasValues
  <2> HIDE DEF e
  <2>3. log = "logExport" => Good({e})
    BY <2>2 DEF Entered, ChangeLogs, ReadLogs, Subjects, Named, Sourced, Good
  <2>4. Log(r, "logExport", <<e>>)
    BY <1>16 DEF LogDataExport, e
  <2> QED  BY <1>1, <1>18, <2>1, <2>3, <2>4
<1>17. ASSUME LogAccessDenied(r) PROVE Goal
  <2> DEFINE e == Entry(r, "denied", {}, NoRow, v.carried)
  <2>1. IsSeq(<<e>>) /\ Elements(<<e>>) = {e}
    BY Few
  <2>2. e.by = r /\ e.act = "denied" /\ e.ids = {}
    BY <1>2
  <2> HIDE DEF e
  <2>3. log = "logDenied" => Good({e})
    BY <2>2 DEF Entered, ChangeLogs, ReadLogs, Subjects, Named, Sourced, Good
  <2>4. Log(r, "logDenied", <<e>>)
    BY <1>17 DEF LogAccessDenied, e
  <2> QED  BY <1>1, <1>18, <2>1, <2>3, <2>4
<1> QED  BY <1>5, <1>6, <1>7, <1>8, <1>9, <1>10, <1>11, <1>12, <1>13, <1>14, <1>15, <1>16, <1>17 DEF Logging, Goal, Good

---------------------------------------------------------------------------
(* The tables stay what they are. *)

\* A handler's view keeps its shape, whatever field is filled in.
\* A handler's view keeps its shape, whatever field is filled in.
LEMMA HoldTyped ==
    ASSUME view \in [Reqs -> Views], NEW r \in Reqs, NEW x
    PROVE  /\ Hold(r, "before", x) /\ x \in Row \cup {NoRow} =>
                view' \in [Reqs -> Views] /\ view'[r] = [view[r] EXCEPT !.before = x]
           /\ Hold(r, "other", x) /\ x \in Row \cup {NoRow} =>
                view' \in [Reqs -> Views] /\ view'[r] = [view[r] EXCEPT !.other = x]
           /\ Hold(r, "loaded", x) /\ x \in Row \cup {NoRow} =>
                view' \in [Reqs -> Views] /\ view'[r] = [view[r] EXCEPT !.loaded = x]
           /\ Hold(r, "total", x) /\ x \in Nat =>
                view' \in [Reqs -> Views] /\ view'[r] = [view[r] EXCEPT !.total = x]
           /\ Hold(r, "carried", x) /\ x \in Nat =>
                view' \in [Reqs -> Views] /\ view'[r] = [view[r] EXCEPT !.carried = x]
<1>1. Hold(r, "before", x) /\ x \in Row \cup {NoRow} =>
        view' \in [Reqs -> Views] /\ view'[r] = [view[r] EXCEPT !.before = x]
  <2> SUFFICES ASSUME Hold(r, "before", x), x \in Row \cup {NoRow}
               PROVE  view' \in [Reqs -> Views] /\ view'[r] = [view[r] EXCEPT !.before = x]
    OBVIOUS
  <2> DEFINE v == [view[r] EXCEPT !.before = x]
  <2>1. v \in Views
    BY DEF Views
  <2>2. view' = [view EXCEPT ![r] = v]
    BY DEF Hold
  <2> HIDE DEF v
  <2>3. view' \in [Reqs -> Views] /\ view'[r] = v
    BY <2>1, <2>2
  <2> QED  BY <2>3 DEF v
<1>2. Hold(r, "other", x) /\ x \in Row \cup {NoRow} =>
        view' \in [Reqs -> Views] /\ view'[r] = [view[r] EXCEPT !.other = x]
  <2> SUFFICES ASSUME Hold(r, "other", x), x \in Row \cup {NoRow}
               PROVE  view' \in [Reqs -> Views] /\ view'[r] = [view[r] EXCEPT !.other = x]
    OBVIOUS
  <2> DEFINE v == [view[r] EXCEPT !.other = x]
  <2>1. v \in Views
    BY DEF Views
  <2>2. view' = [view EXCEPT ![r] = v]
    BY DEF Hold
  <2> HIDE DEF v
  <2>3. view' \in [Reqs -> Views] /\ view'[r] = v
    BY <2>1, <2>2
  <2> QED  BY <2>3 DEF v
<1>3. Hold(r, "loaded", x) /\ x \in Row \cup {NoRow} =>
        view' \in [Reqs -> Views] /\ view'[r] = [view[r] EXCEPT !.loaded = x]
  <2> SUFFICES ASSUME Hold(r, "loaded", x), x \in Row \cup {NoRow}
               PROVE  view' \in [Reqs -> Views] /\ view'[r] = [view[r] EXCEPT !.loaded = x]
    OBVIOUS
  <2> DEFINE v == [view[r] EXCEPT !.loaded = x]
  <2>1. v \in Views
    BY DEF Views
  <2>2. view' = [view EXCEPT ![r] = v]
    BY DEF Hold
  <2> HIDE DEF v
  <2>3. view' \in [Reqs -> Views] /\ view'[r] = v
    BY <2>1, <2>2
  <2> QED  BY <2>3 DEF v
<1>4. Hold(r, "total", x) /\ x \in Nat =>
        view' \in [Reqs -> Views] /\ view'[r] = [view[r] EXCEPT !.total = x]
  <2> SUFFICES ASSUME Hold(r, "total", x), x \in Nat
               PROVE  view' \in [Reqs -> Views] /\ view'[r] = [view[r] EXCEPT !.total = x]
    OBVIOUS
  <2> DEFINE v == [view[r] EXCEPT !.total = x]
  <2>1. v \in Views
    BY DEF Views
  <2>2. view' = [view EXCEPT ![r] = v]
    BY DEF Hold
  <2> HIDE DEF v
  <2>3. view' \in [Reqs -> Views] /\ view'[r] = v
    BY <2>1, <2>2
  <2> QED  BY <2>3 DEF v
<1>5. Hold(r, "carried", x) /\ x \in Nat =>
        view' \in [Reqs -> Views] /\ view'[r] = [view[r] EXCEPT !.carried = x]
  <2> SUFFICES ASSUME Hold(r, "carried", x), x \in Nat
               PROVE  view' \in [Reqs -> Views] /\ view'[r] = [view[r] EXCEPT !.carried = x]
    OBVIOUS
  <2> DEFINE v == [view[r] EXCEPT !.carried = x]
  <2>1. v \in Views
    BY DEF Views
  <2>2. view' = [view EXCEPT ![r] = v]
    BY DEF Hold
  <2> HIDE DEF v
  <2>3. view' \in [Reqs -> Views] /\ view'[r] = v
    BY <2>1, <2>2
  <2> QED  BY <2>3 DEF v
<1> QED  BY <1>1, <1>2, <1>3, <1>4, <1>5

\* The rows an export lists are finitely many, and an order has each of them once.
\* The rows an export lists are finitely many, and an order has each of them once.
LEMMA ListedFacts ==
    /\ IsFiniteSet(RowId) /\ Listed \subseteq RowId /\ IsFiniteSet(Listed) /\ Cardinality(Listed) \in Nat
    /\ \A s \in Orders : s \in Seq(RowId) /\ Len(s) = Cardinality(Listed) /\ DOMAIN s = 1..Cardinality(Listed)
<1>1. IsFiniteSet(RowId)
  BY FS_Interval, TrailAssumption DEF RowId
<1>2. Listed \subseteq RowId
  BY DEF Listed
<1>3. IsFiniteSet(Listed) /\ Cardinality(Listed) \in Nat
  BY <1>1, <1>2, FS_Subset, FS_CardinalityType
<1>4. ASSUME NEW s \in Orders
      PROVE  s \in Seq(RowId) /\ Len(s) = Cardinality(Listed) /\ DOMAIN s = 1..Cardinality(Listed)
  <2>1. s \in [1..Cardinality(Listed) -> Listed]
    BY <1>4 DEF Orders, SetToSeqs
  <2>2. s \in [1..Cardinality(Listed) -> RowId]
    BY <1>2, <2>1
  <2>3. s \in Seq(RowId) /\ DOMAIN s = 1..Cardinality(Listed)
    BY <1>3, <2>2
  <2>4. DOMAIN s = 1..Len(s) /\ Len(s) \in Nat
    BY <2>3, LenProperties
  <2>5. Len(s) = Cardinality(Listed)
    BY <1>3, <2>3, <2>4
  <2> QED  BY <2>3, <2>5
<1> QED  BY <1>1, <1>2, <1>3, <1>4

\* The page a file grows by.
LEMMA PageFacts ==
    ASSUME TrailTables, NEW r \in Reqs, NEW s \in Orders
    PROVE  LET v == view[r]
               n == Len(s)
               hi == SmallerOf(v.offset + PageSize, n)
               page == SubSeq(s, v.offset + 1, hi)
               file == v.file \o page
           IN  /\ n = Cardinality(Listed) /\ n \in Nat /\ hi \in Nat /\ v.offset \in Nat /\ v.file \in Seq(RowId)
               /\ hi <= n /\ (hi = n \/ hi = v.offset + PageSize)
               /\ page \in Seq(RowId) /\ file \in Seq(RowId)
               /\ Len(page) = IF v.offset + 1 <= hi THEN hi - v.offset ELSE 0
               /\ \A i \in 1..Len(page) : page[i] = s[v.offset + i] /\ v.offset + i \in 1..n
               /\ Len(file) = Len(v.file) + Len(page) /\ Len(v.file) \in Nat
               /\ \A i \in 1..Len(file) :
                    file[i] = IF i <= Len(v.file) THEN v.file[i] ELSE page[i - Len(v.file)]
<1> DEFINE v == view[r]
           n == Len(s)
           o == v.offset
           hi == SmallerOf(o + PageSize, n)
           page == SubSeq(s, o + 1, hi)
           f == v.file
           file == f \o page
<1>1. o \in Nat /\ f \in Seq(RowId) /\ PageSize \in Nat /\ PageSize > 0
  BY TrailAssumption DEF TrailTables, Views
<1>2. s \in Seq(RowId) /\ n = Cardinality(Listed) /\ n \in Nat /\ DOMAIN s = 1..n
  BY ListedFacts
<1>3. s \in [1..n -> RowId]
  BY <1>2, LenProperties
<1> HIDE DEF o, f, n
<1>4. hi \in Nat /\ hi <= n /\ (hi = n \/ hi = o + PageSize) /\ o + 1 \in Int /\ hi \in Int
  BY <1>1, <1>2 DEF SmallerOf
<1> HIDE DEF hi
<1>5. \A i \in o + 1..hi : s[i] \in RowId
  BY <1>1, <1>2, <1>3, <1>4
<1>6. /\ page \in Seq(RowId)
      /\ Len(page) = IF o + 1 <= hi THEN hi - (o + 1) + 1 ELSE 0
      /\ \A i \in 1..(hi - (o + 1) + 1) : page[i] = s[(o + 1) + i - 1]
  BY <1>4, <1>5, SubSeqProperties
<1> HIDE DEF page
<1>7. Len(page) = IF o + 1 <= hi THEN hi - o ELSE 0
  BY <1>1, <1>4, <1>6
<1>8. ASSUME NEW i \in 1..Len(page) PROVE page[i] = s[o + i] /\ o + i \in 1..n
  <2>1. i \in 1..(hi - (o + 1) + 1) /\ (o + 1) + i - 1 = o + i /\ o + i \in 1..n
    BY <1>1, <1>2, <1>4, <1>7
  <2> QED  BY <1>6, <2>1
<1>9. /\ file \in Seq(RowId) /\ Len(file) = Len(f) + Len(page) /\ Len(f) \in Nat
      /\ \A i \in 1..Len(f) + Len(page) : file[i] = IF i <= Len(f) THEN f[i] ELSE page[i - Len(f)]
  BY <1>1, <1>6, ConcatProperties, LenProperties
<1> HIDE DEF file
<1>10. \A i \in 1..Len(file) : file[i] = IF i <= Len(f) THEN f[i] ELSE page[i - Len(f)]
  BY <1>9
<1> QED  BY <1>1, <1>2, <1>4, <1>6, <1>7, <1>8, <1>9, <1>10 DEF o, f, n, hi, page, file

\* What a step of a handler does to its own program.
LEMMA StepKindsOfTrail ==
    ASSUME TrailTables, NEW r \in Reqs, Kinds(r), pc[r] = "trail", OfTrail(r)
    PROVE  \/ Reading(r) \/ Paging(r) \/ Refusing(r) \/ Failing(r) \/ Denying(r)
           \/ Changing(r) \/ Logging(r)
<1> USE DEF At
<1>0. TrailStep(r) /\ view \in [Reqs -> Views] /\ trail \in Seq({trail[i] : i \in DOMAIN trail})
  BY DEF OfTrail, TrailTables, IsSeq
<1>13. Target(r) \in Row \cup {NoRow} /\ rows[q[r].other] \in Row \cup {NoRow}
  BY TrailBody DEF TrailTables, Target
<1>14. ASSUME UNCHANGED view, Head(todo[r]) \notin {"load", "count", "fetch", "peek"} PROVE Looks(r)
  BY <1>14 DEF Looks
<1>1. CASE Skip(r)
  <2>1. Proceed(r) => Looks(r)
    BY <1>1, <1>14 DEF Skip
  <2> QED  BY <1>1, <2>1 DEF Skip, Reading, Refusing, Stop, Reads, Follows, Changes
<1>2. CASE IfMatch(r)
  <2>1. Looks(r)
    BY <1>2, <1>14 DEF IfMatch
  <2> QED  BY <1>2, <2>1 DEF IfMatch, Reading, Refusing, Stop, Reads, Follows, Changes
<1>3. CASE Fetch(r)
  <2>1. CASE Hold(r, "before", Target(r)) /\ Reached(r) /\ Proceed(r)
    <3>1. view'[r] = [view[r] EXCEPT !.before = Target(r)] /\ view[r] \in Views /\ Head(todo[r]) = "fetch"
      BY <1>0, <1>3, <1>13, <2>1, HoldTyped DEF Fetch
    <3>2. Looks(r)
      BY <3>1 DEF Looks, Views
    <3> QED  BY <1>3, <2>1, <3>2 DEF Fetch, Reject, Reading, Reads
  <2>2. CASE Reject(r) /\ Head(todo[r]) = "fetch"
    BY <2>2 DEF Reject, Refusing, Reads
  <2> QED  BY <1>3, <2>1, <2>2 DEF Fetch
<1>4. CASE Peek(r)
  <2>1. CASE Head(todo[r]) = "peek" /\ \E x \in {Target(r), NoRow} : Hold(r, "before", x)
    <3>1. PICK x \in {Target(r), NoRow} : Hold(r, "before", x)
      BY <2>1
    <3>4. x \in Row \cup {NoRow}
      BY <1>13
    <3>2. view'[r] = [view[r] EXCEPT !.before = x] /\ view[r] \in Views
      BY <1>0, <3>4, <3>1, HoldTyped
    <3>3. Looks(r)
      BY <2>1, <3>2 DEF Looks, Views
    <3> QED  BY <1>4, <2>1, <3>3 DEF Peek, Reading, Reads
  <2>2. CASE Head(todo[r]) = "peekOther" /\ \E x \in {rows[q[r].other], NoRow} : Hold(r, "other", x)
    <3>1. PICK x \in {rows[q[r].other], NoRow} : Hold(r, "other", x)
      BY <2>2
    <3>4. x \in Row \cup {NoRow}
      BY <1>13
    <3>2. view'[r] = [view[r] EXCEPT !.other = x] /\ view[r] \in Views
      BY <1>0, <3>4, <3>1, HoldTyped
    <3>3. Looks(r)
      BY <2>2, <3>2 DEF Looks, Views
    <3> QED  BY <1>4, <2>2, <3>3 DEF Peek, Reading, Reads
  <2> QED  BY <1>4, <2>1, <2>2 DEF Peek
<1>5. CASE LoadRow(r)
  <2>1. view'[r] = [view[r] EXCEPT !.loaded = Target(r)] /\ view[r] \in Views /\ Head(todo[r]) = "load"
    BY <1>0, <1>5, <1>13, HoldTyped DEF LoadRow
  <2>2. Looks(r)
    BY <2>1 DEF Looks, Views
  <2> QED  BY <1>5, <2>2 DEF LoadRow, Reading, Reads
<1>6. CASE Check(r)
  <2>1. Looks(r)
    BY <1>6, <1>14 DEF Check
  <2> QED  BY <1>6, <2>1 DEF Check, Reading, Reads, Follows, Changes
<1>7. CASE Decline(r)
  BY <1>7 DEF Decline, Reject, Refusing, Reads, Changes
<1>8. CASE Follow(r)
  <2>1. Looks(r)
    BY <1>8, <1>14 DEF Follow
  <2> QED  BY <1>8, <2>1 DEF Follow, Reading, Failing, Stop, Reads, Follows
<1>9. CASE Password(r)
  <2>1. ASSUME NEW e PROVE Append(trail, e) = trail \o <<e>>
    BY <1>0, <2>1, AppendIsConcat
  <2>2. Looks(r)
    BY <1>9, <1>14 DEF Password
  <2> QED  BY <1>9, <2>1, <2>2 DEF Password, Reading, Refusing, Stop, Reads, Follows, Changes
<1>10. CASE CountRows(r)
  <2>1. CASE Hold(r, "total", Cardinality(Listed)) /\ Proceed(r)
    <3>1. view'[r] = [view[r] EXCEPT !.total = Cardinality(Listed)] /\ view[r] \in Views /\ Head(todo[r]) = "count"
      BY <1>0, <1>10, <2>1, HoldTyped, ListedFacts DEF CountRows
    <3>2. Looks(r)
      BY <3>1 DEF Looks, Views
    <3> QED  BY <1>10, <2>1, <3>2 DEF CountRows, Reading, Reads
  <2>2. CASE Stop(r, "refused") /\ UNCHANGED view
    BY <1>10, <2>2 DEF CountRows, Refusing, Stop, Reads
  <2> QED  BY <1>10, <2>1, <2>2 DEF CountRows
<1>11. CASE ReadPage(r)
  <2>1. Looks(r)
    <3>1. PICK file, offset : view' = [view EXCEPT ![r].file = file, ![r].offset = offset]
      BY <1>11 DEF ReadPage
    <3>2. Head(todo[r]) = "page" /\ view[r] \in Views
      BY <1>0, <1>11 DEF ReadPage
    <3> QED  BY <1>0, <3>1, <3>2 DEF Looks, Views
  <2> QED  BY <1>11, <2>1 DEF ReadPage, Reading, Paging, Reads, Follows
<1>12. CASE Admit(r)
  <2>1. Head(todo[r]) = "admit" /\ view[r] \in Views /\ UNCHANGED <<rows, nextRow, trail, done>>
    BY <1>0, <1>12 DEF Admit
  <2>2. \/ Proceed(r) /\ (UNCHANGED view \/ \E x : Hold(r, "carried", x))
        \/ Stop(r, "denied") /\ UNCHANGED view
    BY <1>12 DEF Admit
  <2>3. UNCHANGED view \/ (\E x : Hold(r, "carried", x)) => Looks(r)
    BY <1>0, <2>1 DEF Looks, Hold, Views
  <2> QED  BY <2>1, <2>2, <2>3 DEF Reading, Denying, Reads
<1> QED  BY <1>0, <1>1, <1>2, <1>3, <1>4, <1>5, <1>6, <1>7, <1>8, <1>9, <1>10, <1>11, <1>12
         DEF TrailStep, Changing, Logging

\* A step changes the view of its own request only.
\* A step changes the view of its own request only.
LEMMA ViewsStep ==
    ASSUME TrailTables, NEW r \in Reqs, Kinds(r), pc[r] = "trail", Ready(r), OfTrail(r)
    PROVE  /\ view' \in [Reqs -> Views] /\ \A s \in Reqs \ {r} : view'[s] = view[s]
           /\ throttle' \in Window \cup {NoRow}
<1>0. view \in [Reqs -> Views] /\ throttle \in Window \cup {NoRow} /\ TrailStep(r)
  BY DEF TrailTables, OfTrail
<1>1. Target(r) \in Row \cup {NoRow} /\ rows[q[r].other] \in Row \cup {NoRow}
  BY TrailBody DEF TrailTables, Target
<1>2. \A f, x : Hold(r, f, x) => \A s \in Reqs \ {r} : view'[s] = view[s]
  BY <1>0 DEF Hold
<1>3. CASE Changing(r)
  BY <1>0, <1>3, ChangesRecorded DEF Kept
<1>4. CASE Logging(r)
  BY <1>0, <1>4, EntriesWritten
<1>5. CASE Skip(r) \/ IfMatch(r) \/ Check(r) \/ Decline(r) \/ Follow(r) \/ Password(r)
  BY <1>0, <1>5 DEF Skip, IfMatch, Check, Decline, Reject, Follow, Password
<1>6. CASE Fetch(r)
  <2>1. throttle' = throttle /\ (Hold(r, "before", Target(r)) \/ view' = view)
    BY <1>6 DEF Fetch, Reject
  <2> QED  BY <1>0, <1>1, <1>2, <2>1, HoldTyped
<1>7. CASE Peek(r)
  <2>1. PICK x \in Row \cup {NoRow} : throttle' = throttle /\ (Hold(r, "before", x) \/ Hold(r, "other", x))
    BY <1>1, <1>7 DEF Peek
  <2> QED  BY <1>0, <1>2, <2>1, HoldTyped
<1>8. CASE LoadRow(r)
  <2>1. throttle' = throttle /\ Hold(r, "loaded", Target(r))
    BY <1>8 DEF LoadRow
  <2> QED  BY <1>0, <1>1, <1>2, <2>1, HoldTyped
<1>9. CASE CountRows(r)
  <2>1. throttle' = throttle /\ (Hold(r, "total", Cardinality(Listed)) \/ view' = view)
    BY <1>9 DEF CountRows
  <2> QED  BY <1>0, <1>2, <2>1, HoldTyped, ListedFacts
<1>10. CASE ReadPage(r)
  <2>1. PICK s \in Orders :
          view' = [view EXCEPT ![r].file = view[r].file \o SubSeq(s, view[r].offset + 1, SmallerOf(view[r].offset + PageSize, Len(s))),
                               ![r].offset = SmallerOf(@ + PageSize, MaxRow)]
    BY <1>10 DEF ReadPage
  <2> DEFINE file == view[r].file \o SubSeq(s, view[r].offset + 1, SmallerOf(view[r].offset + PageSize, Len(s)))
             o == SmallerOf(view[r].offset + PageSize, MaxRow)
  <2>2. file \in Seq(RowId) /\ view[r].offset \in Nat
    BY PageFacts
  <2>3. o \in Nat
    BY <2>2, TrailAssumption DEF SmallerOf
  <2>4. view' = [view EXCEPT ![r].file = file, ![r].offset = o]
    BY <2>1
  <2> HIDE DEF file, o
  <2>5. view' \in [Reqs -> Views] /\ \A x \in Reqs \ {r} : view'[x] = view[x]
    BY <1>0, <2>2, <2>3, <2>4 DEF Views
  <2> QED  BY <1>0, <1>10, <2>5 DEF ReadPage
<1>11. CASE Admit(r)
  <2>1. CASE UNCHANGED <<view, throttle>>
    BY <1>0, <2>1
  <2>2. CASE ~UNCHANGED <<view, throttle>>
    <3>1. PICK late, sweep \in BOOLEAN :
              LET forgotten == throttle = NoRow \/ (late /\ sweep /\ throttle.suppressed = 0)
                  t == IF forgotten THEN [emitted |-> 0, suppressed |-> 0]
                       ELSE [throttle EXCEPT !.emitted = IF late THEN 0 ELSE @]
              IN  IF t.emitted >= DenialLimit
                  THEN /\ throttle' = [t EXCEPT !.suppressed = @ + 1]
                       /\ UNCHANGED view
                  ELSE /\ throttle' = [emitted |-> t.emitted + 1, suppressed |-> 0]
                       /\ Hold(r, "carried", t.suppressed)
      BY <1>11, <2>2 DEF Admit
    <3> DEFINE forgotten == throttle = NoRow \/ (late /\ sweep /\ throttle.suppressed = 0)
               t == IF forgotten THEN [emitted |-> 0, suppressed |-> 0]
                    ELSE [throttle EXCEPT !.emitted = IF late THEN 0 ELSE @]
    <3>2. t \in Window
      BY <1>0 DEF Window
    <3>3. IF t.emitted >= DenialLimit
          THEN throttle' = [t EXCEPT !.suppressed = @ + 1] /\ UNCHANGED view
          ELSE throttle' = [emitted |-> t.emitted + 1, suppressed |-> 0] /\ Hold(r, "carried", t.suppressed)
      BY <3>1
    <3> HIDE DEF t
    <3>4. t.emitted \in Nat /\ t.suppressed \in Nat /\ [t EXCEPT !.suppressed = @ + 1] \in Window
          /\ [emitted |-> t.emitted + 1, suppressed |-> 0] \in Window
      BY <3>2 DEF Window
    <3>5. throttle' \in Window
      BY <3>3, <3>4
    <3>6. view' = view \/ Hold(r, "carried", t.suppressed)
      BY <3>3
    <3> QED  BY <1>0, <1>2, <3>4, <3>5, <3>6, HoldTyped
  <2> QED  BY <2>1, <2>2
<1> QED  BY <1>0, <1>3, <1>4, <1>5, <1>6, <1>7, <1>8, <1>9, <1>10, <1>11 DEF TrailStep, Changing, Logging

---------------------------------------------------------------------------
(* A step of a handler, on the whole: what it changed, and what it logged. *)

Stepping(r, S, T) ==
    \/ (Reading(r) \/ Paging(r) \/ Failing(r) \/ Denying(r)) /\ S = {} /\ T = {}
    \/ Refusing(r) /\ S = {} /\ \A e \in T : e.act = "refusal"
    \/ Changing(r) /\ Head(todo[r]) \in Changes /\ Proceed(r) /\ Kept(r) /\ Told(r, S) /\ T = {}
    \/ Logging(r) /\ Head(todo[r]) \in Logs /\ Proceed(r) /\ UNCHANGED view /\ S = {} /\ Entered(r, T)

Others(r) ==
    \A s \in Reqs \ {r} :
        todo'[s] = todo[s] /\ view'[s] = view[s] /\ Said(s)' = Said(s) /\ Did(s)' = Did(s)

\* What is in the trail after an append was there or has been appended.
\* What is in the trail after an append was there or has been appended.
LEMMA Appended ==
    ASSUME NEW s, NEW e, IsSeq(s), IsSeq(e)
    PROVE  Elements(s \o e) = Elements(s) \cup Elements(e)
<1> DEFINE t == s \o e
<1>1. /\ DOMAIN t = 1..(Len(s) + Len(e)) /\ Len(s) \in Nat /\ Len(e) \in Nat
      /\ DOMAIN s = 1..Len(s) /\ DOMAIN e = 1..Len(e)
      /\ \A i \in DOMAIN s : t[i] = s[i]
      /\ \A i \in DOMAIN e : t[Len(s) + i] = e[i]
  BY Joined
<1> HIDE DEF t
<1>2. \A i \in DOMAIN t : i \in DOMAIN s \/ (i - Len(s) \in DOMAIN e /\ i = Len(s) + (i - Len(s)))
  BY <1>1
<1>3. DOMAIN s \subseteq DOMAIN t /\ \A j \in DOMAIN e : Len(s) + j \in DOMAIN t
  BY <1>1
<1>4. Elements(t) \subseteq Elements(s) \cup Elements(e)
  BY <1>1, <1>2 DEF Elements
<1>5. Elements(s) \subseteq Elements(t) /\ Elements(e) \subseteq Elements(t)
  BY <1>1, <1>3 DEF Elements
<1> QED  BY <1>4, <1>5 DEF t

\* A step that leaves the rows alone needs no change to account for them.
\* A step that leaves the rows alone needs no change to account for them.
LEMMA NothingChanged ==
    ASSUME TrailTables, UNCHANGED <<rows, nextRow>>, NEW r
    PROVE  Accounts(r, {})
<1>1. nextRow \in Nat /\ nextRow >= nextRow
  BY DEF TrailTables
<1> QED  BY <1>1 DEF Accounts, TrailTables, There

\* The row, the entries and the handlers after a step.
LEMMA TrailFrame ==
    ASSUME TrailTables, NEW r \in Reqs, Kinds(r), pc[r] = "trail", Ready(r), OfTrail(r)
    PROVE  /\ TrailTables' /\ Others(r)
           /\ \E S, T : /\ Stepping(r, S, T) /\ Accounts(r, S) /\ \A e \in T : e.by = r
                        /\ History' = History \cup S /\ Did(r)' = Did(r) \cup S
                        /\ Said(r)' = Said(r) \cup T
<1> DEFINE Step(C, E) ==
        /\ IsSeq(C) /\ done' = done \o C /\ Accounts(r, Elements(C))
        /\ IsSeq(E) /\ trail' = trail \o E /\ \A e \in Elements(E) : e.by = r
        /\ Stepping(r, Elements(C), Elements(E))
<1>0. \E C, E : Step(C, E)
  <2>1. done \o <<>> = done /\ trail \o <<>> = trail
    BY ConcatEmptySeq DEF TrailTables, IsSeq
  <2>2. CASE Reading(r) \/ Paging(r) \/ Failing(r) \/ Denying(r)
    <3>1. UNCHANGED <<rows, nextRow, trail, done>>
      BY <2>2 DEF Reading, Paging, Failing, Denying
    <3>2. Step(<<>>, <<>>)
      BY <2>1, <2>2, <3>1, Few, NothingChanged DEF Stepping
    <3> QED  BY <3>2
  <2>3. CASE Refusing(r)
    <3>1. UNCHANGED <<rows, nextRow, done>>
      BY <2>3 DEF Refusing
    <3>2. CASE UNCHANGED trail
      <4>1. Step(<<>>, <<>>)
        BY <2>1, <2>3, <3>1, <3>2, Few, NothingChanged DEF Stepping
      <4> QED  BY <4>1
    <3>3. CASE ~UNCHANGED trail
      <4> DEFINE e == Entry(r, "refusal", {q[r].id}, NoRow, NoRow)
      <4>1. trail' = trail \o <<e>>
        BY <2>3, <3>3 DEF Refusing
      <4>2. e.by = r /\ e.act = "refusal"
        BY DEF Entry
      <4> HIDE DEF e
      <4>3. IsSeq(<<e>>) /\ Elements(<<e>>) = {e}
        BY Few
      <4>4. Stepping(r, {}, {e})
        BY <2>3, <4>2 DEF Stepping
      <4>5. Step(<<>>, <<e>>)
        BY <2>1, <3>1, <4>1, <4>2, <4>3, <4>4, Few, NothingChanged
      <4> QED  BY <4>5
    <3> QED  BY <3>2, <3>3
  <2>4. CASE Changing(r)
    <3>1. /\ Head(todo[r]) \in Changes /\ Proceed(r) /\ UNCHANGED <<trail, throttle>>
          /\ Kept(r) /\ \E C : Recorded(r, C) /\ Told(r, Elements(C))
      BY <2>4, ChangesRecorded
    <3>2. PICK C : Recorded(r, C) /\ Told(r, Elements(C))
      BY <3>1
    <3>3. Stepping(r, Elements(C), {})
      BY <2>4, <3>1, <3>2 DEF Stepping
    <3>4. Step(C, <<>>)
      BY <2>1, <3>1, <3>2, <3>3, Few DEF Recorded
    <3> QED  BY <3>4
  <2>5. CASE Logging(r)
    <3>1. /\ Head(todo[r]) \in Logs /\ Proceed(r) /\ UNCHANGED <<rows, nextRow, done, view, throttle>>
          /\ \E E : /\ IsSeq(E) /\ trail' = trail \o E /\ \A e \in Elements(E) : e.by = r
                    /\ Entered(r, Elements(E))
      BY <2>5, EntriesWritten
    <3>2. PICK E : /\ IsSeq(E) /\ trail' = trail \o E /\ \A e \in Elements(E) : e.by = r
                   /\ Entered(r, Elements(E))
      BY <3>1
    <3>3. Stepping(r, {}, Elements(E))
      BY <2>5, <3>1, <3>2 DEF Stepping
    <3>4. Step(<<>>, E)
      BY <2>1, <3>1, <3>2, <3>3, Few, NothingChanged
    <3> QED  BY <3>4
  <2> HIDE DEF Step
  <2> QED  BY <2>2, <2>3, <2>4, <2>5, StepKindsOfTrail
<1>1. PICK C, E : Step(C, E)
  BY <1>0
<1> DEFINE S == Elements(C)
           T == Elements(E)
<1>2. IsSeq(trail) /\ IsSeq(done) /\ History \subseteq ChangeType /\ S \subseteq ChangeType
      /\ \A c \in S : c.by = r
  BY <1>1 DEF TrailTables, Accounts
<1>3. History' = History \cup S /\ IsSeq(done') /\ IsSeq(trail')
  <2>1. Elements(done \o C) = Elements(done) \cup Elements(C) /\ IsSeq(done \o C) /\ IsSeq(trail \o E)
    BY <1>1, <1>2, Appended, Joined
  <2> QED  BY <1>1, <2>1 DEF History
<1>4. \A i \in DOMAIN C : C[i].by = r
  BY <1>2 DEF Elements
<1>5. \A i \in DOMAIN E : E[i].by = r
  BY <1>1 DEF Elements
<1>6. By(done', r) = By(done, r) \cup S /\ \A s : s # r => By(done', s) = By(done, s)
  BY <1>1, <1>2, <1>4, ByJoined DEF Elements
<1>7. By(trail', r) = By(trail, r) \cup T /\ \A s : s # r => By(trail', s) = By(trail, s)
  <2>1. IsSeq(E) /\ trail' = trail \o E
    BY <1>1
  <2> QED  BY <1>2, <1>5, <2>1, ByJoined DEF Elements
<1>8. view' \in [Reqs -> Views] /\ throttle' \in Window \cup {NoRow} /\ \A s \in Reqs \ {r} : view'[s] = view[s]
  BY ViewsStep
<1>9. todo' \in [Reqs -> Seq(Steps)] /\ \A s \in Reqs \ {r} : todo'[s] = todo[s]
  <2>1. todo \in [Reqs -> Seq(Steps)] /\ todo[r] # <<>> /\ Orderly(todo[r]) /\ Fair(Handler(r), todo[r])
    BY DEF TrailTables, Ready
  <2>2. CASE Proceed(r)
    <3>1. Tail(todo[r]) \in Seq(Steps)
      BY <2>1, TailFacts
    <3> QED  BY <2>1, <2>2, <3>1 DEF Proceed
  <2>3. CASE Paging(r)
    <3>1. <<"count">> \o todo[r] \in Seq(Steps)
      BY <2>1, <2>3, PageGood DEF Paging, Reads
    <3> QED  BY <2>1, <2>3, <3>1 DEF Paging
  <2>4. CASE UNCHANGED todo
    BY <2>1, <2>4
  <2> QED  BY <1>1, <2>2, <2>3, <2>4 DEF Stepping, Reading, Refusing, Failing, Denying, Stop
<1> HIDE DEF S, T
<1>10. TrailTables'
  <2>1. /\ rows' \in [RowId -> Row \cup {NoRow}] /\ nextRow' \in Nat
        /\ \A i \in RowId : rows'[i] # NoRow => i < nextRow'
    BY <1>1 DEF Accounts
  <2>2. History' \subseteq ChangeType
    BY <1>2, <1>3
  <2> QED  BY <1>3, <1>8, <1>9, <2>1, <2>2 DEF TrailTables, There
<1>11. Others(r)
  BY <1>6, <1>7, <1>8, <1>9 DEF Others, Said, Did
<1>12. Did(r)' = Did(r) \cup S /\ Said(r)' = Said(r) \cup T
  BY <1>6, <1>7 DEF Said, Did
<1> QED  BY <1>1, <1>3, <1>10, <1>11, <1>12 DEF S, T

---------------------------------------------------------------------------
(* Steps that are due. *)

\* What is due after a step was due before it, or the step was what it needs.
LEMMA DueTail ==
    ASSUME NEW t, t \in Seq(Steps), t # <<>>, NEW x, NEW S
    PROVE  /\ Due(Tail(t), x, S) => Head(t) \in S \/ Due(t, x, S)
           /\ Head(t) = x => Due(t, x, S)
           /\ Due(t, x, S) => Head(t) = x \/ Due(Tail(t), x, S)
<1> DEFINE u == Tail(t)
<1>1. /\ 1 \in DOMAIN t /\ Head(t) = t[1] /\ DOMAIN t = 1..Len(t) /\ DOMAIN u = 1..(Len(t) - 1) /\ Len(t) \in Nat
      /\ \A i \in DOMAIN u : i + 1 \in DOMAIN t /\ u[i] = t[i + 1]
      /\ \A i \in DOMAIN t : i # 1 => i - 1 \in DOMAIN u /\ u[i - 1] = t[i]
  BY TailFacts
<1> HIDE DEF u
<1>2. ASSUME Due(u, x, S), t[1] \notin S PROVE Due(t, x, S)
  <2>1. PICK i \in DOMAIN u : u[i] = x /\ ~Before(u, i, S)
    BY <1>2 DEF Due
  <2>2. ASSUME NEW j \in DOMAIN t, j < i + 1, t[j] \in S PROVE FALSE
    <3>1. j # 1
      BY <1>2, <2>2
    <3>2. j - 1 \in DOMAIN u /\ u[j - 1] = t[j] /\ j - 1 < i
      BY <1>1, <2>1, <2>2, <3>1
    <3> QED  BY <2>1, <2>2, <3>2 DEF Before
  <2>3. i + 1 \in DOMAIN t /\ t[i + 1] = x /\ ~Before(t, i + 1, S)
    BY <1>1, <2>1, <2>2 DEF Before
  <2> QED  BY <2>3 DEF Due
<1>3. ASSUME t[1] = x PROVE Due(t, x, S)
  <2>1. ~Before(t, 1, S)
    BY <1>1 DEF Before
  <2> QED  BY <1>1, <1>3, <2>1 DEF Due
<1>4. ASSUME Due(t, x, S), t[1] # x PROVE Due(u, x, S)
  <2>1. PICK i \in DOMAIN t : t[i] = x /\ ~Before(t, i, S)
    BY <1>4 DEF Due
  <2>2. i # 1 /\ i - 1 \in DOMAIN u /\ u[i - 1] = x
    BY <1>1, <1>4, <2>1
  <2>3. ASSUME NEW j \in DOMAIN u, j < i - 1, u[j] \in S PROVE FALSE
    <3>1. j + 1 \in DOMAIN t /\ t[j + 1] = u[j] /\ j + 1 < i
      BY <1>1, <2>1, <2>2, <2>3
    <3> QED  BY <2>1, <2>3, <3>1 DEF Before
  <2>4. ~Before(u, i - 1, S)
    BY <2>3 DEF Before
  <2> QED  BY <2>2, <2>4 DEF Due
<1> QED  BY <1>1, <1>2, <1>3, <1>4 DEF u

\* A count that was put back is none of these steps.
LEMMA DueCount ==
    ASSUME NEW h, NEW t, Orderly(t), Fair(h, t), t # <<>>, Head(t) \in Reads, NEW x, NEW S, x # "count"
    PROVE  Due(<<"count">> \o t, x, S) => Due(t, x, S)
<1> DEFINE u == <<"count">> \o t
<1>1. /\ u \in Seq(Steps) /\ t \in Seq(Steps)
      /\ \A i \in DOMAIN u : u[i] # "count" => i - 1 \in DOMAIN t /\ t[i - 1] = u[i]
      /\ \A j \in DOMAIN t : j + 1 \in DOMAIN u /\ u[j + 1] = t[j]
  BY PageGood DEF Orderly
<1> HIDE DEF u
<1>2. DOMAIN u \subseteq Int /\ DOMAIN t \subseteq Int
  BY <1>1, LenProperties
<1>3. ASSUME Due(u, x, S) PROVE Due(t, x, S)
  <2>1. PICK i \in DOMAIN u : u[i] = x /\ ~Before(u, i, S)
    BY <1>3 DEF Due
  <2>2. i - 1 \in DOMAIN t /\ t[i - 1] = x
    BY <1>1, <2>1
  <2>3. ASSUME NEW j \in DOMAIN t, j < i - 1, t[j] \in S PROVE FALSE
    <3>1. j + 1 \in DOMAIN u /\ u[j + 1] = t[j] /\ j + 1 < i
      BY <1>1, <1>2, <2>1, <2>3
    <3> QED  BY <2>1, <2>3, <3>1 DEF Before
  <2>4. ~Before(t, i - 1, S)
    BY <2>3 DEF Before
  <2> QED  BY <2>2, <2>4 DEF Due
<1> QED  BY <1>3 DEF u

\* Changes come after reads alone.
LEMMA DueHead ==
    ASSUME NEW t, Orderly(t), t # <<>>, NEW x, NEW S, Due(t, x, S), x \in Changes
    PROVE  Head(t) = x \/ (Head(t) \in Reads /\ Head(t) \notin S)
<1>1. 1 \in DOMAIN t /\ Head(t) = t[1] /\ DOMAIN t = 1..Len(t) /\ Len(t) \in Nat
  BY TailFacts DEF Orderly
<1>2. PICK i \in DOMAIN t : t[i] = x /\ ~Before(t, i, S)
  BY DEF Due
<1>3. i # 1 => 1 < i
  BY <1>1, <1>2
<1> QED  BY <1>1, <1>2, <1>3 DEF Orderly, Before

---------------------------------------------------------------------------
(* The invariant of the tables and the programs. *)

\* Bodies are of the menus to start from.
Offered ==
    \E c \in Scenarios : menu = c.menu /\ \A r \in Reqs : Sent(r) => q[r] \in menu[r]

Trailing == Requesting /\ Offered /\ TrailTables /\ (\A r \in Reqs : Ready(r)) /\ SavesAgree

\* The steps there are, as the trail sees them.
Elsewhere(r) ==
    /\ UNCHANGED trailVars /\ pc[r] # "trail" /\ pc'[r] \notin {"trail", "idle"}
    /\ q'[r].kind # "trail" /\ (Sent(r) => q[r].kind # "trail")
Begins(r) ==
    /\ pc[r] = "idle" /\ pc'[r] = "trail" /\ q'[r] \in TrailRequests /\ Begin(r) /\ resp'[r] = "none"
    /\ q'[r].handler \in DOMAIN Handlers /\ prior'[r] = {s \in Reqs : pc[s] = "done"}
    /\ UNCHANGED <<rows, nextRow, trail, done, view, throttle>>

\* A step begins a handler, is one of its steps, or is of another component.
\* A step begins a handler, is one of its steps, or is of another component.
LEMMA TrailCases ==
    ASSUME Requesting, NEW r \in Reqs, StepOf(r)
    PROVE  /\ Requesting' /\ Moves(r) /\ UNCHANGED menu /\ pc[r] # "done"
           /\ pc[r] # "idle" => q'[r] = q[r] /\ prior'[r] = prior[r]
           /\ Elsewhere(r) \/ Begins(r) \/ (OfTrail(r) /\ pc[r] = "trail")
<1>1. Requesting' /\ Moves(r) /\ UNCHANGED menu /\ (pc[r] # "idle" => q'[r] = q[r] /\ prior'[r] = prior[r])
  BY StepKinds, StepMoves DEF Requesting
<1>2. pc[r] # "done"
  BY AnswersOrGoes DEF Advances, Send, Submit
<1>3. Kinds(r) /\ Kinds(r)'
  BY <1>1 DEF Requesting
<1>4. CASE Send(r)
  <2>1. /\ pc[r] = "idle" /\ q'[r] \in Request /\ pc'[r] = FirstStage(q'[r])
        /\ pc'[r] \notin {"idle", "done"}
        /\ prior'[r] = {s \in Reqs : pc[s] = "done"} /\ resp'[r] = resp[r]
    BY <1>4, SendFits
  <2>2. UNCHANGED <<rows, nextRow, trail, done, view, throttle>> /\ resp'[r] = "none" /\ ~Sent(r)
    BY <1>3, <1>4, <2>1 DEF Send, Kinds, Sent
  <2>3. CASE q'[r].kind = "trail"
    <3>1. q'[r] \in TrailRequests /\ pc'[r] = "trail" /\ Begin(r)
      BY <1>4, <2>1, <2>3, KindSets DEF Send, FirstStage
    <3>2. q'[r].handler \in DOMAIN Handlers
      BY <3>1 DEF TrailRequests
    <3> QED  BY <1>1, <1>2, <2>1, <2>2, <3>1, <3>2 DEF Begins
  <2>4. CASE q'[r].kind # "trail"
    <3>1. Elsewhere(r)
      BY <1>4, <2>1, <2>2, <2>4 DEF Send, FirstStage, Elsewhere, trailVars
    <3> QED  BY <1>1, <1>2, <3>1
  <2> QED  BY <1>1, <1>2, <2>3, <2>4
<1>5. CASE OfTrail(r)
  BY <1>1, <1>2, <1>5, TrailAnswers
<1>6. CASE ~Send(r) /\ ~OfTrail(r)
  <2>1. q[r].kind # "trail" /\ UNCHANGED <<trailVars, q>>
    BY <1>6, StepKind DEF StepOf, OfMembers, OfPersons, OfAttendance, OfVouchers, SuperKinds, UserKinds, MemberKinds,
       PersonKinds, AttendanceKinds, VoucherKinds
  <2>2. pc[r] # "idle" /\ Fits(q[r].kind, pc[r]) /\ pc'[r] # "idle" /\ Fits(q[r].kind, pc'[r])
    BY <1>3, <1>6, AnswersOrGoes, StepFits DEF Advances, Kinds, Requesting
  <2>3. pc[r] # "trail" /\ pc'[r] # "trail"
    BY <2>1, <2>2 DEF Fits, UserKinds
  <2> QED  BY <1>1, <1>2, <2>1, <2>2, <2>3 DEF Elsewhere
<1> QED  BY <1>4, <1>5, <1>6

\* Where a step of its handler leaves a request.
LEMMA ProgramStep ==
    ASSUME Trailing, NEW r \in Reqs, OfTrail(r), pc[r] = "trail", NEW S, NEW T, Stepping(r, S, T)
    PROVE  \/ pc'[r] = "done" /\ resp'[r] = "ok" /\ Proceed(r) /\ Tail(todo[r]) = <<>>
           \/ pc'[r] = "done" /\ resp'[r] # "ok" /\ todo' = todo
           \/ pc'[r] = "trail" /\ Proceed(r) /\ todo'[r] = Tail(todo[r]) /\ todo'[r] # <<>>
           \/ pc'[r] = "trail" /\ Paging(r) /\ todo'[r] = <<"count">> \o todo[r]
<1>1. /\ todo \in [Reqs -> Seq(Steps)] /\ todo[r] # <<>> /\ DOMAIN pc = Reqs /\ DOMAIN resp = Reqs
  BY DEF Trailing, TrailTables, Ready, Requesting, LocalsKnown
<1>2. Tail(todo[r]) = <<>> <=> Len(todo[r]) = 1
  BY <1>1, TailFacts
<1>3. CASE Proceed(r)
  BY <1>1, <1>2, <1>3 DEF Proceed, Answer
<1>4. CASE Paging(r)
  BY <1>1, <1>4 DEF Paging
<1>5. ASSUME NEW v, v # "ok", Stop(r, v) PROVE pc'[r] = "done" /\ resp'[r] # "ok" /\ todo' = todo
  BY <1>1, <1>5 DEF Stop, Answer
<1> QED  BY <1>3, <1>4, <1>5 DEF Stepping, Reading, Refusing, Failing, Denying

\* What no step of the trail changes is the same.
LEMMA ElsewhereFrame ==
    ASSUME Trailing, NEW r \in Reqs, Elsewhere(r) \/ Begins(r)
    PROVE  /\ TrailTables' /\ Others(r) /\ UNCHANGED <<rows, nextRow, trail, done, view, throttle>>
           /\ History' = History /\ Said(r)' = Said(r) /\ Did(r)' = Did(r)
           /\ Elsewhere(r) => todo' = todo
           /\ Begins(r) => todo'[r] = Handlers[q'[r].handler]
<1>1. TrailTables /\ UNCHANGED <<rows, nextRow, trail, done, view, throttle>>
  BY DEF Trailing, Elsewhere, Begins, trailVars
<1>2. History' = History /\ \A s : Said(s)' = Said(s) /\ Did(s)' = Did(s)
  BY <1>1 DEF History, Elements, Said, Did, By
<1>3. todo \in [Reqs -> Seq(Steps)]
  BY <1>1 DEF TrailTables
<1>4. Begins(r) => /\ todo'[r] = Handlers[q'[r].handler] /\ todo'[r] \in Seq(Steps)
                   /\ todo' = [todo EXCEPT ![r] = todo'[r]]
  BY <1>3, HandlersGood DEF Begins, Begin, Orderly
<1>5. Elsewhere(r) => todo' = todo
  BY DEF Elsewhere, trailVars
<1>6. todo' \in [Reqs -> Seq(Steps)] /\ \A s \in Reqs \ {r} : todo'[s] = todo[s]
  BY <1>3, <1>4, <1>5
<1> QED  BY <1>1, <1>2, <1>4, <1>5, <1>6 DEF TrailTables, Others, There, IsSeq

\* What is to be saved has been loaded, or was loaded by this step.
LEMMA SavingStep ==
    ASSUME Trailing, NEW r \in Reqs, StepOf(r), NEW s \in Reqs, Saving(s)'
    PROVE  Saving(s) \/ (s = r /\ pc[r] = "trail" /\ OfTrail(r) /\ Reading(r) /\ Head(todo[r]) = "load")
<1>1. Requesting /\ Moves(r) /\ (Elsewhere(r) \/ Begins(r) \/ (OfTrail(r) /\ pc[r] = "trail"))
  BY TrailCases DEF Trailing
<1>2. CASE Elsewhere(r) \/ Begins(r)
  <2>1. s # r => Saving(s)
    BY <1>1, <1>2, ElsewhereFrame DEF Others, Moves, Saving
  <2>2. s # r
    <3>1. ASSUME Begins(r) PROVE ~Due(todo'[r], "save", {"load"})
      BY <1>2, <3>1, ElsewhereFrame, HandlersGood DEF Begins, Whole, Due
    <3> QED  BY <1>2, <3>1 DEF Saving, Elsewhere
  <2> QED  BY <2>1, <2>2
<1>3. CASE OfTrail(r) /\ pc[r] = "trail"
  <2>1. Others(r) /\ \E S, T : Stepping(r, S, T)
    BY <1>1, <1>3, TrailFrame DEF Trailing, Requesting
  <2>2. s # r => Saving(s)
    BY <1>1, <2>1 DEF Others, Moves, Saving
  <2>3. CASE s = r
    <3>1. PICK S, T : Stepping(r, S, T)
      BY <2>1
    <3>2. todo[r] \in Seq(Steps) /\ todo[r] # <<>> /\ Orderly(todo[r]) /\ Fair(Handler(r), todo[r])
      BY <1>3 DEF Trailing, TrailTables, Ready
    <3>3. pc'[r] = "trail" /\ Due(todo'[r], "save", {"load"})
      BY <2>3 DEF Saving
    <3>4. CASE Proceed(r) /\ todo'[r] = Tail(todo[r])
      <4>1. CASE Head(todo[r]) = "load"
        <5>2. \A v : ~Stop(r, v)
          BY <1>1, <3>3 DEF Stop, Answer, Requesting, LocalsKnown
        <5>1. Reading(r)
          BY <3>1, <4>1, <5>2 DEF Stepping, Refusing, Failing, Denying, Paging, Changes, Logs, ReadLogs, ChangeLogs
        <5> QED  BY <1>3, <2>3, <4>1, <5>1
      <4>2. CASE Head(todo[r]) # "load"
        BY <1>3, <2>3, <3>2, <3>3, <3>4, <4>2, DueTail DEF Saving
      <4> QED  BY <4>1, <4>2
    <3>5. CASE Paging(r) /\ todo'[r] = <<"count">> \o todo[r]
      <4>1. Head(todo[r]) \in Reads
        BY <3>5 DEF Paging, Reads
      <4> QED  BY <1>3, <2>3, <3>2, <3>3, <3>5, <4>1, DueCount DEF Saving
    <3> QED  BY <1>3, <3>1, <3>3, <3>4, <3>5, ProgramStep
  <2> QED  BY <2>2, <2>3
<1> QED  BY <1>1, <1>2, <1>3

\* What is to be saved is below the next id, and has the parent it is saved under.
LEMMA SavesStep ==
    ASSUME Trailing, NEW r \in Reqs, StepOf(r)
    PROVE  (\A s \in Reqs : Saves(s)') /\ SavesAgree'
<1>1. /\ Requesting /\ Requesting' /\ Moves(r) /\ TrailTables /\ SavesAgree
      /\ (pc[r] # "idle" => q'[r] = q[r])
      /\ Elsewhere(r) \/ Begins(r) \/ (OfTrail(r) /\ pc[r] = "trail")
  BY TrailCases DEF Trailing
<1>2. ASSUME NEW s \in Reqs, Saving(s) PROVE q'[s] = q[s] /\ q[s].id \in RowId /\ q[s].id \in Nat
  <2>1. pc[s] = "trail" /\ Kinds(s)
    BY <1>1, <1>2 DEF Saving, Requesting
  <2> QED  BY <1>1, <2>1, TrailBody, RowFacts DEF Moves
<1>3. ASSUME NEW s \in Reqs, Saving(s)', ~Saving(s)
      PROVE  /\ s = r /\ q'[r] = q[r] /\ UNCHANGED <<rows, nextRow>> /\ There(q[r].id) /\ Target(r).under = q[r].under
             /\ view'[r].loaded = Target(r) /\ q[r].id \in RowId
  <2>1. s = r /\ pc[r] = "trail" /\ Reading(r) /\ Head(todo[r]) = "load"
    BY <1>3, SavingStep
  <2>2. q[r].id \in RowId
    BY <1>1, <2>1, TrailBody DEF Requesting
  <2> QED  BY <1>1, <2>1, <2>2 DEF Reading, Looks, Reached
<1>4. SavesAgree'
  <2> SUFFICES ASSUME NEW s \in Reqs, NEW t \in Reqs, Saving(s)', Saving(t)', q'[s].id = q'[t].id
               PROVE  q'[s].under = q'[t].under
    BY DEF SavesAgree
  <2>1. CASE Saving(s) /\ Saving(t)
    BY <1>1, <1>2, <2>1 DEF SavesAgree
  <2>2. ASSUME NEW a \in Reqs, NEW b \in Reqs, ~Saving(a), Saving(a)', Saving(b), q'[a].id = q'[b].id
        PROVE q'[a].under = q'[b].under
    <3>1. a = r /\ q'[r] = q[r] /\ There(q[r].id) /\ Target(r).under = q[r].under /\ q'[b] = q[b]
      BY <1>2, <1>3, <2>2
    <3>2. There(q[b].id) => Target(b).under = q[b].under
      BY <2>2 DEF Trailing, Ready, Saves
    <3> QED  BY <2>2, <3>1, <3>2 DEF Target
  <2> QED  BY <1>3, <2>1, <2>2
<1>5. ASSUME NEW s \in Reqs, Saving(s)'
      PROVE  /\ view'[s].loaded \in Row /\ view'[s].loaded.under = q'[s].under /\ q'[s].id < nextRow'
             /\ rows'[q'[s].id] # NoRow => rows'[q'[s].id].under = q'[s].under
  <2>1. CASE ~Saving(s)
    <3>1. /\ s = r /\ q'[r] = q[r] /\ UNCHANGED <<rows, nextRow>> /\ There(q[r].id) /\ Target(r).under = q[r].under
          /\ view'[r].loaded = Target(r) /\ q[r].id \in RowId
      BY <1>3, <1>5, <2>1
    <3> QED  BY <1>1, <3>1 DEF TrailTables, There, Target
  <2>2. CASE Saving(s)
    <3>1. q'[s] = q[s] /\ q[s].id \in RowId /\ q[s].id \in Nat
      BY <1>2, <2>2
    <3>2. /\ view[s].loaded \in Row /\ view[s].loaded.under = q[s].under /\ q[s].id < nextRow
          /\ rows[q[s].id] # NoRow => rows[q[s].id].under = q[s].under
      BY <2>2 DEF Trailing, Ready, Saves, There, Target
    <3>3. CASE Elsewhere(r) \/ Begins(r)
      BY <3>1, <3>2, <3>3, ElsewhereFrame
    <3>4. CASE OfTrail(r) /\ pc[r] = "trail"
      <4>1. PICK S, T : Stepping(r, S, T) /\ Accounts(r, S) /\ Others(r) /\ Ready(r) /\ Kinds(r)
        BY <1>1, <3>4, TrailFrame DEF Trailing, Requesting
      <4>2. q[s].id < nextRow'
        <5>1. nextRow \in Nat /\ nextRow' \in Nat /\ nextRow' >= nextRow
          BY <1>1, <4>1 DEF Accounts, TrailTables
        <5> QED  BY <3>1, <3>2, <5>1
      <4>3. view'[s].loaded = view[s].loaded
        <5>1. CASE s # r
          BY <4>1, <5>1 DEF Others
        <5>2. CASE s = r
          <6>1. todo[r] \in Seq(Steps) /\ todo[r] # <<>> /\ Orderly(todo[r]) /\ Due(todo[r], "save", {"load"})
            BY <1>1, <2>2, <3>4, <4>1, <5>2 DEF Ready, TrailTables, Saving
          <6>2. Head(todo[r]) = "save" \/ Head(todo[r]) \in Reads
            BY <6>1, DueHead DEF Changes
          <6>3. CASE Head(todo[r]) = "save"
            <7>1. ~Saving(r)'
              <8>1. ~(\E i \in DOMAIN todo[r] : i # 1 /\ todo[r][i] = "save")
                <9>1. /\ 1 \in DOMAIN todo[r] /\ todo[r][1] = "save" /\ DOMAIN todo[r] = 1..Len(todo[r])
                  BY <6>1, <6>3, TailFacts
                <9>2. \A i \in DOMAIN todo[r] : i # 1 => 1 < i
                  BY <9>1
                <9> QED  BY <6>1, <9>1, <9>2 DEF Orderly, Reads, Changes
              <8>2. ~Due(Tail(todo[r]), "save", {"load"})
                BY <6>1, <8>1, TailFacts DEF Due
              <8>3. ~Paging(r)
                BY <6>3 DEF Paging
              <8> QED  BY <3>4, <4>1, <8>2, <8>3, ProgramStep DEF Saving
            <7> QED  BY <1>5, <5>2, <7>1
          <6>4. CASE Head(todo[r]) \in Reads
            <7>2. Reading(r) \/ Paging(r) \/ UNCHANGED view
              BY <4>1, <6>4 DEF Stepping, Refusing, Failing, Denying, Reads, Changes
            <7>3. Head(todo[r]) # "load"
              BY <6>1, DueHead DEF Changes
            <7> QED  BY <5>2, <7>2, <7>3 DEF Reading, Paging, Looks
          <6> QED  BY <6>2, <6>3, <6>4
        <5> QED  BY <5>1, <5>2
      <4>4. ASSUME rows'[q[s].id] # NoRow PROVE rows'[q[s].id].under = q[s].under
        <5> DEFINE i == q[s].id
        <5>1. CASE rows[i] # NoRow
          BY <3>1, <3>2, <4>1, <4>4, <5>1 DEF Accounts
        <5>2. CASE rows[i] = NoRow
          <6>1. nextRow \in Nat /\ ~(i >= nextRow)
            BY <1>1, <3>1, <3>2 DEF TrailTables
          <6>2. Head(todo[r]) = "save" /\ i = q[r].id
            BY <3>1, <4>1, <4>4, <5>2, <6>1 DEF Accounts
          <6>3. SaveRow(r)
            <7>1. rows' # rows
              BY <4>4, <5>2
            <7>2. Changing(r)
              BY <4>1, <6>2, <7>1 DEF Stepping, Reading, Paging, Refusing, Failing, Denying, Logs, ReadLogs, ChangeLogs
            <7> QED  BY <6>2, <7>2 DEF Changing, Insert, Assign, Update, Amend, Move, Delete, Replace, Merge, At
          <6>4. Saving(r)
            BY <1>1, <3>4, <4>1, <6>2, DueTail DEF Ready, TrailTables, Saving
          <6>5. q[r].under = q[s].under
            BY <1>1, <2>2, <6>2, <6>4 DEF SavesAgree
          <6>6. view[r].loaded \in Row /\ view[r].loaded.under = q[r].under
            BY <4>1, <6>4 DEF Ready, Saves
          <6>7. rows'[i] = [view[r].loaded EXCEPT !.val = q[r].val]
            BY <1>1, <3>1, <6>2, <6>3 DEF SaveRow, Write, TrailTables
          <6> QED  BY <6>5, <6>6, <6>7 DEF Row
        <5> QED  BY <5>1, <5>2
      <4> QED  BY <3>1, <3>2, <4>1, <4>2, <4>3, <4>4
    <3> QED  BY <1>1, <3>3, <3>4
  <2> QED  BY <2>1, <2>2
<1>6. \A s \in Reqs : Saves(s)'
  BY <1>5 DEF Saves, There, Target
<1> QED  BY <1>4, <1>6

\* Every step of every request keeps the tables and the programs.
LEMMA TrailingStep ==
    ASSUME Trailing, NEW r \in Reqs, StepOf(r)
    PROVE  Trailing'
<1>1. /\ Requesting /\ Requesting' /\ Moves(r) /\ TrailTables /\ UNCHANGED menu
      /\ (pc[r] # "idle" => q'[r] = q[r])
      /\ Elsewhere(r) \/ Begins(r) \/ (OfTrail(r) /\ pc[r] = "trail")
  BY TrailCases DEF Trailing
<1>2. Offered'
  <2>1. PICK c \in Scenarios : menu = c.menu /\ \A s \in Reqs : Sent(s) => q[s] \in menu[s]
    BY DEF Trailing, Offered
  <2>2. q'[r] \in menu[r] \/ (q'[r] = q[r] /\ Sent(r))
    <3>1. Send(r) => q'[r] \in menu[r]
      BY <1>1 DEF Send, Submit, Requesting, LocalsKnown
    <3>2. ~Send(r) => pc[r] # "idle"
      BY AnswersOrGoes DEF Advances
    <3> QED  BY <1>1, <3>1, <3>2, RequestSentinel DEF Requesting, Kinds, Sent
  <2>3. \A s \in Reqs : Sent(s)' => q'[s] \in menu'[s]
    BY <1>1, <2>1, <2>2 DEF Moves, Sent
  <2> QED  BY <1>1, <2>1, <2>3 DEF Offered
<1>3. TrailTables' /\ Others(r)
  BY <1>1, ElsewhereFrame, TrailFrame DEF Trailing, Requesting
<1>4. ASSUME NEW s \in Reqs
      PROVE  /\ pc'[s] = "idle" => view'[s] = Nothing
             /\ pc'[s] = "trail" =>
                  todo'[s] # <<>> /\ Orderly(todo'[s]) /\ Fair(q'[s].handler, todo'[s])
  <2>1. Ready(s)
    BY DEF Trailing
  <2>2. CASE s # r
    BY <1>1, <1>3, <2>1, <2>2 DEF Moves, Others, Ready, Handler
  <2>3. CASE s = r
    <3>1. CASE Elsewhere(r)
      BY <2>3, <3>1 DEF Elsewhere
    <3>2. CASE Begins(r)
      BY <2>3, <3>2, ElsewhereFrame, HandlersGood DEF Begins, Whole
    <3>3. CASE OfTrail(r) /\ pc[r] = "trail"
      <4>1. PICK S, T : Stepping(r, S, T)
        BY <1>1, <2>1, <2>3, <3>3, TrailFrame DEF Requesting
      <4>2. todo[r] # <<>> /\ Orderly(todo[r]) /\ Fair(Handler(r), todo[r]) /\ q'[r] = q[r]
        BY <1>1, <2>1, <2>3, <3>3 DEF Ready
      <4>3. CASE pc'[r] = "done"
        BY <2>3, <4>3
      <4>4. CASE pc'[r] = "trail" /\ todo'[r] = Tail(todo[r]) /\ todo'[r] # <<>>
        BY <2>3, <4>2, <4>4, TailGood DEF Handler
      <4>5. CASE pc'[r] = "trail" /\ Paging(r) /\ todo'[r] = <<"count">> \o todo[r]
        <5>1. Head(todo[r]) \in Reads
          BY <4>5 DEF Paging, Reads
        <5> QED  BY <2>3, <4>2, <4>5, <5>1, PageGood DEF Handler
      <4> QED  BY <3>3, <4>1, <4>3, <4>4, <4>5, ProgramStep
    <3> QED  BY <1>1, <3>1, <3>2, <3>3
  <2> QED  BY <2>2, <2>3
<1>5. \A s \in Reqs : Ready(s)'
  BY <1>4, SavesStep DEF Ready, Handler
<1> QED  BY <1>1, <1>2, <1>3, <1>5, SavesStep DEF Trailing

\* Nothing has been logged at first, and nobody holds anything.
LEMMA TrailingInit ==
    ASSUME Init
    PROVE  /\ Trailing /\ done = <<>> /\ trail = <<>> /\ throttle = NoRow
           /\ \A r \in Reqs : pc[r] = "idle" /\ Said(r) = {} /\ Did(r) = {} /\ ~Sent(r) /\ resp[r] = "none"
<1>1. PICK c \in Scenarios :
        /\ Idle(c.menu) /\ rows = c.rows /\ nextRow = c.nextRow
        /\ trail = <<>> /\ done = <<>> /\ throttle = NoRow
        /\ todo = [r \in Reqs |-> <<>>] /\ view = [r \in Reqs |-> Nothing]
  BY DEF Init
<1>2. Requesting
  BY BaseInit DEF Base
<1>3. \A r \in Reqs : pc[r] = "idle" /\ ~Sent(r) /\ resp[r] = "none"
  BY <1>1 DEF Idle, Sent
<1>4. Offered
  BY <1>1, <1>3 DEF Idle, Offered
<1>5. TrailTables
  <2>1. rows \in [RowId -> Row \cup {NoRow}] /\ nextRow \in Nat
    BY <1>1, ScenarioAssumption
  <2>2. \A i \in RowId : There(i) => i < nextRow
    BY <1>1, RecordAssumption DEF There
  <2>3. IsSeq(trail) /\ IsSeq(done) /\ History = {}
    BY <1>1, Few DEF History
  <2>4. todo \in [Reqs -> Seq(Steps)]
    <3>1. <<>> \in Seq(Steps)
      OBVIOUS
    <3> QED  BY <1>1, <3>1
  <2>5. view \in [Reqs -> Views]
    <3>1. <<>> \in Seq(RowId)
      OBVIOUS
    <3>2. Nothing \in Views
      BY <3>1 DEF Nothing, Views
    <3> QED  BY <1>1, <3>2
  <2> QED  BY <1>1, <2>1, <2>2, <2>3, <2>4, <2>5 DEF TrailTables
<1>6. (\A r \in Reqs : Ready(r)) /\ SavesAgree
  BY <1>1, <1>3 DEF Ready, Saves, Saving, SavesAgree
<1>7. \A r \in Reqs : Said(r) = {} /\ Did(r) = {}
  BY <1>1 DEF Said, Did, By
<1> QED  BY <1>1, <1>2, <1>3, <1>4, <1>5, <1>6, <1>7 DEF Trailing

\* A step that changes nothing keeps them.
LEMMA TrailingStutters ==
    ASSUME Trailing, UNCHANGED vars
    PROVE  Trailing'
BY DEF vars, requestVars, trailVars, recordVars, memberVars, memberTables, personVars, personTables, attendanceVars,
   attendanceTables, voucherVars, voucherTables, Trailing, Requesting, LocalsKnown, Menus, Kinds, Offered, Sent,
   TrailTables, There, IsSeq, History, Elements, Ready, Handler, Saves, Saving, SavesAgree, Target

---------------------------------------------------------------------------
(* What is logged of what was done. *)

\* What the first step of a program says of the others.
LEMMA HeadFacts ==
    ASSUME NEW h, NEW t, Orderly(t), Fair(h, t), t # <<>>
    PROVE  LET a == Head(t)
               u == Tail(t)
           IN  /\ a \in Steps
               /\ a \notin Reads => ~Has(u, Reads \cup Changes)
               /\ a \in Logs => ~Has(u, Logs)
               /\ a \in Changes => Has(u, Logs) /\ \A i \in DOMAIN u : u[i] \in Logs => Tells(a, u[i])
               /\ Has(t, Changes) => Has(t, Logs)
               /\ a \in Follows => (h \in LateFailures /\ Has(u, Logs)) \/ (h = "SetSuperAdmin" /\ ~Has(u, Logs))
               /\ a \in Logs /\ Has(u, Follows) => h = "SetSuperAdmin"
               /\ a \in Logs /\ h = "SetSuperAdmin" => a = "logGranted"
               /\ a = "assign" => h = "AssignVoucher"
               /\ a \in {"admit", "logDenied"} => h = "Refused"
<1> DEFINE a == Head(t)
           u == Tail(t)
<1>1. /\ 1 \in DOMAIN t /\ a = t[1] /\ a \in Steps /\ DOMAIN t = 1..Len(t) /\ DOMAIN u = 1..(Len(t) - 1) /\ Len(t) \in Nat
      /\ \A i \in DOMAIN u : i + 1 \in DOMAIN t /\ i + 1 # 1 /\ u[i] = t[i + 1]
      /\ \A i \in DOMAIN t : i # 1 => i - 1 \in DOMAIN u /\ u[i - 1] = t[i]
  BY TailFacts DEF Orderly
<1> HIDE DEF u, a
<1>2. \A i \in DOMAIN u : 1 < i + 1
  BY <1>1
<1>3. a \notin Reads => ~Has(u, Reads \cup Changes)
  BY <1>1, <1>2 DEF Orderly, Has
<1>4. a \in Logs => ~Has(u, Logs)
  BY <1>1, <1>2 DEF Orderly, Has
<1>5. a \in Changes => Has(u, Logs) /\ \A i \in DOMAIN u : u[i] \in Logs => Tells(a, u[i])
  <2> SUFFICES ASSUME a \in Changes PROVE Has(u, Logs) /\ \A i \in DOMAIN u : u[i] \in Logs => Tells(a, u[i])
    OBVIOUS
  <2>1. /\ \E j \in DOMAIN t : t[j] \in Logs
        /\ \A j \in DOMAIN t : t[j] \in Logs => 1 < j /\ Tells(t[1], t[j])
    BY <1>1 DEF Orderly
  <2>2. PICK j \in DOMAIN t : t[j] \in Logs
    BY <2>1
  <2>3. j # 1 /\ j - 1 \in DOMAIN u /\ u[j - 1] \in Logs
    BY <1>1, <2>1, <2>2
  <2> QED  BY <1>1, <2>1, <2>3 DEF Has
<1>6. Has(t, Changes) => Has(t, Logs)
  BY DEF Orderly, Has
<1>7. a \in Follows => (h \in LateFailures /\ Has(u, Logs)) \/ (h = "SetSuperAdmin" /\ ~Has(u, Logs))
  <2> SUFFICES ASSUME a \in Follows
               PROVE  (h \in LateFailures /\ Has(u, Logs)) \/ (h = "SetSuperAdmin" /\ ~Has(u, Logs))
    OBVIOUS
  <2>1. \/ h \in LateFailures /\ \E j \in DOMAIN t : 1 < j /\ t[j] \in Logs
        \/ h = "SetSuperAdmin" /\ \A j \in DOMAIN t : 1 < j => t[j] \notin Logs
    BY <1>1 DEF Fair
  <2>2. ASSUME NEW j \in DOMAIN t, 1 < j, t[j] \in Logs PROVE Has(u, Logs)
    BY <1>1, <2>2 DEF Has
  <2>3. (\A j \in DOMAIN t : 1 < j => t[j] \notin Logs) => ~Has(u, Logs)
    BY <1>1, <1>2 DEF Has
  <2> QED  BY <2>1, <2>2, <2>3
<1>8. a \in Logs /\ Has(u, Follows) => h = "SetSuperAdmin"
  <2> SUFFICES ASSUME a \in Logs, Has(u, Follows) PROVE h = "SetSuperAdmin"
    OBVIOUS
  <2>1. PICK i \in DOMAIN u : u[i] \in Follows
    BY DEF Has
  <2>2. i + 1 \in DOMAIN t /\ t[i + 1] \in Follows /\ i + 1 > 1
    BY <1>1, <1>2, <2>1
  <2>3. ASSUME NEW j \in DOMAIN t, i + 1 < j, t[j] \in Logs PROVE FALSE
    BY <1>1, <1>4, <2>2, <2>3 DEF Has
  <2> QED  BY <2>2, <2>3 DEF Fair
<1>9. /\ a \in Logs /\ h = "SetSuperAdmin" => a = "logGranted"
      /\ a = "assign" => h = "AssignVoucher"
      /\ a \in {"admit", "logDenied"} => h = "Refused"
  BY <1>1 DEF Fair
<1> QED  BY <1>1, <1>3, <1>4, <1>5, <1>6, <1>7, <1>8, <1>9 DEF a, u

\* Another request took the row away, which this one deletes.
Twice(r) == \E c \in History : Overlap(r, c.by) /\ q[r].id \in c.gone

\* The entry that is left to write names what was changed.
Tallies(r, log) ==
    \/ Changed(Did(r)) = Subjects(r, log)
    \/ Did(r) = {} /\ log \in {"logSnapshot", "logDelete"} /\ Twice(r)
    \/ Did(r) = {} /\ log = "logCreate" /\ Handler(r) = "AssignVoucher"

Phase(r) ==
    LET t == todo[r]
    IN  /\ Has(t, Reads \cup Changes) => Did(r) = {} /\ Said(r) = {}
        /\ Has(t, Logs) => Said(r) = {}
        /\ Has(t, ReadLogs) => Did(r) = {}
        /\ ~Has(t, Changes) => \A log \in ChangeLogs : Has(t, {log}) => Tallies(r, log)
        /\ Has(t, Follows) /\ ~Has(t, Logs) => Handler(r) = "SetSuperAdmin" /\ Changed(Did(r)) = Named(Said(r))
        /\ Due(t, "drop", {"fetch", "check"}) => There(q[r].id) \/ Twice(r)

Settled(r) ==
    CASE resp[r] = "ok" ->
           /\ Changed(Did(r)) \subseteq Named(Said(r))
           /\ \/ \A e \in Said(r) : e.act \in {"export", "denied"}
              \/ Named(Said(r)) \subseteq Changed(Did(r))
              \/ Twice(r)
              \/ Handler(r) = "AssignVoucher" /\ Did(r) = {}
      [] resp[r] = "refused" -> Did(r) = {} /\ \A e \in Said(r) : e.act = "refusal"
      [] resp[r] = "failed" ->
           \/ Handler(r) \in LateFailures /\ Said(r) = {}
           \/ Handler(r) = "SetSuperAdmin" /\ Changed(Did(r)) = Named(Said(r))
      [] OTHER -> Did(r) = {} /\ Said(r) = {}

Logged ==
    \A r \in Reqs :
        /\ pc[r] = "idle" => Did(r) = {} /\ Said(r) = {}
        /\ pc[r] = "trail" => Phase(r)
        /\ r \in Handled => Settled(r)

\* The property is of the entries and the changes of each request.
LEMMA LoggedIsComplete ==
    ASSUME Logged PROVE ChangesLogged
<1> SUFFICES ASSUME NEW r \in Handled
    PROVE  LET named == UNION {trail[i].ids : i \in EntriesOf(r)}
               changed == {done[i].id : i \in ChangesOf(r)}
           IN  CASE resp[r] = "ok" ->
                   /\ changed \subseteq named
                   /\ ReadsOnly(r) \/ named \subseteq changed \/ DeletedTwice(r) \/ FoundThere(r)
              [] resp[r] = "refused" ->
                   changed = {} /\ \A i \in EntriesOf(r) : trail[i].act = "refusal"
              [] resp[r] = "failed" ->
                   \/ Handler(r) \in LateFailures /\ EntriesOf(r) = {}
                   \/ Handler(r) = "SetSuperAdmin" /\ changed = named
              [] OTHER -> changed = {} /\ EntriesOf(r) = {}
  BY DEF ChangesLogged
<1>1. Said(r) = {trail[i] : i \in EntriesOf(r)} /\ Did(r) = {done[i] : i \in ChangesOf(r)}
  BY DEF Said, Did, By, EntriesOf, ChangesOf
<1>2. /\ UNION {trail[i].ids : i \in EntriesOf(r)} = Named(Said(r))
      /\ {done[i].id : i \in ChangesOf(r)} = Changed(Did(r))
  BY <1>1 DEF Named, Changed
<1>3. /\ ReadsOnly(r) <=> \A e \in Said(r) : e.act \in {"export", "denied"}
      /\ EntriesOf(r) = {} <=> Said(r) = {}
      /\ (\A i \in EntriesOf(r) : trail[i].act = "refusal") <=> \A e \in Said(r) : e.act = "refusal"
      /\ FoundThere(r) <=> Handler(r) = "AssignVoucher" /\ Did(r) = {}
  BY <1>1 DEF ReadsOnly, FoundThere
<1>4. DeletedTwice(r) <=> Twice(r)
  BY DEF DeletedTwice, Twice, History, Elements
<1>5. Settled(r) /\ (Did(r) = {} => Changed(Did(r)) = {})
  BY DEF Logged, Handled, Changed
<1> QED  BY <1>2, <1>3, <1>4, <1>5 DEF Settled

\* The history and the requests do not go back.
LEMMA HistoryStep ==
    ASSUME Trailing, Logged, NEW r \in Reqs, StepOf(r)
    PROVE  /\ TrailTables' /\ Others(r) /\ History \subseteq History'
           /\ \A c \in History : c.by \in Reqs /\ prior'[c.by] = prior[c.by] /\ c \in Did(c.by) /\ pc[c.by] # "idle"
           /\ \A s \in Reqs : pc[s] # "idle" /\ Twice(s) => Twice(s)'
           /\ \A s \in Reqs \ {r}, i \in RowId : pc[s] # "idle" /\ pc[s] # "done" /\ There(i) /\ rows'[i] = NoRow =>
                \E c \in History' : Overlap(s, c.by)' /\ i \in c.gone
<1>1. /\ Requesting /\ Requesting' /\ Moves(r) /\ TrailTables /\ pc[r] # "done"
      /\ (pc[r] # "idle" => q'[r] = q[r] /\ prior'[r] = prior[r])
      /\ Elsewhere(r) \/ Begins(r) \/ (OfTrail(r) /\ pc[r] = "trail")
  BY TrailCases DEF Trailing
<1>2. TrailTables' /\ Others(r) /\ History \subseteq History'
  BY <1>1, ElsewhereFrame, TrailFrame DEF Trailing, Requesting
<1>3. ASSUME NEW c \in History
      PROVE  c.by \in Reqs /\ prior'[c.by] = prior[c.by] /\ c \in Did(c.by) /\ pc[c.by] # "idle"
  <2>1. c.by \in Reqs /\ c \in Did(c.by)
    BY <1>1 DEF TrailTables, ChangeType, History, Elements, Did, By
  <2>2. pc[c.by] # "idle"
    BY <2>1 DEF Logged
  <2> QED  BY <1>1, <2>1, <2>2 DEF Moves
<1>4. ASSUME NEW s \in Reqs, pc[s] # "idle" PROVE q'[s] = q[s] /\ prior'[s] = prior[s]
  BY <1>1, <1>4 DEF Moves
<1>5. ASSUME NEW s \in Reqs, pc[s] # "idle", Twice(s) PROVE Twice(s)'
  <2>1. PICK c \in History : Overlap(s, c.by) /\ q[s].id \in c.gone
    BY <1>5 DEF Twice
  <2>2. c \in History' /\ prior'[c.by] = prior[c.by] /\ q'[s] = q[s] /\ prior'[s] = prior[s]
    BY <1>2, <1>3, <1>4, <1>5
  <2> QED  BY <2>1, <2>2 DEF Twice, Overlap
<1>6. ASSUME NEW s \in Reqs \ {r}, NEW i \in RowId, pc[s] # "idle", pc[s] # "done", There(i), rows'[i] = NoRow
      PROVE  \E c \in History' : Overlap(s, c.by)' /\ i \in c.gone
  <2>1. OfTrail(r) /\ pc[r] = "trail"
    BY <1>1, <1>6, ElsewhereFrame DEF There
  <2>2. PICK S, T : Accounts(r, S) /\ History' = History \cup S
    BY <1>1, <2>1, TrailFrame DEF Trailing, Requesting
  <2>3. PICK c \in S : i \in c.gone
    BY <1>6, <2>2 DEF Accounts, There
  <2>4. c \in History' /\ c.by = r
    BY <2>2, <2>3 DEF Accounts
  <2>5. s \notin prior'[r] /\ r \notin prior'[s]
    <3>1. prior'[r] = prior[r] /\ prior'[s] = prior[s] /\ Kinds(r) /\ Kinds(s)
      BY <1>1, <1>4, <1>6, <2>1 DEF Requesting
    <3> QED  BY <1>1, <1>6, <3>1 DEF Kinds
  <2> QED  BY <2>3, <2>4, <2>5 DEF Overlap
<1> QED  BY <1>2, <1>3, <1>5, <1>6

\* What another request does leaves what this one logged to be true.
LEMMA LoggedOthers ==
    ASSUME Trailing, Logged, NEW r \in Reqs, StepOf(r), NEW s \in Reqs \ {r}
    PROVE  /\ pc'[s] = "idle" => Did(s)' = {} /\ Said(s)' = {}
           /\ pc'[s] = "trail" => Phase(s)'
           /\ (s \in Handled)' => Settled(s)'
<1>1. Requesting /\ Moves(r)
  BY TrailCases DEF Trailing
<1>2. pc'[s] = pc[s] /\ q'[s] = q[s] /\ resp'[s] = resp[s] /\ prior'[s] = prior[s]
  BY <1>1 DEF Moves
<1>3. /\ todo'[s] = todo[s] /\ view'[s] = view[s] /\ Said(s)' = Said(s) /\ Did(s)' = Did(s)
      /\ pc[s] # "idle" /\ Twice(s) => Twice(s)'
  BY HistoryStep DEF Others
<1>4. Handler(s)' = Handler(s) /\ \A x : Subjects(s, x)' = Subjects(s, x)
  BY <1>2, <1>3 DEF Handler, Subjects
<1>5. Changed(Did(s))' = Changed(Did(s)) /\ Named(Said(s))' = Named(Said(s))
  BY <1>3 DEF Changed, Named
<1>6. ASSUME pc[s] = "trail", Phase(s) PROVE Phase(s)'
  <2>1. \A x : Tallies(s, x) => Tallies(s, x)'
    BY <1>3, <1>4, <1>5, <1>6 DEF Tallies
  <2>2. There(q[s].id) \/ Twice(s) => There(q[s].id)' \/ Twice(s)'
    <3>1. q[s].id \in RowId
      BY <1>1, <1>6, TrailBody DEF Requesting
    <3>2. There(q[s].id) /\ rows'[q[s].id] = NoRow => Twice(s)'
      BY <1>2, <1>6, <3>1, HistoryStep DEF Twice
    <3> QED  BY <1>2, <1>3, <1>6, <3>2 DEF There
  <2> QED  BY <1>2, <1>3, <1>4, <1>5, <1>6, <2>1, <2>2 DEF Phase
<1>7. ASSUME s \in Handled, Settled(s) PROVE Settled(s)'
  <2>1. pc[s] # "idle"
    BY <1>7 DEF Handled
  <2> QED  BY <1>2, <1>3, <1>4, <1>5, <1>7, <2>1 DEF Settled
<1>8. (s \in Handled)' <=> s \in Handled
  BY <1>2 DEF Handled, Sent
<1> QED  BY <1>2, <1>3, <1>6, <1>7, <1>8 DEF Logged

\* What a handler did and logged before each of its steps.
LEMMA OwnFacts ==
    ASSUME Trailing, Logged, NEW r \in Reqs, pc[r] = "trail"
    PROVE  LET t == todo[r]
               a == Head(t)
               u == Tail(t)
           IN  /\ t \in Seq(Steps) /\ t # <<>> /\ Orderly(t) /\ Fair(Handler(r), t)
               /\ a \in Reads \cup Changes => Did(r) = {} /\ Said(r) = {}
               /\ a \in Logs => Said(r) = {}
               /\ a \in ReadLogs => Did(r) = {}
               /\ a \in ChangeLogs => Tallies(r, a)
               /\ a \in Follows => \/ Handler(r) \in LateFailures /\ Has(u, Logs) /\ Said(r) = {}
                                   \/ Handler(r) = "SetSuperAdmin" /\ ~Has(u, Logs) /\ Changed(Did(r)) = Named(Said(r))
               /\ a = "drop" => There(q[r].id) \/ Twice(r)
<1> DEFINE t == todo[r]
           a == Head(t)
           u == Tail(t)
<1>1. t \in Seq(Steps) /\ t # <<>> /\ Orderly(t) /\ Fair(Handler(r), t) /\ Phase(r)
  BY DEF Trailing, TrailTables, Ready, Logged
<1>2. /\ a \in Steps
      /\ a \notin Reads => ~Has(u, Reads \cup Changes)
      /\ a \in Follows => (Handler(r) \in LateFailures /\ Has(u, Logs)) \/ (Handler(r) = "SetSuperAdmin" /\ ~Has(u, Logs))
  BY <1>1, HeadFacts
<1>3. \A X : Has(t, X) <=> a \in X \/ Has(u, X)
  BY <1>1, TailHas
<1>4. 1 \in DOMAIN t /\ a = t[1]
  BY <1>1, TailFacts
<1>5. a = "drop" => Due(t, "drop", {"fetch", "check"})
  BY <1>1, DueTail
<1> HIDE DEF t, a, u
<1>6. /\ Has(t, Reads \cup Changes) => Did(r) = {} /\ Said(r) = {}
      /\ Has(t, Logs) => Said(r) = {}
      /\ Has(t, ReadLogs) => Did(r) = {}
      /\ ~Has(t, Changes) => \A log \in ChangeLogs : Has(t, {log}) => Tallies(r, log)
      /\ Has(t, Follows) /\ ~Has(t, Logs) => Handler(r) = "SetSuperAdmin" /\ Changed(Did(r)) = Named(Said(r))
      /\ Due(t, "drop", {"fetch", "check"}) => There(q[r].id) \/ Twice(r)
  BY <1>1 DEF Phase, t
<1>7. a \in ChangeLogs => Tallies(r, a)
  <2> SUFFICES ASSUME a \in ChangeLogs PROVE Tallies(r, a)
    OBVIOUS
  <2>1. a \notin Reads /\ a \notin Changes
    BY DEF ChangeLogs, Reads, Changes
  <2>2. ~Has(u, Changes)
    BY <1>2, <2>1 DEF Has
  <2>3. Has(t, {a})
    BY <1>3
  <2> QED  BY <1>3, <1>6, <2>1, <2>2, <2>3
<1>8. a \in Follows => a \notin Logs
  BY DEF Follows, Logs, ReadLogs, ChangeLogs
<1>9. /\ a \in Reads \cup Changes => Did(r) = {} /\ Said(r) = {}
      /\ a \in Logs => Said(r) = {}
      /\ a \in ReadLogs => Did(r) = {}
  BY <1>3, <1>6
<1>10. a \in Follows => \/ Handler(r) \in LateFailures /\ Has(u, Logs) /\ Said(r) = {}
                        \/ Handler(r) = "SetSuperAdmin" /\ ~Has(u, Logs) /\ Changed(Did(r)) = Named(Said(r))
  BY <1>2, <1>3, <1>6, <1>8
<1> QED  BY <1>1, <1>5, <1>6, <1>7, <1>9, <1>10 DEF t, a, u

\* What a step does to them.
LEMMA OwnStep ==
    ASSUME Trailing, Logged, NEW r \in Reqs, StepOf(r), pc[r] = "trail", NEW S, NEW T, Stepping(r, S, T)
    PROVE  LET a == Head(todo[r])
           IN  /\ a \notin Changes => S = {}
               /\ a \notin Logs /\ ~Refusing(r) => T = {}
               /\ a \in Logs => Named(T) = Subjects(r, a) \/ a \in ReadLogs
               /\ a \in ReadLogs => \A e \in T : e.act \in {"export", "denied"}
               /\ a \in Changes /\ Proceed(r) => (Changing(r) /\ Told(r, S)) \/ Refusing(r)
               /\ a \notin Changes => view'[r].id = view[r].id
               /\ q'[r] = q[r] /\ Handler(r)' = Handler(r) /\ (Twice(r) => Twice(r)')
<1> DEFINE a == Head(todo[r])
<1>1. /\ q'[r] = q[r] /\ (Twice(r) => Twice(r)')
  BY TrailCases, HistoryStep DEF Trailing
<1>2. /\ a \notin Changes => S = {}
      /\ a \notin Logs /\ ~Refusing(r) => T = {}
  BY DEF Stepping, Reading, Paging, Refusing, Failing, Denying
<1>3. a \in Logs => Logging(r) /\ Entered(r, T) /\ UNCHANGED view
  BY DEF Stepping, Reading, Paging, Refusing, Failing, Denying, Reads, Follows, Changes, Logs, ReadLogs, ChangeLogs
<1>4. a \in Logs => (Named(T) = Subjects(r, a) \/ a \in ReadLogs) /\ (a \in ReadLogs => \A e \in T : e.act \in {"export", "denied"})
  BY <1>3 DEF Entered, Logs
<1>5. a \in ReadLogs => a \in Logs
  BY DEF Logs
<1>6. a \in Changes /\ Proceed(r) => (Changing(r) /\ Told(r, S)) \/ Refusing(r)
  BY DEF Stepping, Reading, Paging, Refusing, Failing, Denying, Reads, Follows, Changes, Logs, ReadLogs, ChangeLogs
<1>7. a \notin Changes => view'[r].id = view[r].id
  BY DEF Stepping, Reading, Paging, Refusing, Failing, Denying, Looks
<1> QED  BY <1>1, <1>2, <1>4, <1>5, <1>6, <1>7 DEF Handler

\* The entry that is left tells what the service has just changed.
LEMMA ChangeTallies ==
    ASSUME Trailing, Logged, NEW r \in Reqs, StepOf(r), pc[r] = "trail", NEW S, Told(r, S), Did(r)' = S,
           Head(todo[r]) \in Changes, NEW log, Tells(Head(todo[r]), log)
    PROVE  Tallies(r, log)'
<1> DEFINE a == Head(todo[r])
<1>1. /\ q'[r] = q[r] /\ Handler(r)' = Handler(r)
      /\ (Twice(r) => Twice(r)') /\ Handler(r)' = Handler(r)
  BY TrailCases, HistoryStep DEF Trailing, Handler
<1>2. a = "assign" => Handler(r) = "AssignVoucher"
  BY OwnFacts, HeadFacts
<1>3. a = "drop" => There(q[r].id) \/ Twice(r)
  BY OwnFacts
<1>4. Changed(Did(r))' = Changed(S)
  BY DEF Changed
<1>5. CASE a \in {"create", "assign", "replace", "merge"}
  <2>1. log \in {"logCreate", "logImport"} /\ (a = "assign" => log = "logCreate")
    BY <1>5 DEF Tells
  <2>2. Subjects(r, log)' = {view'[r].id}
    BY <2>1 DEF Subjects
  <2>3. Changed(S) = {view'[r].id} \/ (a = "assign" /\ S = {})
    BY <1>5 DEF Told
  <2> QED  BY <1>1, <1>2, <1>4, <2>1, <2>2, <2>3 DEF Tallies
<1>6. CASE a \in {"change", "save", "drop", "remove"}
  <2>1. log \in {"logChanges", "logUpdate", "logRole", "logGranted", "logAcrossOrgs", "logSnapshot", "logDelete"}
        /\ (a = "drop" => log \in {"logSnapshot", "logDelete"})
    BY <1>6 DEF Tells
  <2>2. Subjects(r, log)' = {q'[r].id}
    BY <2>1 DEF Subjects
  <2>3. Changed(S) = {q[r].id} \/ (a = "drop" /\ ~There(q[r].id) /\ S = {})
    BY <1>6 DEF Told
  <2> QED  BY <1>1, <1>3, <1>4, <2>1, <2>2, <2>3 DEF Tallies
<1>7. CASE a = "amend"
  <2>1. log = "logAmended"
    BY <1>7 DEF Tells
  <2>2. Subjects(r, log)' = {q'[r].id, view'[r].id}
    BY <2>1 DEF Subjects
  <2>3. Changed(S) = {q[r].id, view'[r].id}
    BY <1>7 DEF Told
  <2> QED  BY <1>1, <1>4, <2>2, <2>3 DEF Tallies
<1>8. CASE a = "move"
  <2>1. log = "logMoved"
    BY <1>8 DEF Tells
  <2>2. Subjects(r, log)' = {q'[r].id, q'[r].other}
    BY <2>1 DEF Subjects
  <2>3. Changed(S) = {q[r].id, q[r].other}
    BY <1>8 DEF Told
  <2> QED  BY <1>1, <1>4, <2>2, <2>3 DEF Tallies
<1> QED  BY <1>5, <1>6, <1>7, <1>8 DEF Changes

\* The handler goes on.
LEMMA OwnPhase ==
    ASSUME Trailing, Logged, NEW r \in Reqs, StepOf(r), pc[r] = "trail", OfTrail(r), pc'[r] = "trail"
    PROVE  Phase(r)'
<1> DEFINE t == todo[r]
           a == Head(t)
           u == Tail(t)
           h == Handler(r)
<1>1. /\ Requesting /\ Kinds(r) /\ TrailTables /\ Ready(r) /\ q'[r] = q[r] /\ DOMAIN pc = Reqs
  BY TrailCases DEF Trailing, Requesting, LocalsKnown
<1>2. PICK S, T : Stepping(r, S, T) /\ Did(r)' = Did(r) \cup S /\ Said(r)' = Said(r) \cup T
  BY <1>1, TrailFrame
<1>3. /\ t \in Seq(Steps) /\ t # <<>> /\ Orderly(t) /\ Fair(h, t)
      /\ a \in Reads \cup Changes => Did(r) = {} /\ Said(r) = {}
      /\ a \in Logs => Said(r) = {}
      /\ a \in ReadLogs => Did(r) = {}
      /\ a \in ChangeLogs => Tallies(r, a)
      /\ a \in Follows => \/ h \in LateFailures /\ Has(u, Logs) /\ Said(r) = {}
                          \/ h = "SetSuperAdmin" /\ ~Has(u, Logs) /\ Changed(Did(r)) = Named(Said(r))
      /\ a = "drop" => There(q[r].id) \/ Twice(r)
  BY OwnFacts
<1>4. /\ a \notin Changes => S = {}
      /\ a \notin Logs /\ ~Refusing(r) => T = {}
      /\ a \in Logs => Named(T) = Subjects(r, a) \/ a \in ReadLogs
      /\ a \in Changes /\ Proceed(r) => (Changing(r) /\ Told(r, S)) \/ Refusing(r)
      /\ a \notin Changes => view'[r].id = view[r].id
      /\ Handler(r)' = h /\ (Twice(r) => Twice(r)')
  BY <1>2, OwnStep
<1>5. ~Refusing(r)
  BY <1>1 DEF Refusing, Stop, Answer
<1>6. Phase(r)
  BY DEF Logged
<1>7. CASE Proceed(r) /\ todo'[r] = u /\ u # <<>>
  <2>1. \A X : Has(t, X) <=> a \in X \/ Has(u, X)
    BY <1>3, TailHas
  <2>2. /\ a \in Steps
        /\ a \notin Reads => ~Has(u, Reads \cup Changes)
        /\ a \in Logs => ~Has(u, Logs)
        /\ a \in Changes => Has(u, Logs) /\ \A i \in DOMAIN u : u[i] \in Logs => Tells(a, u[i])
        /\ Has(t, Changes) => Has(t, Logs)
        /\ a \in Logs /\ Has(u, Follows) => h = "SetSuperAdmin"
        /\ a \in Logs /\ h = "SetSuperAdmin" => a = "logGranted"
    BY <1>3, HeadFacts
  <2>3. \A i \in DOMAIN u : i + 1 \in DOMAIN t /\ u[i] = t[i + 1]
    BY <1>3, TailFacts
  <2>4. Due(u, "drop", {"fetch", "check"}) => a \in {"fetch", "check"} \/ Due(t, "drop", {"fetch", "check"})
    BY <1>3, DueTail
  <2> HIDE DEF t, a, u, h
  <2>5. /\ Has(t, Reads \cup Changes) => Did(r) = {} /\ Said(r) = {}
        /\ Has(t, Logs) => Said(r) = {}
        /\ Has(t, ReadLogs) => Did(r) = {}
        /\ ~Has(t, Changes) => \A log \in ChangeLogs : Has(t, {log}) => Tallies(r, log)
        /\ Has(t, Follows) /\ ~Has(t, Logs) => h = "SetSuperAdmin" /\ Changed(Did(r)) = Named(Said(r))
        /\ Due(t, "drop", {"fetch", "check"}) => There(q[r].id) \/ Twice(r)
    BY <1>6 DEF Phase, t, h
  <2>6. Has(u, Reads \cup Changes) => Did(r)' = {} /\ Said(r)' = {}
    <3> SUFFICES ASSUME Has(u, Reads \cup Changes) PROVE Did(r)' = {} /\ Said(r)' = {}
      OBVIOUS
    <3>1. a \in Reads
      BY <2>2
    <3>2. a \notin Changes /\ a \notin Logs
      BY <3>1 DEF Reads, Changes, Logs, ReadLogs, ChangeLogs
    <3> QED  BY <1>2, <1>3, <1>4, <1>5, <3>1, <3>2
  <2>7. Has(u, Logs) => Said(r)' = {}
    BY <1>2, <1>4, <1>5, <2>1, <2>2, <2>5
  <2>8. Has(u, ReadLogs) => Did(r)' = {}
    <3> SUFFICES ASSUME Has(u, ReadLogs) PROVE Did(r)' = {}
      OBVIOUS
    <3>1. PICK i \in DOMAIN u : u[i] \in ReadLogs
      BY DEF Has
    <3>2. ASSUME a \in Changes PROVE FALSE
      <4>1. Tells(a, u[i])
        BY <2>2, <3>1, <3>2 DEF Logs
      <4> QED  BY <3>1, <4>1 DEF Tells, ReadLogs
    <3> QED  BY <1>2, <1>4, <2>1, <2>5, <3>2
  <2>9. ASSUME ~Has(u, Changes), NEW log \in ChangeLogs, Has(u, {log}) PROVE Tallies(r, log)'
    <3>1. log \in Logs
      BY DEF Logs
    <3>2. CASE a \in Changes
      <4>1. Tells(a, log)
        BY <2>2, <2>9, <3>1, <3>2 DEF Has
      <4>2. Told(r, S) /\ Did(r)' = S
        BY <1>2, <1>3, <1>4, <1>5, <1>7, <3>2
      <4>3. Head(todo[r]) \in Changes /\ Tells(Head(todo[r]), log)
        BY <3>2, <4>1 DEF a, t
      <4> QED  BY <4>2, <4>3, ChangeTallies
    <3>3. CASE a \notin Changes
      <4>1. ~Has(t, Changes)
        BY <2>1, <2>9, <3>3
      <4>2. Tallies(r, log)
        BY <2>1, <2>5, <2>9, <4>1
      <4>3. Did(r)' = Did(r) /\ view'[r].id = view[r].id
        BY <1>2, <1>4, <3>3
      <4>4. Subjects(r, log)' = Subjects(r, log)
        BY <1>1, <4>3 DEF Subjects
      <4> QED  BY <1>4, <4>2, <4>3, <4>4 DEF Tallies, Changed, h
    <3> QED  BY <3>2, <3>3
  <2>10. Has(u, Follows) /\ ~Has(u, Logs) => h = "SetSuperAdmin" /\ (Changed(Did(r)) = Named(Said(r)))'
    <3> SUFFICES ASSUME Has(u, Follows), ~Has(u, Logs)
                 PROVE  h = "SetSuperAdmin" /\ (Changed(Did(r)) = Named(Said(r)))'
      OBVIOUS
    <3>1. a \notin Changes
      BY <2>2
    <3>2. CASE a \in Logs
      <4>1. h = "SetSuperAdmin" /\ a = "logGranted"
        BY <2>2, <3>2
      <4>2. Tallies(r, a) /\ Named(T) = Subjects(r, a)
        BY <1>3, <1>4, <3>2, <4>1 DEF ChangeLogs, ReadLogs
      <4>3. Changed(Did(r)) = Named(T)
        BY <4>1, <4>2 DEF Tallies
      <4>4. Did(r)' = Did(r) /\ Said(r)' = T
        BY <1>2, <1>3, <1>4, <3>1, <3>2
      <4> QED  BY <4>1, <4>3, <4>4 DEF Changed, Named
    <3>3. CASE a \notin Logs
      <4>1. h = "SetSuperAdmin" /\ Changed(Did(r)) = Named(Said(r))
        BY <2>1, <2>5, <3>3
      <4>2. Did(r)' = Did(r) /\ Said(r)' = Said(r)
        BY <1>2, <1>4, <1>5, <3>1, <3>3
      <4> QED  BY <4>1, <4>2 DEF Changed, Named
    <3> QED  BY <3>2, <3>3
  <2>11. Due(u, "drop", {"fetch", "check"}) => There(q[r].id)' \/ Twice(r)'
    <3> SUFFICES ASSUME Due(u, "drop", {"fetch", "check"}) PROVE There(q[r].id)' \/ Twice(r)'
      OBVIOUS
    <3>1. a \in Reads
      <4>1. "drop" \in Changes /\ \E i \in DOMAIN u : u[i] = "drop"
        BY DEF Due, Changes
      <4> QED  BY <2>2, <4>1 DEF Has
    <3>2. Reading(r)
      <4>1. a \notin Changes /\ a \notin Logs /\ \A v : ~Stop(r, v)
        BY <1>1, <3>1 DEF Reads, Changes, Logs, ReadLogs, ChangeLogs, Stop, Answer
      <4>2. Reading(r) \/ Paging(r)
        BY <1>2, <1>5, <4>1 DEF Stepping, Failing, Denying, a, t
      <4>5. ~Paging(r)
        <5>1. ASSUME Paging(r) PROVE FALSE
          <6>1. UNCHANGED <<pc, resp>> /\ todo'[r] = <<"count">> \o t
            BY <1>1, <5>1 DEF Paging, TrailTables, t
          <6>2. <<"count">> \o t # u
            <7>1. Len(<<"count">> \o t) = 1 + Len(t) /\ Len(u) = Len(t) - 1 /\ Len(t) \in Nat
              <8>1. <<"count">> \in Seq(Steps) /\ Len(<<"count">>) = 1
                BY DEF Steps, Reads
              <8> QED  BY <1>3, <8>1, ConcatProperties, TailFacts DEF u, t
            <7> QED  BY <7>1
          <6> QED  BY <1>7, <6>1, <6>2
        <5> QED  BY <5>1
      <4> QED  BY <4>2, <4>5
    <3>3. UNCHANGED rows /\ (a \in {"fetch", "check"} => There(q[r].id))
      BY <3>2 DEF Reading, Reached, a, t
    <3> QED  BY <1>1, <1>4, <2>4, <2>5, <3>3 DEF There
  <2> QED  BY <1>1, <1>4, <1>7, <2>6, <2>7, <2>8, <2>9, <2>10, <2>11 DEF Phase, There
<1>8. CASE Paging(r) /\ todo'[r] = <<"count">> \o t
  <2>1. a \in Reads /\ a = "page"
    BY <1>8 DEF Paging, Reads
  <2>2. Did(r) = {} /\ Said(r) = {} /\ Did(r)' = {} /\ Said(r)' = {}
    <3>1. a \notin Changes /\ a \notin Logs
      BY <2>1 DEF Changes, Logs, ReadLogs, ChangeLogs
    <3> QED  BY <1>2, <1>3, <1>4, <1>5, <2>1, <3>1
  <2>3. \A X : "count" \notin X => (Has(todo'[r], X) <=> Has(t, X))
    <3>1. \A X : "count" \notin X => (Has(<<"count">> \o t, X) <=> Has(t, X))
      BY <1>3, <2>1, PageGood
    <3> QED  BY <1>8, <3>1
  <2>4. Due(todo'[r], "drop", {"fetch", "check"}) => Due(t, "drop", {"fetch", "check"})
    BY <1>3, <1>8, <2>1, DueCount
  <2>5. Due(todo'[r], "drop", {"fetch", "check"}) => There(q[r].id)' \/ Twice(r)'
    BY <1>1, <1>4, <1>6, <1>8, <2>4 DEF Phase, Paging, There
  <2>6. ASSUME ~Has(todo'[r], Changes), NEW log \in ChangeLogs, Has(todo'[r], {log}) PROVE Tallies(r, log)'
    <3>1. ~Has(t, Changes) /\ Has(t, {log})
      BY <2>3, <2>6 DEF Changes, ChangeLogs
    <3>2. Tallies(r, log)
      BY <1>6, <3>1 DEF Phase
    <3>3. Did(r)' = Did(r) /\ view'[r].id = view[r].id
      BY <1>4, <2>1, <2>2 DEF Changes
    <3>4. Subjects(r, log)' = Subjects(r, log)
      BY <1>1, <3>3 DEF Subjects
    <3> QED  BY <1>4, <3>2, <3>3, <3>4 DEF Tallies, Changed
  <2>7. Has(todo'[r], Follows) /\ ~Has(todo'[r], Logs) => Handler(r)' = "SetSuperAdmin" /\ (Changed(Did(r)) = Named(Said(r)))'
    <3>1. Has(todo'[r], Follows) /\ ~Has(todo'[r], Logs) => h = "SetSuperAdmin"
      BY <1>6, <2>3 DEF Phase, Follows, Logs, ReadLogs, ChangeLogs
    <3> QED  BY <1>4, <2>2, <3>1 DEF Changed, Named
  <2> QED  BY <1>1, <2>2, <2>5, <2>6, <2>7 DEF Phase, There
<1> QED  BY <1>2, <1>7, <1>8, ProgramStep

\* The handler answers.
LEMMA OwnSettled ==
    ASSUME Trailing, Logged, NEW r \in Reqs, StepOf(r), pc[r] = "trail", OfTrail(r), pc'[r] = "done"
    PROVE  Settled(r)'
<1> DEFINE t == todo[r]
           a == Head(t)
           u == Tail(t)
           h == Handler(r)
<1>1. /\ Requesting /\ Kinds(r) /\ TrailTables /\ Ready(r) /\ q'[r] = q[r] /\ DOMAIN pc = Reqs /\ DOMAIN resp = Reqs
  BY TrailCases DEF Trailing, Requesting, LocalsKnown
<1>2. PICK S, T : Stepping(r, S, T) /\ Did(r)' = Did(r) \cup S /\ Said(r)' = Said(r) \cup T
  BY <1>1, TrailFrame
<1>3. /\ t \in Seq(Steps) /\ t # <<>> /\ Orderly(t) /\ Fair(h, t)
      /\ a \in Reads \cup Changes => Did(r) = {} /\ Said(r) = {}
      /\ a \in Logs => Said(r) = {}
      /\ a \in ReadLogs => Did(r) = {}
      /\ a \in ChangeLogs => Tallies(r, a)
      /\ a \in Follows => \/ h \in LateFailures /\ Has(u, Logs) /\ Said(r) = {}
                          \/ h = "SetSuperAdmin" /\ ~Has(u, Logs) /\ Changed(Did(r)) = Named(Said(r))
  BY OwnFacts
<1>4. /\ a \notin Changes => S = {}
      /\ a \notin Logs /\ ~Refusing(r) => T = {}
      /\ a \in Logs => Named(T) = Subjects(r, a) \/ a \in ReadLogs
      /\ a \in ReadLogs => \A e \in T : e.act \in {"export", "denied"}
      /\ Handler(r)' = h /\ (Twice(r) => Twice(r)')
  BY <1>2, OwnStep
<1>5. /\ a \in Steps /\ (a \in Changes => Has(u, Logs))
  BY <1>3, HeadFacts
<1>6. CASE Proceed(r) /\ resp'[r] = "ok" /\ u = <<>>
  <2>1. \A X : ~Has(u, X)
    BY <1>6 DEF Has
  <2>2. a \notin Changes /\ S = {} /\ ~Refusing(r)
    BY <1>1, <1>4, <1>5, <1>6, <2>1 DEF Refusing, Stop, Answer
  <2> HIDE DEF t, a, u, h
  <2>3. Did(r)' = Did(r)
    BY <1>2, <2>2
  <2>4. CASE a \in Reads
    <3>1. Did(r)' = {} /\ Said(r)' = {}
      <4>1. a \notin Logs
        BY <2>4 DEF Reads, Logs, ReadLogs, ChangeLogs
      <4> QED  BY <1>2, <1>3, <1>4, <2>2, <2>3, <2>4, <4>1
    <3> QED  BY <1>6, <3>1 DEF Settled, Changed, Named
  <2>5. CASE a \in Follows
    <3>1. a \notin Logs
      BY <2>5 DEF Follows, Logs, ReadLogs, ChangeLogs
    <3>2. Changed(Did(r)) = Named(Said(r)) /\ Said(r)' = Said(r)
      BY <1>2, <1>3, <1>4, <2>1, <2>2, <2>5, <3>1
    <3>3. (Changed(Did(r)) = Named(Said(r)))'
      BY <2>3, <3>2 DEF Changed, Named
    <3> QED  BY <1>6, <3>3 DEF Settled
  <2>6. CASE a \in ReadLogs
    <3>1. a \in Logs
      BY <2>6 DEF Logs
    <3>2. Did(r)' = {} /\ Said(r)' = T
      BY <1>2, <1>3, <2>3, <2>6, <3>1
    <3> QED  BY <1>4, <1>6, <2>6, <3>2 DEF Settled, Changed
  <2>7. CASE a \in ChangeLogs
    <3>1. a \in Logs /\ a \notin ReadLogs
      BY <2>7 DEF Logs, ReadLogs, ChangeLogs
    <3>2. Said(r)' = T /\ Named(T) = Subjects(r, a) /\ Tallies(r, a)
      BY <1>2, <1>3, <1>4, <2>7, <3>1
    <3>3. CASE Changed(Did(r)) = Subjects(r, a)
      <4>1. (Changed(Did(r)) = Named(Said(r)))'
        BY <2>3, <3>2, <3>3 DEF Changed, Named
      <4> QED  BY <1>6, <4>1 DEF Settled
    <3>4. CASE Did(r) = {} /\ (Twice(r) \/ h = "AssignVoucher")
      <4>1. Did(r)' = {} /\ (Twice(r)' \/ Handler(r)' = "AssignVoucher")
        BY <1>4, <2>3, <3>4
      <4> QED  BY <1>6, <4>1 DEF Settled, Changed
    <3> QED  BY <3>2, <3>3, <3>4 DEF Tallies, h
  <2> QED  BY <1>5, <2>2, <2>4, <2>5, <2>6, <2>7 DEF Steps, Logs
<1>7. CASE Refusing(r)
  <2>1. a \in Reads \cup Changes /\ resp'[r] = "refused"
    BY <1>1, <1>7 DEF Refusing, Stop, Answer
  <2>2. \/ S = {} /\ \A e \in T : e.act = "refusal"
        \/ S = {} /\ T = {}
    <3>1. ~Proceed(r)
      BY <1>1, <2>1 DEF Proceed, Answer, Requesting, Kinds
    <3> QED  BY <1>2, <3>1 DEF Stepping
  <2>3. Did(r)' = {} /\ \A e \in Said(r)' : e.act = "refusal"
    BY <1>2, <1>3, <2>1, <2>2
  <2> QED  BY <2>1, <2>3 DEF Settled
<1>8. CASE Failing(r)
  <2>1. a \in Follows /\ resp'[r] = "failed" /\ a \notin Changes /\ a \notin Logs /\ ~Refusing(r)
    <3>1. a \in Follows /\ resp'[r] = "failed"
      BY <1>1, <1>8 DEF Failing, Stop, Answer
    <3> QED  BY <1>1, <3>1 DEF Follows, Changes, Logs, ReadLogs, ChangeLogs, Refusing, Stop, Answer
  <2>2. Did(r)' = Did(r) /\ Said(r)' = Said(r)
    BY <1>2, <1>4, <2>1
  <2>3. \/ Handler(r)' \in LateFailures /\ Said(r)' = {}
        \/ Handler(r)' = "SetSuperAdmin" /\ (Changed(Did(r)) = Named(Said(r)))'
    BY <1>3, <1>4, <2>1, <2>2 DEF Changed, Named
  <2> QED  BY <2>1, <2>3 DEF Settled
<1>9. CASE Denying(r)
  <2>1. a = "admit" /\ resp'[r] = "denied" /\ ~Refusing(r)
    BY <1>1, <1>9 DEF Denying, Stop, Answer, Refusing
  <2>2. Did(r)' = {} /\ Said(r)' = {}
    BY <1>2, <1>3, <1>4, <2>1 DEF Reads, Changes, Logs, ReadLogs, ChangeLogs
  <2> QED  BY <2>1, <2>2 DEF Settled
<1>10. Proceed(r) => resp'[r] = "ok" /\ u = <<>>
  <2>1. u = <<>> <=> Len(t) = 1
    BY <1>3, TailFacts
  <2> QED  BY <1>1, <2>1 DEF Proceed, Answer
<1>11. ~Paging(r)
  BY DEF Paging
<1> QED  BY <1>2, <1>6, <1>7, <1>8, <1>9, <1>10, <1>11 DEF Stepping, Reading

\* Every step of every request keeps what is logged true to what was done.
LEMMA LoggedStep ==
    ASSUME Trailing, Logged, NEW r \in Reqs, StepOf(r)
    PROVE  Logged'
<1>1. /\ Requesting /\ Requesting' /\ Moves(r) /\ pc[r] # "done"
      /\ (pc[r] # "idle" => q'[r] = q[r] /\ prior'[r] = prior[r])
      /\ Elsewhere(r) \/ Begins(r) \/ (OfTrail(r) /\ pc[r] = "trail")
  BY TrailCases DEF Trailing
<1>2. /\ pc'[r] = "idle" => Did(r)' = {} /\ Said(r)' = {}
      /\ pc'[r] = "trail" => Phase(r)'
      /\ (r \in Handled)' => Settled(r)'
  <2>1. CASE Elsewhere(r)
    BY <2>1 DEF Elsewhere, Handled
  <2>2. CASE Begins(r)
    <3>1. pc[r] = "idle" /\ pc'[r] = "trail" /\ Did(r)' = {} /\ Said(r)' = {}
      BY <2>2, ElsewhereFrame DEF Begins, Logged
    <3>2. todo'[r] = Handlers[q'[r].handler] /\ q'[r].handler \in DOMAIN Handlers
      BY <2>2, ElsewhereFrame DEF Begins
    <3>3. Whole(todo'[r]) /\ Orderly(todo'[r]) /\ Fair(q'[r].handler, todo'[r])
      BY <3>2, HandlersGood
    <3>4. ~Due(todo'[r], "drop", {"fetch", "check"})
      BY <3>3 DEF Whole, Due
    <3>5. Has(todo'[r], Changes) => Has(todo'[r], Logs)
      BY <3>3, HeadFacts DEF Whole
    <3>6. Has(todo'[r], Follows) => Has(todo'[r], Changes)
      BY <3>3 DEF Whole, Has
    <3>7. \A log \in ChangeLogs : Has(todo'[r], {log}) => Has(todo'[r], Changes)
      BY <3>3 DEF Whole, Has
    <3>8. Phase(r)'
      BY <3>1, <3>4, <3>5, <3>6, <3>7 DEF Phase
    <3> QED  BY <3>1, <3>8 DEF Handled
  <2>3. CASE OfTrail(r) /\ pc[r] = "trail"
    <3>1. PICK S, T : Stepping(r, S, T)
      BY <1>1, <2>3, TrailFrame DEF Trailing, Requesting
    <3>2. pc'[r] \in {"trail", "done"}
      BY <2>3, <3>1, ProgramStep
    <3>3. pc'[r] # "idle" /\ (pc'[r] = "trail" => Phase(r)') /\ (pc'[r] = "done" => Settled(r)')
      BY <2>3, <3>2, OwnPhase, OwnSettled
    <3> QED  BY <3>2, <3>3 DEF Handled
  <2> QED  BY <1>1, <2>1, <2>2, <2>3
<1>3. \A s \in Reqs \ {r} : /\ pc'[s] = "idle" => Did(s)' = {} /\ Said(s)' = {}
                            /\ pc'[s] = "trail" => Phase(s)'
                            /\ (s \in Handled)' => Settled(s)'
  BY LoggedOthers
<1> QED  BY <1>2, <1>3 DEF Logged

\* Invariants of the specification.
LEMMA LoggedInvariant == Spec => [](Trailing /\ Logged)
<1>1. Init => Trailing /\ Logged
  BY TrailingInit DEF Logged, Handled
<1>2. Trailing /\ Logged /\ [Next]_vars => (Trailing /\ Logged)'
  <2> SUFFICES ASSUME Trailing, Logged, [Next]_vars PROVE (Trailing /\ Logged)'
    OBVIOUS
  <2>1. CASE UNCHANGED vars
    <3>2. UNCHANGED <<pc, q, resp, prior, rows, trail, done, todo, view>>
      BY <2>1 DEF vars, requestVars, trailVars
    <3>3. \A s : Did(s)' = Did(s) /\ Said(s)' = Said(s) /\ (Twice(s)' <=> Twice(s)) /\ Handler(s)' = Handler(s)
      BY <3>2 DEF Did, Said, By, Twice, History, Elements, Overlap, Handler
    <3>4. \A s, log : Tallies(s, log)' <=> Tallies(s, log)
      BY <3>2, <3>3 DEF Tallies, Changed, Subjects
    <3>5. \A s : (Phase(s)' <=> Phase(s)) /\ (Settled(s)' <=> Settled(s))
      BY <3>2, <3>3, <3>4 DEF Phase, Settled, Changed, Named, There
    <3>1. Logged'
      BY <3>2, <3>3, <3>5 DEF Logged, Handled, Sent
    <3> QED  BY <2>1, <3>1, TrailingStutters
  <2>2. CASE \E r \in Reqs : StepOf(r)
    BY <2>2, TrailingStep, LoggedStep
  <2> QED  BY <2>1, <2>2 DEF Next, Finished, StepOf
<1> QED  BY <1>1, <1>2, PTL DEF Spec
---------------------------------------------------------------------------
(* The sum of what the entries about denials carry. *)

\* A set of numbers has a smallest one.
LEMMA Smallest ==
    ASSUME NEW T, T \subseteq Nat, T # {} PROVE \E m \in T : \A n \in T : m <= n
<1>1. IsWellFoundedOn(OpToRel(<, Nat), Nat)
  BY NatLessThanWellFounded
<1>2. PICK R : R = OpToRel(<, Nat)
  OBVIOUS
<1>3. PICK x \in T : \A y \in T : ~ (<<y, x>> \in R)
  BY <1>1, <1>2, WFMin
<1>4. R = {ss \in Nat \X Nat : ss[1] < ss[2]}
  BY <1>2 DEF OpToRel
<1>5. ASSUME NEW y \in T PROVE x <= y
  <2>1. <<y, x>> \notin R /\ <<y, x>> \in Nat \X Nat
    BY <1>3
  <2>2. ASSUME y < x PROVE FALSE
    <3> DEFINE ss == <<y, x>>
    <3>1. ss \in Nat \X Nat /\ ss[1] < ss[2]
      BY <2>2
    <3> QED  BY <3>1, <2>1, <1>4
  <2> QED  BY <2>2
<1> QED  BY <1>5

\* A set of finite sets has one that is in it without any of its elements.
LEMMA Fewest ==
    ASSUME NEW S, IsFiniteSet(S), NEW B, B \subseteq SUBSET S, B # {}
    PROVE  \E T \in B : \A x \in T : T \ {x} \notin B
<1> DEFINE N == {Cardinality(T) : T \in B}
<1>1. \A T \in B : IsFiniteSet(T) /\ Cardinality(T) \in Nat
  BY FS_Subset, FS_CardinalityType
<1>2. N \subseteq Nat /\ N # {}
  BY <1>1
<1>3. PICK m \in N : \A n \in N : m <= n
  BY <1>2, Smallest
<1>4. PICK T \in B : m = Cardinality(T)
  BY <1>3
<1>5. ASSUME NEW x \in T, T \ {x} \in B PROVE FALSE
  <2>1. Cardinality(T \ {x}) = Cardinality(T) - 1
    BY <1>1, FS_RemoveElement
  <2>2. Cardinality(T \ {x}) \in N
    BY <1>5
  <2>3. Cardinality(T) <= Cardinality(T \ {x}) /\ Cardinality(T) \in Nat
    BY <1>1, <1>3, <1>4, <2>2
  <2> QED  BY <2>1, <2>3
<1> QED  BY <1>5

\* What the requests of a set carry, one by one.
Units(v, S) == UNION {{r} \X (1..v[r].carried) : r \in S}
Carried(v, S) == MapThenSumSet(LAMBDA r : v[r].carried, S)
Some(s) == CHOOSE x \in s : TRUE
Adds(v, f, S) == f = [s \in SUBSET S |-> IF s = {} THEN 0 ELSE v[Some(s)].carried + f[s \ {Some(s)}]]

More(v, S, x) == Cardinality(Units(v, S)) = v[x].carried + Cardinality(Units(v, S \ {x}))

\* One more element has its own units.
LEMMA UnitsAdd ==
    ASSUME NEW v, NEW S, NEW x \in S, v[x].carried \in Nat, IsFiniteSet(Units(v, S \ {x}))
    PROVE  IsFiniteSet(Units(v, S)) /\ More(v, S, x)
<1> DEFINE A == Units(v, S \ {x})
           B == {x} \X (1..v[x].carried)
<1>1. Units(v, S) = A \cup B /\ A \cap B = {}
  BY DEF Units
<1>2. IsFiniteSet(B) /\ Cardinality(B) = v[x].carried
  <2>1. PICK n \in Nat : n = v[x].carried
    OBVIOUS
  <2>2. IsFiniteSet(1..n) /\ Cardinality(1..n) = n
    <3>1. n \in Int /\ 1 \in Int
      OBVIOUS
    <3>2. IsFiniteSet(1..n) /\ Cardinality(1..n) = IF 1 > n THEN 0 ELSE n - 1 + 1
      BY <3>1, FS_Interval
    <3> QED  BY <3>2
  <2>3. IsFiniteSet({x}) /\ Cardinality({x}) = 1
    BY FS_Singleton
  <2>4. IsFiniteSet({x} \X (1..n)) /\ Cardinality({x} \X (1..n)) = 1 * n
    <3> DEFINE X == {x}
               Y == 1..n
    <3> HIDE DEF X, Y
    <3>1. IsFiniteSet(X \X Y) /\ Cardinality(X \X Y) = Cardinality(X) * Cardinality(Y)
      BY <2>2, <2>3, FS_Product DEF X, Y
    <3> QED  BY <2>2, <2>3, <3>1 DEF X, Y
  <2> QED  BY <2>1, <2>4
<1>3. Cardinality({}) = 0 /\ Cardinality(A) \in Nat
  BY FS_EmptySet, FS_CardinalityType
<1> HIDE DEF A, B
<1>4. IsFiniteSet(A \cup B) /\ Cardinality(A \cup B) = Cardinality(A) + Cardinality(B) - Cardinality(A \cap B)
  BY <1>2, FS_Union DEF A
<1>5. Cardinality(A) + Cardinality(B) - Cardinality(A \cap B) = v[x].carried + Cardinality(A)
  <2>1. Cardinality(A \cap B) = 0
    BY <1>1, <1>3
  <2>2. \A a, b \in Nat : a + b - 0 = b + a
    OBVIOUS
  <2> QED  BY <1>2, <1>3, <2>1, <2>2
<1>6. IsFiniteSet(Units(v, S)) /\ Cardinality(Units(v, S)) = v[x].carried + Cardinality(A)
  BY <1>1, <1>4, <1>5
<1> QED  BY <1>6 DEF A, More

\* They are finitely many.
LEMMA UnitsFinite ==
    ASSUME NEW v, NEW S, IsFiniteSet(S), \A x \in S : v[x].carried \in Nat
    PROVE  IsFiniteSet(Units(v, S))
<1> DEFINE B == {T \in SUBSET S : ~IsFiniteSet(Units(v, T))}
<1> SUFFICES ASSUME B # {} PROVE FALSE
  OBVIOUS
<1>1. PICK T \in B : \A x \in T : T \ {x} \notin B
  BY Fewest
<1>2. T # {}
  BY FS_EmptySet DEF Units
<1>3. PICK x \in T : TRUE
  BY <1>2
<1> QED  BY <1>1, <1>3, UnitsAdd

\* The sum over a finite set is the number of the units.
LEMMA CarriedUnits ==
    ASSUME NEW v, NEW S, IsFiniteSet(S), \A x \in S : v[x].carried \in Nat
    PROVE  Carried(v, S) = Cardinality(Units(v, S))
<1>0. ASSUME NEW T, NEW x \in T, v[x].carried \in Nat, IsFiniteSet(Units(v, T \ {x}))
      PROVE  Cardinality(Units(v, T)) = v[x].carried + Cardinality(Units(v, T \ {x}))
  <2>1. More(v, T, x)
    BY <1>0, UnitsAdd
  <2> QED  BY <2>1 DEF More
<1> DEFINE n(s) == Cardinality(Units(v, s))
           f == [s \in SUBSET S |-> n(s)]
<1>1. \A s \in SUBSET S : IsFiniteSet(Units(v, s)) /\ n(s) \in Nat
  BY FS_Subset, UnitsFinite, FS_CardinalityType
<1>2. n({}) = 0
  BY FS_EmptySet DEF Units
<1>3. ASSUME NEW s \in SUBSET S, s # {} PROVE Some(s) \in s /\ n(s) = v[Some(s)].carried + n(s \ {Some(s)})
  <2>1. Some(s) \in s
    BY <1>3 DEF Some
  <2>2. IsFiniteSet(Units(v, s \ {Some(s)})) /\ v[Some(s)].carried \in Nat
    BY <1>1, <2>1
  <2> HIDE DEF f, n
  <2>3. Cardinality(Units(v, s)) = v[Some(s)].carried + Cardinality(Units(v, s \ {Some(s)}))
    BY <1>0, <2>1, <2>2
  <2> QED  BY <2>1, <2>3 DEF n
<1> HIDE DEF n
<1>4. Adds(v, f, S)
  <2>1. \A s \in SUBSET S : f[s] = IF s = {} THEN 0 ELSE v[Some(s)].carried + f[s \ {Some(s)}]
    BY <1>2, <1>3
  <2>2. f = [s \in SUBSET S |-> f[s]]
    OBVIOUS
  <2> HIDE DEF f
  <2> QED  BY <2>1, <2>2 DEF Adds
<1> HIDE DEF f
<1>5. PICK g : Adds(v, g, S) /\ Carried(v, S) = g[S]
  BY <1>4 DEF Carried, MapThenSumSet, MapThenFoldSet, Adds, Some
<1>6. \A s \in SUBSET S : g[s] = IF s = {} THEN 0 ELSE v[Some(s)].carried + g[s \ {Some(s)}]
  <2> DEFINE G == [s \in SUBSET S |-> IF s = {} THEN 0 ELSE v[Some(s)].carried + g[s \ {Some(s)}]]
  <2>1. g = G
    BY <1>5 DEF Adds
  <2>2. \A s \in SUBSET S : G[s] = IF s = {} THEN 0 ELSE v[Some(s)].carried + g[s \ {Some(s)}]
    OBVIOUS
  <2> QED  BY <2>1, <2>2
<1> DEFINE B == {s \in SUBSET S : g[s] # n(s)}
<1>7. ASSUME B # {} PROVE FALSE
  <2>1. PICK s \in B : \A x \in s : s \ {x} \notin B
    BY <1>7, Fewest
  <2>2. s # {} /\ g[s \ {Some(s)}] = n(s \ {Some(s)})
    BY <1>2, <1>3, <1>6, <2>1
  <2> QED  BY <1>3, <1>6, <2>1, <2>2
<1> QED  BY <1>5, <1>7 DEF n

Joins(v, w, S, x) == Carried(w, S \cup {x}) = Carried(v, S) + w[x].carried

\* The sum is over what is carried, and one more element adds to it.
LEMMA CarriedFacts ==
    ASSUME NEW v, NEW w, NEW S, IsFiniteSet(S),
           \A x \in S : v[x].carried \in Nat /\ w[x].carried = v[x].carried
    PROVE  /\ Carried(v, S) \in Nat /\ Carried(w, S) = Carried(v, S)
           /\ \A x : x \notin S /\ w[x].carried \in Nat => Joins(v, w, S, x)
<1>0. ASSUME NEW T, NEW x \in T, w[x].carried \in Nat, IsFiniteSet(Units(w, T \ {x}))
      PROVE  Cardinality(Units(w, T)) = w[x].carried + Cardinality(Units(w, T \ {x}))
  <2>1. More(w, T, x)
    BY <1>0, UnitsAdd
  <2> QED  BY <2>1 DEF More
<1>1. IsFiniteSet(Units(v, S)) /\ Carried(v, S) = Cardinality(Units(v, S)) /\ Carried(v, S) \in Nat
  BY UnitsFinite, CarriedUnits, FS_CardinalityType
<1>2. Units(w, S) = Units(v, S) /\ \A x \in S : w[x].carried \in Nat
  BY DEF Units
<1>3. Carried(w, S) = Carried(v, S)
  BY <1>1, <1>2, CarriedUnits
<1>4. ASSUME NEW x, x \notin S, w[x].carried \in Nat
      PROVE  Joins(v, w, S, x)
  <2> DEFINE T == S \cup {x}
  <2>1. x \in T /\ T \ {x} = S /\ IsFiniteSet(T) /\ \A y \in T : w[y].carried \in Nat
    BY <1>2, <1>4, FS_AddElement
  <2> HIDE DEF T
  <2>2. IsFiniteSet(Units(w, T \ {x}))
    BY <1>1, <1>2, <2>1
  <2>3. Cardinality(Units(w, T)) = w[x].carried + Cardinality(Units(w, S))
    BY <1>0, <1>4, <2>1, <2>2
  <2>4. Carried(w, T) = Cardinality(Units(w, T))
    BY <2>1, CarriedUnits
  <2> QED  BY <1>1, <1>2, <1>4, <2>3, <2>4 DEF T, Joins
<1> QED  BY <1>1, <1>3, <1>4

---------------------------------------------------------------------------
(* The denials of a known user. *)

Denied(r) == Sent(r) /\ q[r].kind = "trail" /\ Handler(r) = "Refused" /\ q[r].known
Admitted == {r \in Reqs : Denied(r) /\ (pc[r] = "done" \/ (pc[r] = "trail" /\ ~At(r, "admit")))}
Written == {r \in Admitted : resp[r] # "denied"}
Suppressed(t) == IF t = NoRow THEN 0 ELSE t.suppressed

Counted ==
    /\ \A r \in Reqs : pc[r] = "trail" /\ Handler(r) = "Refused" =>
         todo[r] \in {<<"admit", "logDenied">>, <<"logDenied">>}
    /\ IsFiniteSet(Admitted)
    /\ Cardinality(Admitted) = Cardinality(Written) + Carried(view, Written) + Suppressed(throttle)

\* The property is of those sets.
LEMMA CountedIsComplete ==
    ASSUME Counted PROVE DenialsCounted
<1> DEFINE D == {r \in Reqs : Sent(r) /\ q[r].kind = "trail" /\ Handler(r) = "Refused" /\ q[r].known}
<1>1. Admitted = {r \in D : pc[r] = "done" \/ (pc[r] = "trail" /\ ~At(r, "admit"))}
  BY DEF Admitted, Denied
<1> HIDE DEF D
<1>2. Cardinality(Admitted) = Cardinality(Written) + MapThenSumSet(LAMBDA r : view[r].carried, Written)
                                + (IF throttle = NoRow THEN 0 ELSE throttle.suppressed)
  BY DEF Counted, Carried, Suppressed
<1> QED  BY <1>1, <1>2 DEF DenialsCounted, D, Written

\* Only admit touches the window, and it is what a denial does before it is logged.
LEMMA WindowSteps ==
    ASSUME NEW r \in Reqs, OfTrail(r)
    PROVE  \/ Admit(r)
           \/ UNCHANGED throttle /\ Head(todo[r]) # "admit" /\ (Head(todo[r]) = "logDenied" => LogAccessDenied(r))
<1> DEFINE Goal == \/ Admit(r)
                   \/ UNCHANGED throttle /\ Head(todo[r]) # "admit"
                      /\ (Head(todo[r]) = "logDenied" => LogAccessDenied(r))
<1>1. Skip(r) \/ IfMatch(r) \/ Fetch(r) \/ Peek(r) \/ LoadRow(r) \/ Check(r) => Goal
  BY DEF Skip, IfMatch, Fetch, Peek, LoadRow, Check, Reject, At
<1>2. Insert(r) \/ Assign(r) \/ Update(r) \/ Amend(r) \/ Move(r) \/ SaveRow(r) \/ Delete(r) => Goal
  BY DEF Insert, Assign, Update, Amend, Move, SaveRow, Delete, Write, At
<1>3. Replace(r) \/ Merge(r) => Goal
  BY DEF Replace, Merge, Import, Write, At
<1>4. Decline(r) \/ Follow(r) \/ Password(r) => Goal
  BY DEF Decline, Follow, Password, Reject, At
<1>5. CountRows(r) \/ ReadPage(r) => Goal
  BY DEF CountRows, ReadPage, At
<1>6. LogResourceCreate(r) \/ LogResourceUpdate(r) \/ LogResourceUpdateWithChanges(r) \/ LogResourceDelete(r)
        \/ LogResourceDeleteWithSnapshot(r) \/ LogAmended(r) \/ LogMoved(r) => Goal
  BY DEF LogResourceCreate, LogResourceUpdate, LogResourceUpdateWithChanges, LogResourceDelete,
     LogResourceDeleteWithSnapshot, LogAmended, LogMoved, Log, At
<1>7. LogResourceUpdateAcrossOrgs(r) \/ LogRoleChange(r) \/ LogSuperAdminChange(r) \/ LogResourceImport(r)
        \/ LogDataExport(r) \/ LogAccessDenied(r) => Goal
  BY DEF LogResourceUpdateAcrossOrgs, LogRoleChange, LogSuperAdminChange, LogResourceImport, LogDataExport,
     LogAccessDenied, Log, At
<1>8. TrailStep(r)
  BY DEF OfTrail
<1> HIDE DEF Goal
<1>9. Admit(r) \/ Goal
  BY <1>1, <1>2, <1>3, <1>4, <1>5, <1>6, <1>7, <1>8 DEF TrailStep
<1> QED  BY <1>9 DEF Goal

\* The step of a denial: it is counted, or it carries what was counted before it.
LEMMA AdmitStep ==
    ASSUME Trailing, Counted, NEW r \in Reqs, OfTrail(r), pc[r] = "trail", Denied(r)
    PROVE  /\ \/ /\ todo[r] = <<"admit", "logDenied">> /\ pc'[r] = "done" /\ resp'[r] = "denied" /\ view' = view
                 /\ Suppressed(throttle') = Suppressed(throttle) + 1
              \/ /\ todo[r] = <<"admit", "logDenied">> /\ pc'[r] = "trail" /\ todo'[r] = <<"logDenied">>
                 /\ resp'[r] = "none" /\ view'[r].carried = Suppressed(throttle) /\ Suppressed(throttle') = 0
              \/ /\ todo[r] = <<"logDenied">> /\ pc'[r] = "done" /\ resp'[r] = "ok" /\ UNCHANGED <<view, throttle>>
<1>1. /\ todo[r] \in {<<"admit", "logDenied">>, <<"logDenied">>} /\ DOMAIN pc = Reqs /\ DOMAIN resp = Reqs
      /\ todo \in [Reqs -> Seq(Steps)] /\ view \in [Reqs -> Views] /\ throttle \in Window \cup {NoRow}
      /\ resp[r] = "none" /\ q[r].known
  BY DEF Trailing, TrailTables, Requesting, LocalsKnown, Kinds, Counted, Denied
<1>2. CASE todo[r] = <<"admit", "logDenied">>
  <2>1. Head(todo[r]) = "admit" /\ Len(todo[r]) = 2 /\ Tail(todo[r]) = <<"logDenied">>
    BY <1>2
  <2>2. Admit(r)
    BY <2>1, WindowSteps
  <2>3. PICK late \in BOOLEAN, sweep \in BOOLEAN :
              LET forgotten == throttle = NoRow \/ (late /\ sweep /\ throttle.suppressed = 0)
                  t == IF forgotten THEN [emitted |-> 0, suppressed |-> 0]
                       ELSE [throttle EXCEPT !.emitted = IF late THEN 0 ELSE @]
              IN  IF t.emitted >= DenialLimit
                  THEN /\ throttle' = [t EXCEPT !.suppressed = @ + 1]
                       /\ Stop(r, "denied") /\ UNCHANGED view
                  ELSE /\ throttle' = [emitted |-> t.emitted + 1, suppressed |-> 0]
                       /\ Hold(r, "carried", t.suppressed) /\ Proceed(r)
    BY <1>1, <2>2 DEF Admit
  <2> DEFINE forgotten == throttle = NoRow \/ (late /\ sweep /\ throttle.suppressed = 0)
             t == IF forgotten THEN [emitted |-> 0, suppressed |-> 0]
                  ELSE [throttle EXCEPT !.emitted = IF late THEN 0 ELSE @]
  <2>4. t \in Window /\ t.suppressed = Suppressed(throttle)
    BY <1>1 DEF Window, Suppressed
  <2>5. IF t.emitted >= DenialLimit
        THEN /\ throttle' = [t EXCEPT !.suppressed = @ + 1]
             /\ Stop(r, "denied") /\ UNCHANGED view
        ELSE /\ throttle' = [emitted |-> t.emitted + 1, suppressed |-> 0]
             /\ Hold(r, "carried", t.suppressed) /\ Proceed(r)
    BY <2>3
  <2> HIDE DEF t, forgotten
  <2>6. NoRow \notin Window
    BY TrailSentinels DEF Window
  <2>7. CASE t.emitted >= DenialLimit
    <3>1. throttle' = [t EXCEPT !.suppressed = @ + 1] /\ Stop(r, "denied") /\ view' = view
      BY <2>5, <2>7
    <3>2. throttle' \in Window /\ throttle'.suppressed = t.suppressed + 1
      BY <2>4, <3>1 DEF Window
    <3> QED  BY <1>1, <1>2, <2>4, <2>6, <3>1, <3>2 DEF Stop, Answer, Suppressed
  <2>8. CASE ~(t.emitted >= DenialLimit)
    <3>1. throttle' = [emitted |-> t.emitted + 1, suppressed |-> 0] /\ Hold(r, "carried", t.suppressed) /\ Proceed(r)
      BY <2>5, <2>8
    <3>2. throttle' \in Window /\ throttle'.suppressed = 0
      BY <2>4, <3>1 DEF Window
    <3>3. view'[r].carried = t.suppressed
      BY <1>1, <3>1 DEF Hold, Views
    <3>4. UNCHANGED <<pc, resp>> /\ todo'[r] = <<"logDenied">>
      BY <1>1, <2>1, <3>1 DEF Proceed
    <3> QED  BY <1>1, <1>2, <2>4, <2>6, <3>2, <3>3, <3>4 DEF Suppressed
  <2> QED  BY <2>7, <2>8
<1>3. CASE todo[r] = <<"logDenied">>
  <2>1. Head(todo[r]) = "logDenied" /\ Len(todo[r]) = 1
    BY <1>3
  <2>2. LogAccessDenied(r) /\ UNCHANGED throttle
    BY <2>1, WindowSteps DEF Admit, At
  <2> QED  BY <1>1, <1>3, <2>1, <2>2 DEF LogAccessDenied, Log, Proceed, Answer
<1> QED  BY <1>1, <1>2, <1>3

\* What is counted as denied changes with a denial alone.
LEMMA AdmittedStep ==
    ASSUME Trailing, Counted, NEW r \in Reqs, StepOf(r)
    PROVE  /\ \A s \in Reqs \ {r} : /\ (s \in Admitted)' <=> s \in Admitted
                                    /\ (s \in Written)' <=> s \in Written
                                    /\ view'[s] = view[s]
           /\ ~(OfTrail(r) /\ pc[r] = "trail" /\ Denied(r)) => r \notin Admitted /\ (r \notin Admitted)'
           /\ ~(OfTrail(r) /\ pc[r] = "trail" /\ Denied(r)) => throttle' = throttle
           /\ OfTrail(r) /\ pc[r] = "trail" => (Denied(r)' <=> Denied(r)) /\ Handler(r)' = Handler(r)
           /\ \A s \in Reqs : pc'[s] = "trail" /\ Handler(s)' = "Refused" =>
                todo'[s] \in {<<"admit", "logDenied">>, <<"logDenied">>}
<1>1. /\ Requesting /\ Requesting' /\ Moves(r) /\ TrailTables /\ pc[r] # "done"
      /\ (pc[r] # "idle" => q'[r] = q[r])
      /\ Elsewhere(r) \/ Begins(r) \/ (OfTrail(r) /\ pc[r] = "trail")
  BY TrailCases DEF Trailing
<1>2. Others(r)
  BY <1>1, ElsewhereFrame, TrailFrame DEF Trailing, Requesting
<1>3. ASSUME NEW s \in Reqs \ {r}
      PROVE  /\ (s \in Admitted)' <=> s \in Admitted
             /\ (s \in Written)' <=> s \in Written
             /\ view'[s] = view[s]
  <2>1. pc'[s] = pc[s] /\ q'[s] = q[s] /\ resp'[s] = resp[s] /\ todo'[s] = todo[s] /\ view'[s] = view[s]
    BY <1>1, <1>2 DEF Moves, Others
  <2>2. (s \in Admitted)' <=> s \in Admitted
    BY <2>1 DEF Admitted, Denied, Sent, Handler, At
  <2> QED  BY <2>1, <2>2 DEF Written
<1>4. OfTrail(r) /\ pc[r] = "trail" => q'[r] = q[r] /\ (Denied(r)' <=> Denied(r)) /\ Handler(r)' = Handler(r)
  BY <1>1 DEF Denied, Sent, Handler
<1>5. Begins(r) /\ Handler(r)' = "Refused" => todo'[r] = <<"admit", "logDenied">> /\ Head(todo'[r]) = "admit"
  <2> SUFFICES ASSUME Begins(r), Handler(r)' = "Refused"
               PROVE  todo'[r] = <<"admit", "logDenied">> /\ Head(todo'[r]) = "admit"
    OBVIOUS
  <2>1. todo'[r] = Handlers["Refused"] /\ "Refused" \in DOMAIN Handlers
    BY ElsewhereFrame DEF Begins, Handler
  <2>2. todo'[r] = <<"admit", "logDenied">>
    BY <2>1, HandlersGood DEF Shape
  <2> QED  BY <2>2
<1>6. ASSUME ~(OfTrail(r) /\ pc[r] = "trail" /\ Denied(r))
      PROVE  r \notin Admitted /\ (r \notin Admitted)' /\ throttle' = throttle
  <2>1. CASE Elsewhere(r)
    BY <2>1 DEF Elsewhere, Admitted, Denied, trailVars
  <2>2. CASE Begins(r)
    <3>1. throttle' = throttle /\ pc[r] = "idle" /\ pc'[r] = "trail"
      BY <2>2 DEF Begins
    <3> QED  BY <1>5, <2>2, <3>1 DEF Admitted, Denied, At
  <2>3. CASE OfTrail(r) /\ pc[r] = "trail"
    <3>1. ~Denied(r) /\ ~Denied(r)'
      BY <1>4, <1>6, <2>3
    <3>2. throttle' = throttle
      <4>1. ASSUME Admit(r) PROVE ~q[r].known
        <5>1. Head(todo[r]) = "admit" /\ todo[r] # <<>> /\ Orderly(todo[r]) /\ Fair(Handler(r), todo[r])
          BY <2>3, <4>1 DEF Admit, At, Trailing, Ready
        <5>2. Handler(r) = "Refused"
          BY <5>1, HeadFacts
        <5>3. Sent(r) /\ q[r].kind = "trail"
          BY <1>1, <2>3, TrailBody DEF Requesting
        <5> QED  BY <3>1, <5>2, <5>3 DEF Denied
      <4> QED  BY <2>3, <4>1, WindowSteps DEF Admit
    <3> QED  BY <3>1, <3>2 DEF Admitted
  <2> QED  BY <1>1, <2>1, <2>2, <2>3
<1>7. ASSUME NEW s \in Reqs, pc'[s] = "trail", Handler(s)' = "Refused"
      PROVE  todo'[s] \in {<<"admit", "logDenied">>, <<"logDenied">>}
  <2>1. CASE s # r
    BY <1>1, <1>2, <1>7, <2>1 DEF Moves, Others, Counted, Handler
  <2>2. CASE s = r /\ Elsewhere(r)
    BY <1>7, <2>2 DEF Elsewhere
  <2>3. CASE s = r /\ Begins(r)
    BY <1>5, <1>7, <2>3
  <2>4. CASE s = r /\ OfTrail(r) /\ pc[r] = "trail"
    <3>1. todo[r] \in {<<"admit", "logDenied">>, <<"logDenied">>}
      BY <1>4, <1>7, <2>4 DEF Counted
    <3>2. Head(todo[r]) # "page" /\ (Tail(todo[r]) = <<"logDenied">> \/ Tail(todo[r]) = <<>>)
      <4>1. ASSUME NEW t, t = <<"admit", "logDenied">> PROVE Head(t) = "admit" /\ Tail(t) = <<"logDenied">>
        BY <4>1
      <4>2. ASSUME NEW t, t = <<"logDenied">> PROVE Head(t) = "logDenied" /\ Tail(t) = <<>>
        BY <4>2
      <4> QED  BY <3>1, <4>1, <4>2
    <3>3. PICK S, T : Stepping(r, S, T)
      BY <1>1, <2>4, TrailFrame DEF Trailing, Requesting
    <3>4. todo'[r] = Tail(todo[r]) /\ todo'[r] # <<>>
      BY <1>7, <2>4, <3>2, <3>3, ProgramStep DEF Paging
    <3> QED  BY <2>4, <3>2, <3>4
  <2> QED  BY <1>1, <2>1, <2>2, <2>3, <2>4
<1> QED  BY <1>3, <1>4, <1>6, <1>7

\* Every step of every request keeps the count.
LEMMA CountedStep ==
    ASSUME Trailing, Counted, NEW r \in Reqs, StepOf(r)
    PROVE  Counted'
<1>1. /\ \A s \in Reqs \ {r} : /\ (s \in Admitted)' <=> s \in Admitted
                               /\ (s \in Written)' <=> s \in Written
                               /\ view'[s] = view[s]
      /\ ~(OfTrail(r) /\ pc[r] = "trail" /\ Denied(r)) => r \notin Admitted /\ (r \notin Admitted)'
      /\ ~(OfTrail(r) /\ pc[r] = "trail" /\ Denied(r)) => throttle' = throttle
      /\ OfTrail(r) /\ pc[r] = "trail" => (Denied(r)' <=> Denied(r)) /\ Handler(r)' = Handler(r)
      /\ \A s \in Reqs : pc'[s] = "trail" /\ Handler(s)' = "Refused" =>
           todo'[s] \in {<<"admit", "logDenied">>, <<"logDenied">>}
  BY AdmittedStep
<1>2. /\ view \in [Reqs -> Views] /\ view' \in [Reqs -> Views]
      /\ \A s \in Reqs : view[s].carried \in Nat /\ view'[s].carried \in Nat
  <2>1. view \in [Reqs -> Views] /\ view' \in [Reqs -> Views]
    BY TrailingStep DEF Trailing, TrailTables
  <2> QED  BY <2>1 DEF Views
<1>3. /\ Admitted \subseteq Reqs /\ Admitted' \subseteq Reqs /\ Written \subseteq Admitted /\ Written' \subseteq Admitted'
      /\ IsFiniteSet(Admitted) /\ IsFiniteSet(Written)
      /\ Cardinality(Admitted) = Cardinality(Written) + Carried(view, Written) + Suppressed(throttle)
  <2>1. /\ Admitted \subseteq Reqs /\ Admitted' \subseteq Reqs /\ Written \subseteq Admitted /\ Written' \subseteq Admitted'
    BY DEF Admitted, Written
  <2> QED  BY <2>1, FS_Subset DEF Counted
<1>4. /\ Cardinality(Admitted) \in Nat /\ Cardinality(Written) \in Nat
      /\ Carried(view, Written) \in Nat /\ Suppressed(throttle) \in Nat /\ Suppressed(throttle') \in Nat
  <2>1. throttle \in Window \cup {NoRow} /\ throttle' \in Window \cup {NoRow}
    BY TrailingStep DEF Trailing, TrailTables
  <2>2. Suppressed(throttle) \in Nat /\ Suppressed(throttle') \in Nat
    BY <2>1 DEF Window, Suppressed
  <2>3. Carried(view, Written) \in Nat
    BY <1>2, <1>3, CarriedFacts
  <2> QED  BY <1>3, <2>2, <2>3, FS_CardinalityType
<1>5. ASSUME Admitted' = Admitted, Written' = Written, Suppressed(throttle') = Suppressed(throttle),
             \A s \in Written : view'[s].carried = view[s].carried
      PROVE  Counted'
  <2>1. Carried(view', Written) = Carried(view, Written)
    BY <1>2, <1>3, <1>5, CarriedFacts
  <2>2. Cardinality(Admitted') = Cardinality(Written') + Carried(view', Written') + Suppressed(throttle')
    BY <1>3, <1>5, <2>1
  <2> QED  BY <1>1, <1>3, <1>5, <2>2 DEF Counted
<1>6. CASE ~(OfTrail(r) /\ pc[r] = "trail" /\ Denied(r))
  <2>1. Admitted' = Admitted
    BY <1>1, <1>3, <1>6
  <2>2. Written' = Written
    BY <1>1, <1>3, <1>6
  <2> QED  BY <1>1, <1>3, <1>5, <1>6, <2>1, <2>2
<1>7. CASE OfTrail(r) /\ pc[r] = "trail" /\ Denied(r)
  <2> DEFINE full == <<"admit", "logDenied">>
             rest == <<"logDenied">>
  <2>1. Head(full) = "admit" /\ Head(rest) # "admit"
    OBVIOUS
  <2>2. resp[r] = "none" /\ Denied(r) /\ Denied(r)' /\ r \in Reqs
    BY <1>1, <1>7 DEF Trailing, Requesting, Kinds
  <2>3. CASE todo[r] = full /\ pc'[r] = "done" /\ resp'[r] = "denied" /\ view' = view
             /\ Suppressed(throttle') = Suppressed(throttle) + 1
    <3>1. r \notin Admitted /\ r \in Admitted' /\ r \notin Written' /\ r \notin Written
      BY <1>7, <2>1, <2>2, <2>3 DEF Admitted, Written, At
    <3>2. Admitted' = Admitted \cup {r} /\ Written' = Written
      BY <1>1, <1>3, <3>1
    <3>3. IsFiniteSet(Admitted') /\ Cardinality(Admitted') = Cardinality(Admitted) + 1
      BY <1>3, <3>1, <3>2, FS_AddElement
    <3>4. Cardinality(Admitted') = Cardinality(Written') + Carried(view', Written') + Suppressed(throttle')
      BY <1>3, <1>4, <2>3, <3>2, <3>3
    <3> QED  BY <1>1, <3>3, <3>4 DEF Counted
  <2>4. CASE todo[r] = full /\ pc'[r] = "trail" /\ todo'[r] = rest /\ resp'[r] = "none"
             /\ view'[r].carried = Suppressed(throttle) /\ Suppressed(throttle') = 0
    <3>1. r \notin Admitted /\ r \in Admitted' /\ r \in Written' /\ r \notin Written
      BY <1>7, <2>1, <2>2, <2>4 DEF Admitted, Written, At
    <3>2. Admitted' = Admitted \cup {r} /\ Written' = Written \cup {r}
      BY <1>1, <1>3, <3>1
    <3>3. IsFiniteSet(Admitted') /\ Cardinality(Admitted') = Cardinality(Admitted) + 1
      BY <1>3, <3>1, <3>2, FS_AddElement
    <3>4. Cardinality(Written') = Cardinality(Written) + 1
      BY <1>3, <3>1, <3>2, FS_AddElement
    <3>5. \A s \in Written : view'[s].carried = view[s].carried
      BY <1>1, <1>3, <3>1
    <3>6. Carried(view', Written') = Carried(view, Written) + view'[r].carried
      <4>1. Joins(view, view', Written, r)
        BY <1>2, <1>3, <3>1, <3>5, CarriedFacts
      <4> QED  BY <3>2, <4>1 DEF Joins
    <3>7. Cardinality(Admitted') = Cardinality(Written') + Carried(view', Written') + Suppressed(throttle')
      BY <1>3, <1>4, <2>4, <3>3, <3>4, <3>6
    <3> QED  BY <1>1, <3>3, <3>7 DEF Counted
  <2>5. CASE todo[r] = rest /\ pc'[r] = "done" /\ resp'[r] = "ok" /\ UNCHANGED <<view, throttle>>
    <3>1. r \in Admitted /\ r \in Admitted' /\ r \in Written' /\ r \in Written
      BY <1>7, <2>1, <2>2, <2>5 DEF Admitted, Written, At
    <3>2. Admitted' = Admitted /\ Written' = Written
      BY <1>1, <1>3, <3>1
    <3> QED  BY <1>5, <2>5, <3>2
  <2> QED  BY <1>7, <2>3, <2>4, <2>5, AdmitStep
<1> QED  BY <1>6, <1>7

\* Each entry about a denial carries those that were only counted before it.
LEMMA CountedInvariant == Spec => [](Trailing /\ Counted)
<1>1. Init => Trailing /\ Counted
  <2> SUFFICES ASSUME Init PROVE Trailing /\ Counted
    OBVIOUS
  <2>1. Trailing /\ throttle = NoRow /\ \A r \in Reqs : pc[r] = "idle"
    BY TrailingInit
  <2>2. Admitted = {} /\ Written = {}
    BY <2>1 DEF Admitted, Written
  <2>3. Carried(view, {}) = 0 /\ IsFiniteSet({}) /\ Cardinality({}) = 0
    <3>1. IsFiniteSet({}) /\ Cardinality({}) = 0
      BY FS_EmptySet
    <3>2. Carried(view, {}) = Cardinality(Units(view, {}))
      BY <3>1, CarriedUnits
    <3>3. Units(view, {}) = {}
      BY DEF Units
    <3> QED  BY <3>1, <3>2, <3>3
  <2> QED  BY <2>1, <2>2, <2>3 DEF Counted, Suppressed
<1>2. Trailing /\ Counted /\ [Next]_vars => (Trailing /\ Counted)'
  <2> SUFFICES ASSUME Trailing, Counted, [Next]_vars PROVE (Trailing /\ Counted)'
    OBVIOUS
  <2>1. CASE UNCHANGED vars
    <3>1. UNCHANGED <<pc, q, resp, todo, view, throttle>>
      BY <2>1 DEF vars, requestVars, trailVars
    <3>2. Admitted' = Admitted /\ Written' = Written /\ \A r \in Reqs : Handler(r)' = Handler(r)
      BY <3>1 DEF Admitted, Written, Denied, Sent, Handler, At
    <3>3. Counted'
      BY <3>1, <3>2 DEF Counted
    <3> QED  BY <2>1, <3>3, TrailingStutters
  <2>2. CASE \E r \in Reqs : StepOf(r)
    BY <2>2, TrailingStep, CountedStep
  <2> QED  BY <2>1, <2>2 DEF Next, Finished, StepOf
<1> QED  BY <1>1, <1>2, PTL DEF Spec

\* However requests overlap, an answered request's entries name the rows it changed (the
\* exceptions are those of ChangesLogged), and every denial of a known user is written, or
\* carried by an entry, or still counted.
THEOREM TrailIsComplete == Spec => []TrailComplete
<1>1. Trailing /\ Logged => ChangesLogged
  BY LoggedIsComplete
<1>2. Trailing /\ Counted => DenialsCounted
  BY CountedIsComplete
<1>3. ChangesLogged /\ DenialsCounted => TrailComplete
  BY DEF TrailComplete
<1> QED  BY <1>1, <1>2, <1>3, LoggedInvariant, CountedInvariant, PTL

---------------------------------------------------------------------------
(* The values of the entries. *)

\* Another request changed the row, or took it away, while this one ran.
Taken(r, i) == \E d \in History : Overlap(r, d.by) /\ i \in Touched(d)
Within(r) == Elements(todo[r]) \subseteq Elements(Handlers[Handler(r)])

\* What was read before the change is what the change finds, or somebody took the row.
Lasting(r) ==
    /\ view[r].before # NoRow /\ rows[q[r].id] # view[r].before => Taken(r, q[r].id)
    /\ view[r].other # NoRow /\ rows[q[r].other] # view[r].other => Taken(r, q[r].other)

\* A version that was stated is not ahead of what was read, nor that of the row.
Sure(r) ==
    Versioned(r) =>
        LET i == q[r].id
            x == view[r].before
        IN  /\ i < nextRow /\ (There(i) => q[r].stated <= rows[i].ver)
            /\ x # NoRow => q[r].stated <= x.ver /\ (There(i) => x.ver < rows[i].ver \/ x = rows[i])

\* What is left to be logged is what the service was given and what it found.
Backing(r, x, c) == x # NoRow => x.val = c.old \/ (~Versioned(r) /\ Taken(r, c.id))
Backed(r, log, c) ==
    /\ log \in {"logChanges", "logAcrossOrgs", "logAmended", "logMoved", "logSnapshot", "logRole"} /\ c.id = q[r].id =>
         Backing(r, view[r].before, c)
    /\ log = "logMoved" /\ c.id = q[r].other => Backing(r, view[r].other, c)
    /\ log \in {"logChanges", "logAcrossOrgs", "logAmended", "logMoved"} /\ c.id = q[r].id =>
         c.new = view[r].after.val
    /\ log = "logMoved" /\ c.id = q[r].other => c.new = view[r].loaded.val
    /\ log \in {"logRole", "logGranted"} => c.new = q[r].val
    /\ log = "logSnapshot" => c.new = NoRow

Agrees(r, e, c) ==
    HasValues(e) /\ c.id \in e.ids =>
        \/ e.old \in {c.old, NoRow} /\ e.new = c.new
        \/ ~Versioned(r) /\ Taken(r, c.id)

Truthful(r) == \A e \in Said(r), c \in Did(r) : Agrees(r, e, c)
Held(r) ==
    /\ Within(r)
    /\ Has(todo[r], Changes) => Lasting(r) /\ Sure(r)
    /\ ~Has(todo[r], Changes) =>
         \A log \in ChangeLogs : Has(todo[r], {log}) => \A c \in Did(r) : Backed(r, log, c)
Valued == \A r \in Reqs : Truthful(r) /\ (pc[r] = "trail" => Held(r))

\* The property is of the entries and the changes of each request.
LEMMA ValuedIsTrue ==
    ASSUME Valued PROVE ValuesTrue
<1> SUFFICES ASSUME NEW r \in Handled, NEW e \in EntriesOf(r), NEW c \in ChangesOf(r),
                    HasValues(trail[e]) /\ done[c].id \in trail[e].ids
             PROVE  \/ trail[e].old \in {done[c].old, NoRow} /\ trail[e].new = done[c].new
                    \/ /\ ~Versioned(r)
                       /\ \E i \in DOMAIN done : Overlap(r, done[i].by) /\ done[c].id \in Touched(done[i])
  BY DEF ValuesTrue
<1>1. trail[e] \in Said(r) /\ done[c] \in Did(r) /\ r \in Reqs
  BY DEF Said, Did, By, EntriesOf, ChangesOf, Handled
<1>2. Agrees(r, trail[e], done[c])
  BY <1>1 DEF Valued, Truthful
<1>3. Taken(r, done[c].id) => \E i \in DOMAIN done : Overlap(r, done[i].by) /\ done[c].id \in Touched(done[i])
  BY DEF Taken, History, Elements
<1> QED  BY <1>2, <1>3 DEF Agrees

\* A handler that asks for If-Match does not save a row whole, nor find it by its name.
LEMMA VersionedPrograms ==
    ASSUME NEW h \in DOMAIN Handlers, "ifMatch" \in Elements(Handlers[h])
    PROVE  Elements(Handlers[h]) \subseteq
             {"ifMatch", "peek", "fetch", "change", "amend", "remove", "logChanges", "logAmended", "logSnapshot"}
<1> DEFINE p == Handlers[h]
           V == {"ifMatch", "peek", "fetch", "change", "amend", "remove", "logChanges", "logAmended", "logSnapshot"}
<1>1. Shape(h, p)
  BY HandlersGood
<1> HIDE DEF p, V
<1>2. \/ p \in Plain
      \/ p = <<"merge", "reread", "logImport">> \/ p = <<"create", "reread", "logCreate">>
      \/ p = <<"assign", "logCreate">> \/ p = <<"fetch", "password", "change", "logGranted", "reread">>
      \/ p = <<"load", "password", "save", "revoke", "logUpdate">> \/ p = <<"admit", "logDenied">>
  BY <1>1 DEF Shape
<1>3. /\ \A a : p = <<a>> => Elements(p) = {a}
      /\ \A a, b : p = <<a, b>> => Elements(p) = {a, b}
      /\ \A a, b, c : p = <<a, b, c>> => Elements(p) = {a, b, c}
      /\ \A a, b, c, d : p = <<a, b, c, d>> => Elements(p) = {a, b, c, d}
      /\ \A a, b, c, d, e : p = <<a, b, c, d, e>> => Elements(p) = {a, b, c, d, e}
  <2>1. \A a : p = <<a>> => Elements(p) = {a}
    BY Tuples DEF Elements
  <2>2. \A a, b : p = <<a, b>> => Elements(p) = {a, b}
    BY Tuples DEF Elements
  <2>3. \A a, b, c : p = <<a, b, c>> => Elements(p) = {a, b, c}
    BY Tuples DEF Elements
  <2>4. \A a, b, c, d : p = <<a, b, c, d>> => Elements(p) = {a, b, c, d}
    BY Tuples DEF Elements
  <2>5. \A a, b, c, d, e : p = <<a, b, c, d, e>> => Elements(p) = {a, b, c, d, e}
    BY Tuples DEF Elements
  <2> QED  BY <2>1, <2>2, <2>3, <2>4, <2>5
<1>4. CASE p \in Plain
  BY <1>3, <1>4 DEF Plain, V, p
<1>5. CASE p \notin Plain
  BY <1>2, <1>3, <1>5 DEF p
<1> QED  BY <1>4, <1>5 DEF p, V

\* A row that a step changes is taken from every other request that runs.
LEMMA TakenStep ==
    ASSUME Trailing, Logged, NEW r \in Reqs, StepOf(r)
    PROVE  /\ \A s \in Reqs : \A i : pc[s] # "idle" /\ Taken(s, i) => Taken(s, i)'
           /\ \A s \in Reqs \ {r}, i \in RowId : pc[s] \notin {"idle", "done"} /\ rows'[i] # rows[i] => Taken(s, i)'
<1>1. /\ Requesting /\ Requesting' /\ Moves(r) /\ TrailTables /\ pc[r] # "done"
      /\ (pc[r] # "idle" => q'[r] = q[r] /\ prior'[r] = prior[r])
      /\ Elsewhere(r) \/ Begins(r) \/ (OfTrail(r) /\ pc[r] = "trail")
  BY TrailCases DEF Trailing
<1>2. ASSUME NEW s \in Reqs, pc[s] # "idle" PROVE prior'[s] = prior[s]
  BY <1>1, <1>2 DEF Moves
<1>3. ASSUME NEW s \in Reqs, NEW i, pc[s] # "idle", Taken(s, i) PROVE Taken(s, i)'
  <2>1. PICK d \in History : Overlap(s, d.by) /\ i \in Touched(d)
    BY <1>3 DEF Taken
  <2>2. d \in History' /\ prior'[d.by] = prior[d.by] /\ prior'[s] = prior[s]
    BY <1>2, <1>3, HistoryStep
  <2> QED  BY <2>1, <2>2 DEF Taken, Overlap, Touched
<1>4. ASSUME NEW s \in Reqs \ {r}, NEW i \in RowId, pc[s] \notin {"idle", "done"}, rows'[i] # rows[i]
      PROVE  Taken(s, i)'
  <2>1. OfTrail(r) /\ pc[r] = "trail"
    BY <1>1, <1>4, ElsewhereFrame
  <2>2. PICK S, T : Accounts(r, S) /\ History' = History \cup S
    BY <1>1, <2>1, TrailFrame DEF Trailing, Requesting
  <2>3. PICK d \in S : i \in Touched(d)
    BY <1>4, <2>2 DEF Accounts
  <2>4. d \in History' /\ d.by = r
    BY <2>2, <2>3 DEF Accounts
  <2>5. s \notin prior'[r] /\ r \notin prior'[s]
    <3>1. prior'[r] = prior[r] /\ prior'[s] = prior[s] /\ Kinds(r) /\ Kinds(s)
      BY <1>1, <1>2, <1>4, <2>1 DEF Requesting
    <3> QED  BY <1>1, <1>4, <3>1 DEF Kinds
  <2> QED  BY <2>3, <2>4, <2>5 DEF Taken, Overlap, Touched
<1> QED  BY <1>3, <1>4

\* A row whose version is stated is not saved whole, nor found by its name.
LEMMA VersionedRows ==
    ASSUME Trailing, NEW r \in Reqs, pc[r] = "trail", Within(r), Head(todo[r]) \in {"save", "replace", "merge"},
           NEW s \in Reqs, pc[s] = "trail", Versioned(s)
    PROVE  q[s].id # q[r].id
<1>1. /\ Sent(r) /\ q[r].kind = "trail" /\ Sent(s) /\ q[s].kind = "trail"
      /\ todo[r] \in Seq(Steps) /\ todo[r] # <<>>
  BY TrailBody DEF Trailing, Requesting, TrailTables, Ready
<1>2. PICK c \in Scenarios : menu = c.menu /\ \A x \in Reqs : Sent(x) => q[x] \in menu[x]
  BY DEF Trailing, Offered
<1>3. Head(todo[r]) \in Elements(todo[r])
  BY <1>1, TailFacts DEF Elements
<1>4. Head(todo[r]) \in ToSet(Handlers[q[r].handler])
  BY <1>3 DEF Within, Elements, ToSet, Handler
<1>5. ToSet(Handlers[q[r].handler]) \cap {"save", "replace", "merge"} # {}
  BY <1>4
<1>6. "ifMatch" \in ToSet(Handlers[q[s].handler])
  BY DEF Versioned, Handler
<1>7. q[r] \in c.menu[r] /\ q[s] \in c.menu[s]
  BY <1>1, <1>2
<1> HIDE DEF Within
<1> QED  BY <1>1, <1>5, <1>6, <1>7, VersionAssumption

\* A row whose version is stated stays, or goes, or has a later version.
LEMMA VersionsGrow ==
    ASSUME Trailing, Valued, NEW r \in Reqs, StepOf(r), NEW s \in Reqs \ {r}, pc[s] = "trail", Versioned(s),
           q[s].id < nextRow
    PROVE  LET i == q[s].id
           IN  /\ nextRow' \in Nat /\ i < nextRow' /\ i \in RowId
               /\ rows'[i] # NoRow => /\ rows[i] # NoRow /\ rows'[i].ver \in Nat /\ rows[i].ver \in Nat
                                      /\ rows'[i] = rows[i] \/ rows'[i].ver > rows[i].ver
<1> DEFINE i == q[s].id
<1>1. /\ Requesting /\ TrailTables /\ TrailTables' /\ i \in RowId /\ i \in Nat /\ nextRow \in Nat /\ nextRow' \in Nat
      /\ Elsewhere(r) \/ Begins(r) \/ (OfTrail(r) /\ pc[r] = "trail")
  <2>1. Requesting /\ TrailTables /\ (Elsewhere(r) \/ Begins(r) \/ (OfTrail(r) /\ pc[r] = "trail"))
    BY TrailCases DEF Trailing
  <2>2. TrailTables' /\ nextRow \in Nat /\ nextRow' \in Nat
    BY <2>1, TrailingStep DEF Trailing, TrailTables
  <2>3. i \in RowId
    BY <2>1, TrailBody DEF Requesting
  <2> QED  BY <2>1, <2>2, <2>3, RowFacts
<1>2. /\ rows[i] # NoRow => rows[i].ver \in Nat
      /\ rows'[i] # NoRow => rows'[i].ver \in Nat
  BY <1>1 DEF TrailTables, Row
<1>3. CASE Elsewhere(r) \/ Begins(r)
  BY <1>1, <1>2, <1>3, ElsewhereFrame
<1>4. CASE OfTrail(r) /\ pc[r] = "trail"
  <2>1. PICK S, T : Accounts(r, S)
    BY <1>1, <1>4, TrailFrame DEF Trailing, Requesting
  <2>2. ~(Head(todo[r]) \in {"save", "replace", "merge"} /\ i = q[r].id)
    BY <1>4, VersionedRows DEF Valued, Held
  <2>3. nextRow' >= nextRow /\ ~(i >= nextRow) /\ i < nextRow'
    BY <1>1, <2>1 DEF Accounts
  <2>4. rows[i] = NoRow => rows'[i] = NoRow
    BY <1>1, <2>1, <2>2, <2>3 DEF Accounts
  <2>5. rows[i] # NoRow /\ rows'[i] # NoRow => rows'[i] = rows[i] \/ rows'[i].ver > rows[i].ver
    BY <1>1, <2>1, <2>2 DEF Accounts
  <2> QED  BY <1>1, <1>2, <2>3, <2>4, <2>5
<1> QED  BY <1>1, <1>3, <1>4

\* What another request does leaves what this one holds and says to be true.
LEMMA ValuedOthers ==
    ASSUME Trailing, Logged, Valued, NEW r \in Reqs, StepOf(r), NEW s \in Reqs \ {r}
    PROVE  Truthful(s)' /\ (pc'[s] = "trail" => Held(s)')
<1>1. Requesting /\ Moves(r)
  BY TrailCases DEF Trailing
<1>2. pc'[s] = pc[s] /\ q'[s] = q[s] /\ resp'[s] = resp[s] /\ prior'[s] = prior[s]
  BY <1>1 DEF Moves
<1>3. /\ todo'[s] = todo[s] /\ view'[s] = view[s] /\ Said(s)' = Said(s) /\ Did(s)' = Did(s)
  BY HistoryStep DEF Others
<1>4. Handler(s)' = Handler(s) /\ (Versioned(s)' <=> Versioned(s))
  BY <1>2 DEF Handler, Versioned, Stated
<1>5. \A i : pc[s] # "idle" /\ Taken(s, i) => Taken(s, i)'
  BY TakenStep
<1>6. Truthful(s)'
  <2> SUFFICES ASSUME NEW e \in Said(s), NEW c \in Did(s) PROVE Agrees(s, e, c)'
    BY <1>3 DEF Truthful
  <2>1. Agrees(s, e, c) /\ pc[s] # "idle"
    BY DEF Valued, Truthful, Logged
  <2> QED  BY <1>4, <1>5, <2>1 DEF Agrees
<1>7. ASSUME pc[s] = "trail" PROVE Held(s)'
  <2>1. Held(s) /\ pc[s] \notin {"idle", "done"} /\ q[s].id \in RowId /\ q[s].other \in RowId
    BY <1>1, <1>7, TrailBody DEF Valued, Requesting
  <2>2. Lasting(s) => Lasting(s)'
    <3>1. \A i \in RowId : rows'[i] # rows[i] => Taken(s, i)'
      BY <2>1, TakenStep
    <3> QED  BY <1>2, <1>3, <1>5, <2>1, <3>1 DEF Lasting
  <2>3. Sure(s) => Sure(s)'
    <3> SUFFICES ASSUME Sure(s), Versioned(s)
                 PROVE  Sure(s)'
      BY <1>4 DEF Sure
    <3> DEFINE i == q[s].id
               x == view[s].before
    <3>1. /\ i < nextRow /\ (There(i) => q[s].stated <= rows[i].ver)
          /\ x # NoRow => q[s].stated <= x.ver /\ (There(i) => x.ver < rows[i].ver \/ x = rows[i])
      BY DEF Sure
    <3>2. /\ nextRow' \in Nat /\ i < nextRow' /\ i \in RowId
          /\ rows'[i] # NoRow => /\ rows[i] # NoRow /\ rows'[i].ver \in Nat /\ rows[i].ver \in Nat
                                 /\ rows'[i] = rows[i] \/ rows'[i].ver > rows[i].ver
      BY <1>7, <3>1, VersionsGrow
    <3>3. q[s].stated \in Nat /\ (x # NoRow => x.ver \in Nat)
      <4>1. q[s] \in TrailRequests /\ x \in Row \cup {NoRow}
        BY <1>1, <1>7, TrailBody DEF Requesting, Trailing, TrailTables, Views
      <4> QED  BY <4>1 DEF TrailRequests, Versioned, Stated, Row
    <3> HIDE DEF x, i
    <3>4. rows'[i] # NoRow => q[s].stated <= rows'[i].ver
      BY <3>1, <3>2, <3>3 DEF There
    <3>5. x # NoRow /\ rows'[i] # NoRow => x.ver < rows'[i].ver \/ x = rows'[i]
      BY <3>1, <3>2, <3>3 DEF There
    <3> QED  BY <1>2, <1>3, <3>1, <3>2, <3>4, <3>5 DEF Sure, There, i, x
  <2>4. ASSUME NEW log, NEW c \in Did(s), Backed(s, log, c) PROVE Backed(s, log, c)'
    BY <1>2, <1>3, <1>4, <1>5, <2>1, <2>4 DEF Backed, Backing
  <2> QED  BY <1>3, <1>4, <2>1, <2>2, <2>3, <2>4 DEF Held, Within
<1> QED  BY <1>2, <1>6, <1>7

\* An entry has the values of what it is made of.
LEMMA SourcedAgrees ==
    ASSUME NEW r, NEW log \in ChangeLogs, NEW e, Sourced(r, log, e), NEW c, Backed(r, log, c)
    PROVE  Agrees(r, e, c)
<1> SUFFICES ASSUME HasValues(e), c.id \in e.ids
             PROVE  (e.old \in {c.old, NoRow} /\ e.new = c.new) \/ (~Versioned(r) /\ Taken(r, c.id))
  BY DEF Agrees
<1>1. CASE /\ log \in {"logChanges", "logAcrossOrgs", "logAmended", "logMoved"} /\ e.ids = {q[r].id}
           /\ view[r].before # NoRow /\ e.old = view[r].before.val /\ e.new = view[r].after.val
  <2>1. c.id = q[r].id
    BY <1>1
  <2> QED  BY <1>1, <2>1 DEF Backed, Backing
<1>2. CASE /\ log = "logMoved" /\ e.ids = {q[r].other}
           /\ view[r].other # NoRow /\ e.old = view[r].other.val /\ e.new = view[r].loaded.val
  <2>1. c.id = q[r].other
    BY <1>2
  <2> QED  BY <1>2, <2>1 DEF Backed, Backing
<1>3. CASE log = "logSnapshot" /\ e.ids = {q[r].id} /\ e.old = Val(view[r].before) /\ e.new = NoRow
  <2>1. c.id = q[r].id
    BY <1>3
  <2> QED  BY <1>3, <2>1 DEF Backed, Backing, Val
<1>4. CASE log = "logRole" /\ e.ids = {q[r].id} /\ e.old = Val(view[r].before) /\ e.new = q[r].val
  <2>1. c.id = q[r].id
    BY <1>4
  <2> QED  BY <1>4, <2>1 DEF Backed, Backing, Val
<1>5. CASE log = "logGranted" /\ e.ids = {q[r].id} /\ e.old = NoRow /\ e.new = q[r].val
  BY <1>5 DEF Backed
<1>6. CASE log = "logDenied" /\ e.ids = {}
  BY <1>6
<1> QED  BY <1>1, <1>2, <1>3, <1>4, <1>5, <1>6 DEF Sourced

\* What the service found and stored is what the entry will be made of.
LEMMA ChangeBacked ==
    ASSUME Trailing, Logged, Valued, NEW r \in Reqs, StepOf(r), pc[r] = "trail", Head(todo[r]) \in Changes,
           Changing(r), Kept(r), NEW S, Told(r, S), NEW log, Tells(Head(todo[r]), log), NEW c \in S
    PROVE  Backed(r, log, c)'
<1> DEFINE a == Head(todo[r])
           i == q[r].id
<1>1. /\ Requesting /\ q'[r] = q[r] /\ todo[r] \in Seq(Steps) /\ todo[r] # <<>> /\ i \in RowId
      /\ q[r] \in TrailRequests /\ view[r] \in Views /\ rows \in [RowId -> Row \cup {NoRow}]
  BY TrailCases, TrailBody DEF Trailing, Requesting, TrailTables, Ready
<1>2. /\ view'[r].before = view[r].before /\ view'[r].other = view[r].other
      /\ (Versioned(r)' <=> Versioned(r))
  BY <1>1 DEF Kept, Versioned, Stated, Handler
<1>3. Has(todo[r], Changes) /\ a \in Elements(todo[r])
  BY <1>1, TailFacts DEF Has, Elements
<1>4. Lasting(r) /\ Sure(r) /\ Within(r)
  BY <1>3 DEF Valued, Held
<1>5. \A x : Taken(r, x) => Taken(r, x)'
  BY TakenStep
<1>6. Versioned(r) => a \in {"change", "amend", "remove"} /\ Reached(r) /\ AsStated(r)
  <2> SUFFICES ASSUME Versioned(r) PROVE a \in {"change", "amend", "remove"} /\ Reached(r) /\ AsStated(r)
    OBVIOUS
  <2>1. Handler(r) \in DOMAIN Handlers /\ "ifMatch" \in Elements(Handlers[Handler(r)])
    BY <1>1, TrailBody DEF Requesting, Versioned, ToSet, Elements
  <2>2. a \in {"change", "amend", "remove"}
    BY <1>3, <1>4, <2>1, VersionedPrograms DEF Within, Changes
  <2>3. Update(r) \/ Amend(r) \/ (Delete(r) /\ a # "drop")
    BY <2>2 DEF Changing, Insert, Assign, Update, Amend, Move, SaveRow, Delete, Replace, Merge, At
  <2> QED  BY <2>2, <2>3 DEF Update, Amend, Delete, At
<1>7. ASSUME c.id = i, c.old = Val(Target(r)) PROVE Backing(r, view[r].before, c)'
  <2> SUFFICES ASSUME view[r].before # NoRow
               PROVE  view[r].before.val = c.old \/ (~Versioned(r) /\ Taken(r, c.id)')
    BY <1>2 DEF Backing
  <2>1. CASE Versioned(r)
    <3>1. Target(r) # NoRow /\ Target(r).ver = q[r].stated
      BY <1>6, <2>1 DEF Reached, AsStated, Versioned, There, Target
    <3>2. q[r].stated <= view[r].before.ver /\ (view[r].before.ver < Target(r).ver \/ view[r].before = Target(r))
      BY <1>4, <2>1, <3>1 DEF Sure, There, Target
    <3>3. q[r].stated \in Nat /\ view[r].before.ver \in Nat
      BY <1>1, <2>1 DEF TrailRequests, Versioned, Stated, Views, Row
    <3>4. view[r].before = Target(r)
      BY <3>1, <3>2, <3>3
    <3> QED  BY <1>7, <3>1, <3>4 DEF Val
  <2>2. CASE ~Versioned(r) /\ rows[i] = view[r].before
    BY <1>7, <2>2 DEF Val, Target
  <2>3. CASE ~Versioned(r) /\ rows[i] # view[r].before
    BY <1>4, <1>5, <1>7, <2>3 DEF Lasting
  <2> QED  BY <2>1, <2>2, <2>3
<1>8. ASSUME c.id = q[r].other, c.old = Val(rows[c.id]), a = "move" PROVE Backing(r, view[r].other, c)'
  <2>1. ~Versioned(r)
    BY <1>6, <1>8
  <2>2. view[r].other # NoRow => view[r].other.val = c.old \/ Taken(r, c.id)'
    BY <1>4, <1>5, <1>8 DEF Lasting, Val
  <2> QED  BY <1>2, <2>1, <2>2 DEF Backing
<1> HIDE DEF a, i
<1>9. CASE a \in {"create", "assign", "replace", "merge"}
  <2>1. log \in {"logCreate", "logImport"}
    BY <1>9 DEF Tells, a
  <2> QED  BY <2>1 DEF Backed
<1>10. CASE a \in {"change", "save"}
  <2>1. log \in {"logChanges", "logUpdate", "logRole", "logGranted", "logAcrossOrgs"}
    BY <1>10 DEF Tells, a
  <2>2. c.id = i /\ c.old = Val(Target(r)) /\ c.new = q[r].val /\ view'[r].after.val = q[r].val
    BY <1>10 DEF Told, Changed, a, i
  <2> QED  BY <1>1, <1>7, <2>1, <2>2 DEF Backed
<1>11. CASE a \in {"drop", "remove"}
  <2>1. log \in {"logSnapshot", "logDelete"}
    BY <1>11 DEF Tells, a
  <2>2. c.id = i /\ c.old = Val(Target(r)) /\ c.new = NoRow
    BY <1>11 DEF Told, Changed, a, i
  <2> QED  BY <1>1, <1>7, <2>1, <2>2 DEF Backed
<1>12. CASE a = "amend"
  <2>1. log = "logAmended"
    BY <1>12 DEF Tells, a
  <2>2. c.id = i => c.old = Val(Target(r)) /\ c.new = view'[r].after.val
    BY <1>12 DEF Told, Changed, a, i
  <2> QED  BY <1>1, <1>7, <2>1, <2>2 DEF Backed, i
<1>13. CASE a = "move"
  <2>1. log = "logMoved"
    BY <1>13 DEF Tells, a
  <2>2. /\ c.old = Val(rows[c.id]) /\ c.new = q[r].val /\ view'[r].after.val = q[r].val
        /\ view'[r].loaded.val = q[r].val
    BY <1>13 DEF Told, Changed, a, i
  <2>3. c.id = i => c.old = Val(Target(r))
    BY <2>2 DEF Target, i
  <2> QED  BY <1>1, <1>7, <1>8, <1>13, <2>1, <2>2, <2>3 DEF Backed, i
<1> QED  BY <1>9, <1>10, <1>11, <1>12, <1>13 DEF Changes, a

\* What a step of a handler says is what the service did, or what overlapped it.
LEMMA OwnTruthful ==
    ASSUME Trailing, Logged, Valued, NEW r \in Reqs, StepOf(r), pc[r] = "trail", OfTrail(r)
    PROVE  Truthful(r)'
<1> DEFINE t == todo[r]
           a == Head(t)
<1>1. /\ Requesting /\ Kinds(r) /\ TrailTables /\ Ready(r) /\ q'[r] = q[r]
      /\ (Versioned(r)' <=> Versioned(r)) /\ (\A i : Taken(r, i) => Taken(r, i)')
  <2>1. Requesting /\ Kinds(r) /\ TrailTables /\ Ready(r) /\ q'[r] = q[r]
    BY TrailCases DEF Trailing, Requesting
  <2> QED  BY <2>1, TakenStep DEF Versioned, Stated, Handler
<1>2. PICK S, T : Stepping(r, S, T) /\ Did(r)' = Did(r) \cup S /\ Said(r)' = Said(r) \cup T
  BY <1>1, TrailFrame
<1>3. /\ t \in Seq(Steps) /\ t # <<>> /\ Orderly(t) /\ Fair(Handler(r), t)
      /\ a \in Reads \cup Changes => Did(r) = {} /\ Said(r) = {}
      /\ a \in Logs => Said(r) = {}
      /\ a \in ReadLogs => Did(r) = {}
  BY OwnFacts
<1>4. /\ a \notin Changes => S = {}
      /\ a \notin Logs /\ ~Refusing(r) => T = {}
      /\ a \in Steps /\ (a \notin Reads => ~Has(Tail(t), Reads \cup Changes))
  BY <1>2, <1>3, OwnStep, HeadFacts
<1>5. CASE a \in Reads
  <2>1. a \notin Changes
    BY <1>5 DEF Reads, Changes
  <2> QED  BY <1>2, <1>3, <1>4, <1>5, <2>1 DEF Truthful
<1>6. CASE a \in Changes
  <2>1. a \notin Logs /\ (Refusing(r) => S = {} \/ T = {})
    BY <1>2, <1>6 DEF Changes, Logs, ReadLogs, ChangeLogs, Stepping, Reading, Paging, Failing, Denying
  <2> QED  BY <1>2, <1>3, <1>4, <1>6, <2>1 DEF Truthful
<1>7. CASE a \in Follows
  <2>1. a \notin Logs /\ a \notin Changes /\ ~Refusing(r)
    BY <1>7 DEF Follows, Reads, Changes, Logs, ReadLogs, ChangeLogs, Refusing
  <2>2. Did(r)' = Did(r) /\ Said(r)' = Said(r)
    BY <1>2, <1>4, <2>1
  <2>3. ASSUME NEW e \in Said(r), NEW c \in Did(r) PROVE Agrees(r, e, c)'
    <3>1. Agrees(r, e, c)
      BY DEF Valued, Truthful
    <3> QED  BY <1>1, <3>1 DEF Agrees
  <2> QED  BY <2>2, <2>3 DEF Truthful
<1>8. CASE a \in Logs
  <2>1. a \notin Changes /\ a \notin Reads
    BY <1>8 DEF Reads, Changes, Logs, ReadLogs, ChangeLogs
  <2>2. Did(r)' = Did(r) /\ Said(r)' = T
    BY <1>2, <1>3, <1>4, <1>8, <2>1
  <2>3. Entered(r, T)
    BY <1>2, <1>8 DEF Stepping, Reading, Paging, Refusing, Failing, Denying, Reads, Follows, Changes, Logs, ReadLogs,
       ChangeLogs
  <2>4. ASSUME NEW e \in T, NEW c \in Did(r) PROVE Agrees(r, e, c)'
    <3>1. a \in ChangeLogs
      BY <1>3, <1>8, <2>4 DEF Logs
    <3>2. ~Has(t, Changes) /\ Has(t, {a})
      <4>1. \A X : Has(t, X) <=> a \in X \/ Has(Tail(t), X)
        BY <1>3, TailHas
      <4>2. ~Has(Tail(t), Changes)
        BY <1>4, <2>1 DEF Has
      <4> QED  BY <2>1, <4>1, <4>2
    <3>3. Backed(r, a, c)
      BY <3>1, <3>2 DEF Valued, Held
    <3>4. Sourced(r, a, e)
      BY <2>3 DEF Entered
    <3>5. Agrees(r, e, c)
      BY <3>1, <3>3, <3>4, SourcedAgrees
    <3> QED  BY <1>1, <3>5 DEF Agrees
  <2> QED  BY <2>2, <2>4 DEF Truthful
<1> QED  BY <1>4, <1>5, <1>6, <1>7, <1>8 DEF Steps

\* What a handler holds after its steps.
LEMMA OwnHeld ==
    ASSUME Trailing, Logged, Valued, NEW r \in Reqs, StepOf(r), pc[r] = "trail", OfTrail(r), pc'[r] = "trail"
    PROVE  Held(r)'
<1> DEFINE t == todo[r]
           a == Head(t)
           u == Tail(t)
           i == q[r].id
<1>1. /\ Requesting /\ Kinds(r) /\ TrailTables /\ Ready(r) /\ q'[r] = q[r] /\ DOMAIN pc = Reqs /\ Held(r)
      /\ Handler(r)' = Handler(r) /\ (Versioned(r)' <=> Versioned(r)) /\ (\A x : Taken(r, x) => Taken(r, x)')
      /\ Handler(r) \in DOMAIN Handlers
  <2>1. Requesting /\ Kinds(r) /\ TrailTables /\ Ready(r) /\ q'[r] = q[r] /\ DOMAIN pc = Reqs /\ Held(r)
    BY TrailCases DEF Trailing, Requesting, LocalsKnown, Valued
  <2>2. Handler(r) \in DOMAIN Handlers
    BY <2>1, TrailBody
  <2> QED  BY <2>1, <2>2, TakenStep DEF Versioned, Stated, Handler
<1>2. PICK S, T : Stepping(r, S, T) /\ Did(r)' = Did(r) \cup S /\ Said(r)' = Said(r) \cup T
  BY <1>1, TrailFrame
<1>3. /\ t \in Seq(Steps) /\ t # <<>> /\ Orderly(t) /\ Fair(Handler(r), t)
      /\ a \in Reads \cup Changes => Did(r) = {} /\ Said(r) = {}
  BY OwnFacts
<1>4. /\ a \in Steps
      /\ a \notin Reads => ~Has(u, Reads \cup Changes)
      /\ a \in Logs => ~Has(u, Logs)
      /\ a \in Changes => \A x \in DOMAIN u : u[x] \in Logs => Tells(a, u[x])
      /\ \A X : Has(t, X) <=> a \in X \/ Has(u, X)
      /\ a \notin Changes => S = {}
  BY <1>2, <1>3, HeadFacts, TailHas, OwnStep
<1>5. \/ Proceed(r) /\ todo'[r] = u
      \/ Paging(r) /\ todo'[r] = <<"count">> \o t
  BY <1>2, ProgramStep
<1>6. ~Refusing(r) /\ ~Failing(r) /\ ~Denying(r)
  BY <1>1 DEF Refusing, Failing, Denying, Stop, Answer
<1>7. Within(r)'
  <2>1. Elements(t) \subseteq Elements(Handlers[Handler(r)]) /\ a \in Elements(t)
    BY <1>1, <1>3, TailFacts DEF Held, Within, Elements
  <2>2. CASE todo'[r] = u
    <3>1. Elements(u) \subseteq Elements(t)
      BY <1>3, TailFacts DEF Elements
    <3> QED  BY <1>1, <2>1, <2>2, <3>1 DEF Within
  <2>3. CASE Paging(r) /\ todo'[r] = <<"count">> \o t
    <3>1. a = "page" /\ a \in Reads
      BY <2>3 DEF Paging, Reads
    <3>2. "count" \in Elements(Handlers[Handler(r)])
      <4>1. Whole(Handlers[Handler(r)])
        BY <1>1, HandlersGood
      <4> QED  BY <2>1, <3>1, <4>1 DEF Whole, Before, Elements
    <3>3. Elements(<<"count">> \o t) \subseteq {"count"} \cup Elements(t)
      BY <1>3, <3>1, PageGood DEF Elements
    <3> QED  BY <1>1, <2>1, <2>3, <3>2, <3>3 DEF Within
  <2> QED  BY <1>5, <2>2, <2>3
<1>8. \A X : "count" \notin X => (Has(todo'[r], X) => Has(t, X))
  <2>1. CASE todo'[r] = u
    BY <1>4, <2>1
  <2>2. CASE Paging(r) /\ todo'[r] = <<"count">> \o t
    <3>1. a \in Reads
      BY <2>2 DEF Paging, Reads
    <3> QED  BY <1>3, <2>2, <3>1, PageGood
  <2> QED  BY <1>5, <2>1, <2>2
<1>9. ASSUME Has(todo'[r], Changes) PROVE Lasting(r)' /\ Sure(r)'
  <2>1. a \in Reads /\ a \notin Changes /\ a \notin Logs /\ a \notin Follows
    <3>1. a \in Reads
      <4>1. CASE todo'[r] = u
        BY <1>4, <1>9, <4>1 DEF Has
      <4>2. CASE Paging(r)
        BY <4>2 DEF Paging, Reads
      <4> QED  BY <1>5, <4>1, <4>2
    <3> QED  BY <3>1 DEF Reads, Changes, Follows, Logs, ReadLogs, ChangeLogs
  <2>2. Lasting(r) /\ Sure(r)
    BY <1>1, <1>8, <1>9 DEF Held, Changes
  <2>3. Looks(r) /\ UNCHANGED <<rows, nextRow>>
    BY <1>2, <1>6, <2>1 DEF Stepping, Reading, Paging
  <2>4. /\ view'[r].before \in {view[r].before, Target(r), NoRow}
        /\ view'[r].other \in {view[r].other, rows[q[r].other], NoRow}
    BY <2>3 DEF Looks
  <2>5. Lasting(r)'
    BY <1>1, <2>2, <2>3, <2>4 DEF Lasting, Target
  <2>6. Sure(r)'
    <3>1. CASE view'[r].before \in {view[r].before, NoRow}
      BY <1>1, <2>2, <2>3, <3>1 DEF Sure, There
    <3>2. CASE view'[r].before = Target(r)
      BY <1>1, <2>2, <2>3, <3>2 DEF Sure, There, Target
    <3> QED  BY <2>4, <3>1, <3>2
  <2> QED  BY <2>5, <2>6
<1>10. ASSUME ~Has(todo'[r], Changes), NEW log \in ChangeLogs, Has(todo'[r], {log}), NEW c \in Did(r)'
       PROVE  Backed(r, log, c)'
  <2>1. log \in Logs /\ log # "count"
    BY DEF Logs, ChangeLogs
  <2>2. CASE a \in Changes
    <3>1. todo'[r] = u /\ ~Reading(r) /\ ~Paging(r) /\ a \notin Logs
      BY <1>2, <1>5, <1>6, <2>2 DEF Stepping, Paging, Reading, Reads, Follows, Changes, Logs, ReadLogs, ChangeLogs
    <3>2. Changing(r) /\ Kept(r) /\ Told(r, S)
      BY <1>2, <1>6, <3>1 DEF Stepping
    <3>3. Tells(a, log) /\ c \in S
      BY <1>2, <1>3, <1>4, <1>10, <2>1, <2>2, <3>1 DEF Has
    <3> QED  BY <2>2, <3>2, <3>3, ChangeBacked
  <2>3. CASE a \in Reads
    <3>1. a \notin Changes
      BY <2>3 DEF Reads, Changes
    <3> QED  BY <1>2, <1>3, <1>4, <1>10, <2>3, <3>1
  <2>4. CASE a \in Logs
    <3>1. a \notin Changes /\ todo'[r] = u
      BY <1>5, <2>4 DEF Paging, Changes, Logs, ReadLogs, ChangeLogs
    <3> QED  BY <1>4, <1>10, <2>1, <2>4, <3>1 DEF Has
  <2>5. CASE a \in Follows
    <3>1. a \notin Changes /\ a \notin Logs /\ a \notin Reads /\ todo'[r] = u
      BY <1>5, <2>5 DEF Paging, Follows, Reads, Changes, Logs, ReadLogs, ChangeLogs
    <3>2. Did(r)' = Did(r) /\ ~Has(t, Changes) /\ Has(t, {log})
      BY <1>2, <1>4, <1>10, <3>1
    <3>3. Backed(r, log, c)
      BY <1>1, <1>10, <3>2 DEF Held
    <3>4. Looks(r)
      BY <1>2, <1>6, <3>1 DEF Stepping, Reading, Paging
    <3>5. /\ view'[r].before = view[r].before /\ view'[r].other = view[r].other
          /\ view'[r].after = view[r].after /\ view'[r].loaded = view[r].loaded
      BY <2>5, <3>4 DEF Looks, Follows
    <3> QED  BY <1>1, <3>3, <3>5 DEF Backed, Backing
  <2> QED  BY <1>4, <2>2, <2>3, <2>4, <2>5 DEF Steps
<1> QED  BY <1>7, <1>9, <1>10 DEF Held

\* Every step of every request keeps the entries true.
LEMMA ValuedStep ==
    ASSUME Trailing, Logged, Valued, NEW r \in Reqs, StepOf(r)
    PROVE  Valued'
<1>1. /\ Requesting /\ Requesting' /\ Moves(r) /\ TrailTables
      /\ (pc[r] # "idle" => q'[r] = q[r])
      /\ Elsewhere(r) \/ Begins(r) \/ (OfTrail(r) /\ pc[r] = "trail")
  BY TrailCases DEF Trailing
<1>2. ASSUME Elsewhere(r) PROVE Truthful(r)' /\ pc'[r] # "trail"
  <2>1. Said(r)' = Said(r) /\ Did(r)' = Did(r)
    BY <1>2, ElsewhereFrame
  <2>2. pc[r] = "idle" => Said(r) = {}
    BY DEF Logged
  <2>3. ASSUME pc[r] # "idle", NEW e \in Said(r), NEW c \in Did(r) PROVE Agrees(r, e, c)'
    <3>1. Agrees(r, e, c) /\ (Versioned(r)' <=> Versioned(r)) /\ \A i : Taken(r, i) => Taken(r, i)'
      BY <1>1, <2>3, TakenStep DEF Valued, Truthful, Versioned, Stated, Handler
    <3> QED  BY <3>1 DEF Agrees
  <2> QED  BY <1>2, <2>1, <2>2, <2>3 DEF Truthful, Elsewhere
<1>3. ASSUME Begins(r) PROVE Truthful(r)' /\ Held(r)'
  <2>1. /\ pc[r] = "idle" /\ q'[r] \in TrailRequests /\ Given(q'[r]) /\ view[r] = Nothing /\ Said(r) = {} /\ Did(r) = {}
    BY <1>3 DEF Begins, Begin, Trailing, Ready, Logged
  <2>2. /\ Said(r)' = {} /\ Did(r)' = {} /\ view'[r] = Nothing /\ UNCHANGED <<rows, nextRow>>
        /\ todo'[r] = Handlers[q'[r].handler]
    BY <1>3, <2>1, ElsewhereFrame
  <2>3. Within(r)'
    BY <2>2 DEF Within, Handler
  <2>4. Lasting(r)'
    BY <2>2 DEF Lasting, Nothing
  <2>5. Versioned(r)' => q'[r].stated \in Nat
    BY <2>1 DEF Versioned, Stated, TrailRequests
  <2>6. Sure(r)'
    BY <2>1, <2>2, <2>5 DEF Sure, Given, There, Nothing
  <2> QED  BY <2>2, <2>3, <2>4, <2>6 DEF Truthful, Held
<1>4. Truthful(r)' /\ (pc'[r] = "trail" => Held(r)')
  BY <1>1, <1>2, <1>3, OwnTruthful, OwnHeld
<1>5. \A s \in Reqs \ {r} : Truthful(s)' /\ (pc'[s] = "trail" => Held(s)')
  BY ValuedOthers
<1> QED  BY <1>4, <1>5 DEF Valued

\* What entries say of values is so, or another request took the row meanwhile.
LEMMA ValuedInvariant == Spec => [](Trailing /\ Logged /\ Valued)
<1>1. Init => Trailing /\ Logged /\ Valued
  BY TrailingInit DEF Logged, Handled, Valued, Truthful
<1>2. Trailing /\ Logged /\ Valued /\ [Next]_vars => Valued'
  <2> SUFFICES ASSUME Trailing, Logged, Valued, [Next]_vars PROVE Valued'
    OBVIOUS
  <2>1. CASE UNCHANGED vars
    <3>1. UNCHANGED <<pc, q, resp, prior, rows, nextRow, trail, done, todo, view>>
      BY <2>1 DEF vars, requestVars, trailVars
    <3>2. \A s : /\ Did(s)' = Did(s) /\ Said(s)' = Said(s) /\ Handler(s)' = Handler(s)
                 /\ (Versioned(s)' <=> Versioned(s)) /\ \A i : Taken(s, i)' <=> Taken(s, i)
      BY <3>1 DEF Did, Said, By, Taken, History, Elements, Overlap, Handler, Versioned, Stated, Touched
    <3>3. \A s, e, c : (Agrees(s, e, c)' <=> Agrees(s, e, c)) /\ \A log : Backed(s, log, c)' <=> Backed(s, log, c)
      BY <3>1, <3>2 DEF Agrees, Backed, Backing
    <3>4. \A s : (Lasting(s)' <=> Lasting(s)) /\ (Sure(s)' <=> Sure(s)) /\ (Within(s)' <=> Within(s))
      BY <3>1, <3>2 DEF Lasting, Sure, Within, There
    <3> QED  BY <3>1, <3>2, <3>3, <3>4 DEF Valued, Truthful, Held
  <2>2. CASE \E r \in Reqs : StepOf(r)
    BY <2>2, ValuedStep
  <2> QED  BY <2>1, <2>2 DEF Next, Finished, StepOf
<1> QED  BY <1>1, <1>2, LoggedInvariant, PTL DEF Spec

\* The values of an entry are those of the change it is about, when its request stated the
\* version; otherwise they differ only if a request that overlapped it changed the row.
THEOREM ValuesAreTrue == Spec => []ValuesTrue
<1>1. Trailing /\ Logged /\ Valued => ValuesTrue
  BY ValuedIsTrue
<1> QED  BY <1>1, ValuedInvariant, PTL
---------------------------------------------------------------------------
(* The files of the exports. *)

\* No two rows of the list have the same names.
Distinct == \A i, j \in Listed : i # j => rows[i].val # rows[j].val

\* An order has every row of the list, once.
LEMMA WholeOrder ==
    ASSUME NEW s \in Orders
    PROVE  IsInjective(s) /\ ToSet(s) = Listed
<1> DEFINE n == Cardinality(Listed)
           D == 1..n
<1>1. IsFiniteSet(Listed) /\ n \in Nat /\ DOMAIN s = D
  BY ListedFacts
<1>2. s \in [D -> Listed] /\ \A i, j \in D : i # j => s[i] # s[j]
  BY DEF Orders, SetToSeqs
<1>3. IsInjective(s)
  BY <1>1, <1>2 DEF IsInjective
<1>4. s \in Injection(D, Listed)
  BY <1>2, <1>3 DEF Injection
<1>5. IsFiniteSet(D) /\ Cardinality(D) = n
  <2>1. IsFiniteSet(1..n) /\ Cardinality(1..n) = IF 1 > n THEN 0 ELSE n - 1 + 1
    BY <1>1, FS_Interval
  <2> QED  BY <1>1, <2>1
<1> HIDE DEF D
<1>6. s \in Surjection(D, Listed)
  BY <1>1, <1>4, <1>5, FS_Injection DEF n
<1>7. \A x \in Listed : \E i \in D : s[i] = x
  BY <1>6 DEF Surjection
<1> QED  BY <1>1, <1>2, <1>3, <1>7 DEF ToSet

\* Names that differ leave one order.
LEMMA OneOrder ==
    ASSUME TrailTables, Distinct, NEW s \in Orders, NEW t \in Orders
    PROVE  \A i \in DOMAIN s : s[i] = t[i]
<1> DEFINE n == Cardinality(Listed)
           D == 1..n
           B == {i \in D : s[i] # t[i]}
<1>1. n \in Nat /\ DOMAIN s = D /\ DOMAIN t = D /\ Listed \subseteq RowId
  BY ListedFacts
<1>2. s \in [D -> Listed] /\ t \in [D -> Listed]
  BY DEF Orders, SetToSeqs
<1>3. \A i, j \in D : i < j => rows[s[i]].val <= rows[s[j]].val /\ rows[t[i]].val <= rows[t[j]].val
  BY <1>1 DEF Orders
<1>4. /\ \A i, j \in D : i # j => s[i] # s[j] /\ t[i] # t[j]
      /\ \A x \in Listed : (\E i \in D : s[i] = x) /\ (\E i \in D : t[i] = x)
  BY <1>1, WholeOrder DEF IsInjective, ToSet
<1>5. \A x \in Listed : rows[x].val \in Nat
  BY <1>1, RowFacts DEF TrailTables, Listed, There
<1>6. ASSUME B # {} PROVE FALSE
  <2>1. B \subseteq Nat
    BY <1>1
  <2>2. PICK m \in B : \A k \in B : m <= k
    BY <1>6, <2>1, Smallest
  <2>3. m \in D /\ s[m] # t[m] /\ \A k \in D : k < m => s[k] = t[k]
    BY <1>1, <2>2
  <2>4. PICK j \in D : t[j] = s[m]
    BY <1>2, <1>4, <2>3
  <2>5. PICK k \in D : s[k] = t[m]
    BY <1>2, <1>4, <2>3
  <2>6. j > m
    <3>1. j # m
      BY <2>3, <2>4
    <3>2. ~(j < m)
      BY <1>4, <2>3, <2>4
    <3> QED  BY <1>1, <2>3, <3>1, <3>2
  <2>7. k > m
    <3>1. k # m
      BY <2>3, <2>5
    <3>2. ~(k < m)
      BY <1>4, <2>3, <2>5
    <3> QED  BY <1>1, <2>3, <3>1, <3>2
  <2>8. rows[t[m]].val <= rows[s[m]].val /\ rows[s[m]].val <= rows[t[m]].val
    BY <1>3, <2>3, <2>4, <2>5, <2>6, <2>7
  <2>9. s[m] \in Listed /\ t[m] \in Listed
    BY <1>2, <2>3
  <2>10. rows[t[m]].val = rows[s[m]].val
    BY <1>5, <2>8, <2>9
  <2> QED  BY <2>3, <2>9, <2>10 DEF Distinct
<1> QED  BY <1>1, <1>6

\* What was changed while an export ran.
Amid(r) == {c \in History : c.by \notin prior[r]}
Dropped(r) == \E c \in Amid(r) : c.new = NoRow
Arrived(r) == \E c \in Amid(r) : c.old = NoRow

\* What is left of an export.
Whiles == {<<"count", "page">>, <<"count", "page", "logExport">>, <<"page">>, <<"page", "logExport">>}

\* So far the file is how every order begins.
Begun(r) == \A s \in Orders : \A i \in DOMAIN view[r].file : i \in DOMAIN s /\ view[r].file[i] = s[i]
FileWhole(r) == IsInjective(view[r].file) /\ ToSet(view[r].file) = Listed

\* Without a deletion no row is missed, so that pages and offset go together; without a
\* creation the rows that are left are enough for the count.
Collected(r) ==
    LET f == view[r].file
        o == view[r].offset
        m == view[r].total
        n == Cardinality(Listed)
    IN  /\ ~Dropped(r) => Len(f) = o /\ o <= n /\ (Head(todo[r]) = "page" => m <= n)
        /\ ~Arrived(r) => (Len(f) >= o \/ Len(f) >= n) /\ (Head(todo[r]) = "page" => m >= n)
        /\ Amid(r) = {} /\ Distinct => Begun(r)

Finishing(r) == (pc[r] = "trail" /\ todo[r] = <<"logExport">>) \/ (pc[r] = "done" /\ resp[r] = "ok")
Filed(r) ==
    /\ pc[r] = "trail" => todo[r] \in Whiles \cup {<<"logExport">>}
    /\ pc[r] = "trail" /\ todo[r] \in Whiles => Collected(r)
    /\ Finishing(r) => (Amid(r) = {} /\ Distinct => FileWhole(r))
    /\ pc[r] = "done" /\ resp[r] = "ok" => \A e \in Said(r) : e.ids = ToSet(view[r].file)
Filing == \A r \in Reqs : Exporting(r) => Filed(r)

\* The property is of these.
LEMMA FilingIsWhole ==
    ASSUME Trailing, Filing PROVE FilesWhole
<1> SUFFICES ASSUME NEW r \in Reqs, Exporting(r)
    PROVE  /\ pc[r] = "done" /\ resp[r] = "ok" =>
             /\ \A e \in EntriesOf(r) : trail[e].ids = ToSet(view[r].file)
             /\ \/ IsInjective(view[r].file) /\ ToSet(view[r].file) = Listed
                \/ Since(r) # {}
                \/ \E i, j \in Listed : i # j /\ rows[i].val = rows[j].val
           /\ At(r, "count") /\ Len(view[r].file) < Cardinality(Listed) /\ view[r].offset >= Cardinality(Listed) =>
             \E i, j \in Since(r) : done[i].new = NoRow /\ done[j].old = NoRow
  BY DEF FilesWhole
<1>1. Filed(r)
  BY DEF Filing
<1>2. Amid(r) = {done[i] : i \in Since(r)}
  BY DEF Amid, History, Elements, Since
<1>3. Said(r) = {trail[i] : i \in EntriesOf(r)}
  BY DEF Said, By, EntriesOf
<1>4. ASSUME pc[r] = "done", resp[r] = "ok"
      PROVE  /\ \A e \in EntriesOf(r) : trail[e].ids = ToSet(view[r].file)
             /\ \/ IsInjective(view[r].file) /\ ToSet(view[r].file) = Listed
                \/ Since(r) # {}
                \/ \E i, j \in Listed : i # j /\ rows[i].val = rows[j].val
  BY <1>1, <1>2, <1>3, <1>4 DEF Filed, Finishing, FileWhole, Distinct
<1>5. ASSUME At(r, "count"), Len(view[r].file) < Cardinality(Listed), view[r].offset >= Cardinality(Listed)
      PROVE  \E i, j \in Since(r) : done[i].new = NoRow /\ done[j].old = NoRow
  <2>1. pc[r] = "trail" /\ Head(todo[r]) = "count"
    BY <1>5 DEF At
  <2>2. todo[r] # <<"logExport">>
    BY <2>1
  <2>3. Collected(r)
    BY <1>1, <2>1, <2>2 DEF Filed
  <2>4. view[r].offset \in Nat /\ Len(view[r].file) \in Nat /\ Cardinality(Listed) \in Nat
    <3>1. view[r].offset \in Nat /\ view[r].file \in Seq(RowId)
      BY DEF Trailing, TrailTables, Views
    <3> QED  BY <3>1, ListedFacts, LenProperties
  <2>5. Dropped(r) /\ Arrived(r)
    BY <1>5, <2>3, <2>4 DEF Collected
  <2> QED  BY <1>2, <2>5 DEF Dropped, Arrived
<1> QED  BY <1>4, <1>5

\* The steps of an export.
LEMMA PlanSteps ==
    ASSUME NEW t, t \in Whiles \cup {<<"logExport">>}
    PROVE  /\ t \in Whiles => Head(t) \in {"count", "page"}
           /\ t \notin Whiles => Head(t) = "logExport" /\ t = <<"logExport">> /\ Tail(t) = <<>>
           /\ Head(t) = "count" => Tail(t) \in Whiles /\ Head(Tail(t)) = "page"
           /\ Head(t) = "page" =>
                /\ Tail(t) \in {<<>>, <<"logExport">>}
                /\ <<"count">> \o t \in Whiles /\ Head(<<"count">> \o t) = "count"
<1>1. CASE t = <<"count", "page">>
  <2>1. Head(t) = "count" /\ Tail(t) = <<"page">> /\ Head(<<"page">>) = "page"
    BY <1>1
  <2> QED  BY <1>1, <2>1 DEF Whiles
<1>2. CASE t = <<"count", "page", "logExport">>
  <2>1. Head(t) = "count" /\ Tail(t) = <<"page", "logExport">> /\ Head(<<"page", "logExport">>) = "page"
    BY <1>2
  <2> QED  BY <1>2, <2>1 DEF Whiles
<1>3. CASE t = <<"page">>
  <2>1. Head(t) = "page" /\ Tail(t) = <<>>
    BY <1>3
  <2>3. <<"count">> \o t = <<"count", "page">>
    BY <1>3, Concats
  <2>2. Head(<<"count", "page">>) = "count"
    OBVIOUS
  <2> QED  BY <1>3, <2>1, <2>2, <2>3 DEF Whiles
<1>4. CASE t = <<"page", "logExport">>
  <2>1. Head(t) = "page" /\ Tail(t) = <<"logExport">>
    BY <1>4
  <2>3. <<"count">> \o t = <<"count", "page", "logExport">>
    BY <1>4, Concats
  <2>2. Head(<<"count", "page", "logExport">>) = "count"
    OBVIOUS
  <2> QED  BY <1>4, <2>1, <2>2, <2>3 DEF Whiles
<1>5. CASE t = <<"logExport">>
  <2>1. Head(t) = "logExport" /\ Tail(t) = <<>>
    BY <1>5
  <2>2. t \notin Whiles
    <3>1. ASSUME NEW u \in Whiles PROVE Head(u) # "logExport"
      BY <3>1 DEF Whiles
    <3> QED  BY <2>1, <3>1
  <2> QED  BY <1>5, <2>1, <2>2
<1> QED  BY <1>1, <1>2, <1>3, <1>4, <1>5 DEF Whiles

\* Two programs read pages.
LEMMA ExportPrograms ==
    ASSUME NEW h \in DOMAIN Handlers, "page" \in ToSet(Handlers[h])
    PROVE  Handlers[h] \in {<<"count", "page">>, <<"count", "page", "logExport">>}
<1> DEFINE p == Handlers[h]
<1>1. Shape(h, p)
  BY HandlersGood
<1>2. "page" \in Elements(p)
  BY DEF ToSet, Elements
<1> HIDE DEF p
<1>3. \/ p \in Plain
      \/ p = <<"merge", "reread", "logImport">> \/ p = <<"create", "reread", "logCreate">>
      \/ p = <<"assign", "logCreate">> \/ p = <<"fetch", "password", "change", "logGranted", "reread">>
      \/ p = <<"load", "password", "save", "revoke", "logUpdate">> \/ p = <<"admit", "logDenied">>
  BY <1>1 DEF Shape
<1>4. /\ \A a : p = <<a>> => Elements(p) = {a}
      /\ \A a, b : p = <<a, b>> => Elements(p) = {a, b}
      /\ \A a, b, c : p = <<a, b, c>> => Elements(p) = {a, b, c}
      /\ \A a, b, c, d : p = <<a, b, c, d>> => Elements(p) = {a, b, c, d}
      /\ \A a, b, c, d, e : p = <<a, b, c, d, e>> => Elements(p) = {a, b, c, d, e}
  <2>1. \A a : p = <<a>> => Elements(p) = {a}
    BY Tuples DEF Elements
  <2>2. \A a, b : p = <<a, b>> => Elements(p) = {a, b}
    BY Tuples DEF Elements
  <2>3. \A a, b, c : p = <<a, b, c>> => Elements(p) = {a, b, c}
    BY Tuples DEF Elements
  <2>4. \A a, b, c, d : p = <<a, b, c, d>> => Elements(p) = {a, b, c, d}
    BY Tuples DEF Elements
  <2>5. \A a, b, c, d, e : p = <<a, b, c, d, e>> => Elements(p) = {a, b, c, d, e}
    BY Tuples DEF Elements
  <2> QED  BY <2>1, <2>2, <2>3, <2>4, <2>5
<1>5. CASE p \in Plain
  BY <1>2, <1>4, <1>5 DEF Plain, p
<1>6. CASE p \notin Plain
  BY <1>2, <1>3, <1>4, <1>6 DEF p
<1> QED  BY <1>5, <1>6 DEF p

\* The list is as long as there are row ids, at most.
LEMMA ListBounded == Cardinality(Listed) \in Nat /\ Cardinality(Listed) <= MaxRow
<1>1. IsFiniteSet(1..MaxRow) /\ Cardinality(1..MaxRow) = IF 1 > MaxRow THEN 0 ELSE MaxRow - 1 + 1
  BY FS_Interval, TrailAssumption
<1>2. Cardinality(1..MaxRow) = MaxRow
  BY <1>1, TrailAssumption
<1>3. Listed \subseteq 1..MaxRow
  BY ListedFacts DEF RowId
<1>4. Cardinality(Listed) <= Cardinality(1..MaxRow)
  BY <1>1, <1>3, FS_Subset
<1> QED  BY <1>2, <1>4, ListedFacts

\* The list changes with what is on record as changed, and the past stays.
LEMMA AmidStep ==
    ASSUME Trailing, Logged, NEW r \in Reqs, StepOf(r), NEW s \in Reqs, pc[s] # "idle"
    PROVE  /\ Cardinality(Listed) \in Nat /\ Cardinality(Listed)' \in Nat
           /\ ~Dropped(s)' => ~Dropped(s) /\ Cardinality(Listed) <= Cardinality(Listed)'
           /\ ~Arrived(s)' => ~Arrived(s) /\ Cardinality(Listed)' <= Cardinality(Listed)
           /\ Amid(s)' = {} => Amid(s) = {} /\ rows' = rows
<1>1. /\ Requesting /\ Requesting' /\ Moves(r) /\ TrailTables /\ TrailTables' /\ pc[r] # "done"
      /\ (pc[r] # "idle" => q'[r] = q[r] /\ prior'[r] = prior[r])
      /\ Elsewhere(r) \/ Begins(r) \/ (OfTrail(r) /\ pc[r] = "trail")
  BY TrailCases, TrailingStep DEF Trailing
<1>2. prior'[s] = prior[s] /\ r \notin prior[s]
  BY <1>1 DEF Moves, Requesting, Kinds
<1>3. PICK S : Accounts(r, S) /\ History' = History \cup S
  <2>1. CASE Elsewhere(r) \/ Begins(r)
    <3>1. UNCHANGED <<rows, nextRow>> /\ History' = History
      BY <2>1, ElsewhereFrame
    <3> QED  BY <1>1, <3>1, NothingChanged
  <2>2. CASE OfTrail(r) /\ pc[r] = "trail"
    BY <1>1, <2>2, TrailFrame DEF Trailing, Requesting
  <2> QED  BY <1>1, <2>1, <2>2
<1>4. S \subseteq Amid(s)' /\ Amid(s) \subseteq Amid(s)'
  BY <1>2, <1>3 DEF Amid, Accounts
<1>5. (Dropped(s) => Dropped(s)') /\ (Arrived(s) => Arrived(s)')
  BY <1>4 DEF Dropped, Arrived
<1>6. Listed' = {i \in RowId : rows'[i] # NoRow /\ rows'[i].under = 0} /\ Listed = {i \in RowId : rows[i] # NoRow /\ rows[i].under = 0}
  BY DEF Listed, There
<1>7. ASSUME ~Dropped(s)' PROVE Listed \subseteq Listed'
  <2> SUFFICES ASSUME NEW i \in RowId, rows[i] # NoRow, rows[i].under = 0
               PROVE  rows'[i] # NoRow /\ rows'[i].under = 0
    BY <1>6
  <2>1. rows'[i] # NoRow
    <3>1. rows'[i] = NoRow => \E c \in S : c.new = NoRow
      BY <1>3 DEF Accounts
    <3> QED  BY <1>4, <1>7, <3>1 DEF Dropped
  <2>2. rows'[i] # rows[i] => rows'[i].under = rows[i].under
    BY <1>3, <2>1 DEF Accounts
  <2> QED  BY <2>1, <2>2
<1>8. ASSUME ~Arrived(s)' PROVE Listed' \subseteq Listed
  <2> SUFFICES ASSUME NEW i \in RowId, rows'[i] # NoRow, rows'[i].under = 0
               PROVE  rows[i] # NoRow /\ rows[i].under = 0
    BY <1>6
  <2>1. rows[i] # NoRow
    <3>1. rows[i] = NoRow => \E c \in S : c.old = NoRow
      BY <1>3 DEF Accounts
    <3> QED  BY <1>4, <1>8, <3>1 DEF Arrived
  <2>2. rows'[i] # rows[i] => rows'[i].under = rows[i].under
    BY <1>3, <2>1 DEF Accounts
  <2> QED  BY <2>1, <2>2
<1>9. ASSUME Amid(s)' = {} PROVE Amid(s) = {} /\ rows' = rows
  <2>1. S = {} /\ Amid(s) = {}
    BY <1>4, <1>9
  <2>2. \A i \in RowId : rows'[i] = rows[i]
    BY <1>3, <2>1 DEF Accounts
  <2>3. rows \in [RowId -> Row \cup {NoRow}] /\ rows' \in [RowId -> Row \cup {NoRow}]
    BY <1>1 DEF TrailTables
  <2>4. rows' = rows
    BY <2>2, <2>3
  <2> QED  BY <2>1, <2>4
<1>10. IsFiniteSet(Listed) /\ IsFiniteSet(Listed') /\ Cardinality(Listed) \in Nat /\ Cardinality(Listed)' \in Nat
  <2>1. IsFiniteSet(Listed) /\ IsFiniteSet(RowId) /\ Listed' \subseteq RowId
    BY <1>6, ListedFacts
  <2>2. IsFiniteSet(Listed')
    BY <2>1, FS_Subset
  <2> QED  BY <2>1, <2>2, FS_CardinalityType
<1>11. PICK L, M : L = Listed /\ M = Listed'
  OBVIOUS
<1>12. /\ L \subseteq M => Cardinality(L) <= Cardinality(M)
       /\ M \subseteq L => Cardinality(M) <= Cardinality(L)
  BY <1>10, <1>11, FS_Subset
<1> QED  BY <1>5, <1>7, <1>8, <1>9, <1>10, <1>11, <1>12

\* A page adds the next rows of an order, and the last one makes the file whole.
LEMMA PageStep ==
    ASSUME Trailing, NEW r \in Reqs, pc[r] = "trail", ReadPage(r), Collected(r)
    PROVE  LET g == view'[r].file
               o == view'[r].offset
               m == view[r].total
               n == Cardinality(Listed)
           IN  /\ g \in Seq(RowId) /\ view'[r].total = m
               /\ Len(g) >= m \/ Paging(r)
               /\ Len(g) >= m => Proceed(r)
               /\ ~Dropped(r) /\ Len(g) < m => Len(g) = o /\ o <= n
               /\ ~Arrived(r) => Len(g) >= o \/ Len(g) >= n
               /\ Amid(r) = {} /\ Distinct =>
                    /\ \A t \in Orders : \A i \in DOMAIN g : i \in DOMAIN t /\ g[i] = t[i]
                    /\ Len(g) >= m => IsInjective(g) /\ ToSet(g) = Listed
<1> DEFINE v == view[r]
           f == v.file
           o == v.offset
           m == v.total
           n == Cardinality(Listed)
           g == view'[r].file
           p == view'[r].offset
<1>1. TrailTables /\ view \in [Reqs -> Views] /\ Head(todo[r]) = "page" /\ Kinds(r) /\ Ready(r)
  BY DEF Trailing, Requesting, TrailTables, ReadPage, At
<1>2. PICK s \in Orders :
        LET file == f \o SubSeq(s, o + 1, SmallerOf(o + PageSize, Len(s)))
        IN  /\ view' = [view EXCEPT ![r].file = file, ![r].offset = SmallerOf(@ + PageSize, MaxRow)]
            /\ IF Len(file) >= m
               THEN Proceed(r)
               ELSE todo' = [todo EXCEPT ![r] = <<"count">> \o @] /\ UNCHANGED <<pc, resp>>
  BY DEF ReadPage
<1> DEFINE hi == SmallerOf(o + PageSize, Len(s))
           page == SubSeq(s, o + 1, hi)
<1>3. g = f \o page /\ p = SmallerOf(o + PageSize, MaxRow) /\ view'[r].total = m
  BY <1>1, <1>2 DEF Views
<1>4. IF Len(g) >= m THEN Proceed(r) ELSE todo' = [todo EXCEPT ![r] = <<"count">> \o @] /\ UNCHANGED <<pc, resp>>
  BY <1>2, <1>3
<1>15. /\ Len(s) = n /\ n \in Nat /\ hi \in Nat /\ o \in Nat /\ f \in Seq(RowId)
       /\ hi <= Len(s) /\ (hi = Len(s) \/ hi = o + PageSize) /\ f \o page \in Seq(RowId)
       /\ Len(page) = IF o + 1 <= hi THEN hi - o ELSE 0
       /\ \A i \in 1..Len(page) : page[i] = s[o + i] /\ o + i \in 1..Len(s)
       /\ Len(f \o page) = Len(f) + Len(page) /\ Len(f) \in Nat
       /\ \A i \in 1..Len(f \o page) : (f \o page)[i] = IF i <= Len(f) THEN f[i] ELSE page[i - Len(f)]
  BY <1>1, PageFacts
<1>5. /\ Len(s) = n /\ n \in Nat /\ hi \in Nat /\ o \in Nat /\ f \in Seq(RowId)
      /\ hi <= n /\ (hi = n \/ hi = o + PageSize) /\ g \in Seq(RowId)
      /\ Len(page) = IF o + 1 <= hi THEN hi - o ELSE 0
      /\ \A i \in 1..Len(page) : page[i] = s[o + i] /\ o + i \in 1..n
      /\ Len(g) = Len(f) + Len(page) /\ Len(f) \in Nat
      /\ \A i \in 1..Len(g) : g[i] = IF i <= Len(f) THEN f[i] ELSE page[i - Len(f)]
  BY <1>3, <1>15
<1>6. m \in Nat /\ PageSize \in Nat /\ PageSize > 0 /\ MaxRow \in Nat /\ n <= MaxRow /\ DOMAIN s = 1..n
  BY <1>1, TrailAssumption, ListBounded, ListedFacts DEF Views
<1>7. p \in Nat /\ p <= o + PageSize /\ (o + PageSize <= MaxRow => p = o + PageSize)
  <2>1. PICK x, y, z : x = o /\ y = p /\ z = PageSize
    OBVIOUS
  <2> HIDE DEF p, o
  <2>2. x \in Nat /\ z \in Nat /\ MaxRow \in Nat /\ y = IF x + z < MaxRow THEN x + z ELSE MaxRow
    BY <1>3, <1>5, <1>6, <2>1 DEF SmallerOf
  <2>3. y \in Nat /\ y <= x + z /\ (x + z <= MaxRow => y = x + z)
    BY <2>2
  <2> QED  BY <2>1, <2>3
<1>8. DOMAIN g = 1..Len(g) /\ Len(g) \in Nat /\ DOMAIN f = 1..Len(f)
  BY <1>5, LenProperties
<1>9. /\ ~Dropped(r) => Len(f) = o /\ o <= n /\ m <= n
      /\ ~Arrived(r) => (Len(f) >= o \/ Len(f) >= n) /\ m >= n
      /\ Amid(r) = {} /\ Distinct => Begun(r)
  BY <1>1 DEF Collected
<1>10. /\ Looks(r) /\ UNCHANGED <<rows, nextRow, trail, done, throttle>>
  <2>1. UNCHANGED <<rows, nextRow, trail, done, throttle>>
    BY DEF ReadPage
  <2>2. Looks(r)
    BY <1>1, <1>2 DEF Looks, Views
  <2> QED  BY <2>1, <2>2
<1>11. (Len(g) >= m \/ Paging(r)) /\ (Len(g) >= m => Proceed(r))
  BY <1>1, <1>4, <1>5, <1>6, <1>8, <1>10 DEF Paging
<1> HIDE DEF g, p, hi, page, n, m, f, o
<1>12. /\ ~Dropped(r) /\ Len(g) < m => Len(g) = p /\ p <= n
       /\ ~Arrived(r) => Len(g) >= p \/ Len(g) >= n
  <2>1. PICK a, b, c : a = Len(f) /\ b = Len(page) /\ c = Len(g)
    OBVIOUS
  <2>2. /\ a \in Nat /\ b \in Nat /\ c \in Nat /\ c = a + b /\ b = IF o + 1 <= hi THEN hi - o ELSE 0
        /\ n \in Nat /\ hi \in Nat /\ o \in Nat /\ p \in Nat /\ hi <= n /\ (hi = n \/ hi = o + PageSize)
        /\ p <= o + PageSize /\ PageSize \in Nat /\ n <= MaxRow /\ MaxRow \in Nat /\ m \in Nat
        /\ (o + PageSize <= MaxRow => p = o + PageSize)
    BY <1>5, <1>6, <1>7, <1>8, <2>1
  <2>3. a >= o \/ a >= n => c >= p \/ c >= n
    BY <2>2
  <2>4. a = o /\ o <= n /\ m <= n /\ c < m => c = p /\ p <= n
    <3> SUFFICES ASSUME a = o, o <= n, m <= n, c < m PROVE c = p /\ p <= n
      OBVIOUS
    <3>1. hi # n
      BY <2>2
    <3>2. hi = o + PageSize /\ c = hi
      BY <2>2, <3>1
    <3> QED  BY <2>2, <3>2
  <2> QED  BY <1>9, <2>1, <2>3, <2>4
<1>14. ASSUME Amid(r) = {}, Distinct
       PROVE  /\ \A t \in Orders : \A i \in DOMAIN g : i \in DOMAIN t /\ g[i] = t[i]
              /\ Len(g) >= m => IsInjective(g) /\ ToSet(g) = Listed
  <2>1. ~Dropped(r) /\ ~Arrived(r) /\ Begun(r)
    BY <1>9, <1>14 DEF Dropped, Arrived
  <2>2. Len(f) = o /\ m = n
    BY <1>5, <1>6, <1>9, <2>1
  <2>3. ASSUME NEW t \in Orders, NEW i \in DOMAIN g PROVE i \in DOMAIN t /\ g[i] = t[i]
    <3>1. CASE i <= Len(f)
      <4>1. i \in DOMAIN f /\ g[i] = f[i]
        BY <1>5, <1>8, <3>1
      <4> QED  BY <2>1, <4>1 DEF Begun, f
    <3>2. CASE i > Len(f)
      <4>1. i - Len(f) \in 1..Len(page) /\ o + (i - Len(f)) = i
        BY <1>5, <1>8, <2>2, <3>2
      <4>2. i \in 1..n /\ page[i - Len(f)] = s[i]
        BY <1>5, <4>1
      <4>3. g[i] = s[i] /\ i \in DOMAIN s
        BY <1>5, <1>6, <1>8, <3>2, <4>2
      <4>4. s[i] = t[i]
        BY <1>1, <1>14, <4>3, OneOrder
      <4>5. DOMAIN t = DOMAIN s
        BY ListedFacts
      <4> QED  BY <4>3, <4>4, <4>5
    <3> QED  BY <1>5, <1>8, <3>1, <3>2
  <2>4. ASSUME Len(g) >= m PROVE IsInjective(g) /\ ToSet(g) = Listed
    <3>1. \A i \in DOMAIN g : i \in DOMAIN s /\ g[i] = s[i]
      BY <2>3
    <3>2. DOMAIN g = DOMAIN s
      <4>1. DOMAIN s \subseteq DOMAIN g
        BY <1>5, <1>6, <1>8, <2>2, <2>4
      <4> QED  BY <3>1, <4>1
    <3> QED  BY <3>1, <3>2, WholeOrder DEF IsInjective, ToSet
  <2> QED  BY <2>3, <2>4
<1> QED  BY <1>3, <1>5, <1>11, <1>12, <1>14 DEF g, p, n, m

\* What another request does leaves the file of this one as good as it was.
LEMMA FiledOthers ==
    ASSUME Trailing, Logged, Filing, NEW r \in Reqs, StepOf(r), NEW s \in Reqs \ {r}, Exporting(s)'
    PROVE  Filed(s)'
<1>1. Requesting /\ Moves(r)
  BY TrailCases DEF Trailing
<1>2. pc'[s] = pc[s] /\ q'[s] = q[s] /\ resp'[s] = resp[s] /\ prior'[s] = prior[s]
  BY <1>1 DEF Moves
<1>3. todo'[s] = todo[s] /\ view'[s] = view[s] /\ Said(s)' = Said(s)
  BY HistoryStep DEF Others
<1>4. Exporting(s) /\ pc[s] # "idle"
  BY <1>1, <1>2 DEF Exporting, Sent, Handler, Requesting, Kinds
<1>5. Filed(s)
  BY <1>4 DEF Filing
<1>6. /\ Cardinality(Listed) \in Nat /\ Cardinality(Listed)' \in Nat
      /\ ~Dropped(s)' => ~Dropped(s) /\ Cardinality(Listed) <= Cardinality(Listed)'
      /\ ~Arrived(s)' => ~Arrived(s) /\ Cardinality(Listed)' <= Cardinality(Listed)
      /\ Amid(s)' = {} => Amid(s) = {} /\ rows' = rows
  BY <1>4, AmidStep
<1>7. view[s].offset \in Nat /\ view[s].total \in Nat /\ Len(view[s].file) \in Nat
  <2>1. view[s].offset \in Nat /\ view[s].total \in Nat /\ view[s].file \in Seq(RowId)
    BY DEF Trailing, TrailTables, Views
  <2> QED  BY <2>1, LenProperties
<1>8. rows' = rows => (Distinct' <=> Distinct) /\ (Begun(s) => Begun(s)') /\ (FileWhole(s) => FileWhole(s)')
  BY <1>3 DEF Distinct, Begun, FileWhole, Orders, Listed, There
<1>9. ASSUME Collected(s) PROVE Collected(s)'
  <2> DEFINE n == Cardinality(Listed)
             k == Cardinality(Listed)'
             L == Len(view[s].file)
             o == view[s].offset
             m == view[s].total
             h == Head(todo[s])
  <2>1. /\ ~Dropped(s) => L = o /\ o <= n /\ (h = "page" => m <= n)
        /\ ~Arrived(s) => (L >= o \/ L >= n) /\ (h = "page" => m >= n)
        /\ Amid(s) = {} /\ Distinct => Begun(s)
    BY <1>9 DEF Collected
  <2>2. Amid(s)' = {} /\ Distinct' => Begun(s)'
    BY <1>6, <1>8, <2>1
  <2>3. PICK kk : kk = k
    OBVIOUS
  <2> HIDE DEF n, k, L, o, m, h
  <2>4. n \in Nat /\ kk \in Nat /\ o \in Nat /\ m \in Nat /\ L \in Nat
    BY <1>6, <1>7, <2>3 DEF n, k, o, m, L
  <2>5. /\ ~Dropped(s)' => L = o /\ o <= kk /\ (h = "page" => m <= kk)
        /\ ~Arrived(s)' => (L >= o \/ L >= kk) /\ (h = "page" => m >= kk)
    <3>1. /\ ~Dropped(s)' => ~Dropped(s) /\ n <= kk
          /\ ~Arrived(s)' => ~Arrived(s) /\ kk <= n
      BY <1>6, <2>3 DEF n, k
    <3> QED  BY <2>1, <2>4, <3>1
  <2> QED  BY <1>3, <2>2, <2>3, <2>5 DEF Collected, n, k, L, o, m, h
<1>10. Finishing(s)' <=> Finishing(s)
  BY <1>2, <1>3 DEF Finishing
<1>11. Finishing(s)' => (Amid(s)' = {} /\ Distinct' => FileWhole(s)')
  BY <1>5, <1>6, <1>8, <1>10 DEF Filed
<1> QED  BY <1>2, <1>3, <1>5, <1>9, <1>11 DEF Filed

\* An export that begins has read nothing.
LEMMA FiledBegins ==
    ASSUME Trailing, NEW r \in Reqs, Begins(r), Exporting(r)'
    PROVE  Filed(r)'
<1>1. /\ pc'[r] = "trail" /\ q'[r].handler \in DOMAIN Handlers /\ todo'[r] = Handlers[q'[r].handler] /\ view[r] = Nothing
      /\ view'[r] = view[r] /\ resp'[r] = "none"
  BY ElsewhereFrame DEF Begins, Trailing, Ready
<1>2. "page" \in ToSet(Handlers[q'[r].handler])
  BY DEF Exporting, Handler
<1>3. todo'[r] \in {<<"count", "page">>, <<"count", "page", "logExport">>}
  BY <1>1, <1>2, ExportPrograms
<1>4. todo'[r] \in Whiles /\ todo'[r] # <<"logExport">> /\ Head(todo'[r]) = "count"
  <2>1. todo'[r] \in Whiles
    BY <1>3 DEF Whiles
  <2>2. \A a, b, c : Head(<<a, b>>) = a /\ Head(<<a, b, c>>) = a
    OBVIOUS
  <2>3. Head(todo'[r]) = "count"
    BY <1>3, <2>2
  <2> QED  BY <2>1, <2>3, PlanSteps
<1>5. view'[r].file = <<>> /\ view'[r].offset = 0 /\ Len(<<>>) = 0 /\ DOMAIN <<>> = {}
  BY <1>1 DEF Nothing
<1>6. PICK n : n = Cardinality(Listed)'
  OBVIOUS
<1>7. n \in Nat
  <2>1. TrailTables' /\ UNCHANGED rows
    BY ElsewhereFrame
  <2>2. Listed' = Listed
    BY <2>1 DEF Listed, There
  <2> QED  BY <1>6, <2>2, ListedFacts
<1>8. Collected(r)'
  <2>1. Begun(r)'
    BY <1>5 DEF Begun
  <2>2. 0 <= n /\ 0 >= 0
    BY <1>7
  <2> QED  BY <1>4, <1>5, <1>6, <2>1, <2>2 DEF Collected
<1> QED  BY <1>1, <1>4, <1>8 DEF Filed, Finishing

\* A step of an export leaves its file as good as it was.
LEMMA FiledOwn ==
    ASSUME Trailing, Logged, Filing, NEW r \in Reqs, StepOf(r), OfTrail(r), pc[r] = "trail", Exporting(r)'
    PROVE  Filed(r)'
<1> DEFINE t == todo[r]
           a == Head(t)
           u == Tail(t)
<1>1. /\ Requesting /\ Kinds(r) /\ TrailTables /\ Ready(r) /\ q'[r] = q[r] /\ DOMAIN pc = Reqs /\ DOMAIN resp = Reqs
      /\ prior'[r] = prior[r] /\ TrailTables'
  BY TrailCases, TrailingStep DEF Trailing, Requesting, LocalsKnown
<1>2. Exporting(r) /\ Filed(r)
  <2>1. Exporting(r)
    BY <1>1 DEF Exporting, Sent, Handler
  <2> QED  BY <2>1 DEF Filing
<1>3. t \in Whiles \cup {<<"logExport">>}
  BY <1>2 DEF Filed
<1>4. /\ t \in Whiles => a \in {"count", "page"}
      /\ t \notin Whiles => a = "logExport" /\ t = <<"logExport">> /\ u = <<>>
      /\ a = "count" => u \in Whiles /\ Head(u) = "page"
      /\ a = "page" =>
           /\ u \in {<<>>, <<"logExport">>}
           /\ <<"count">> \o t \in Whiles /\ Head(<<"count">> \o t) = "count"
  BY <1>3, PlanSteps
<1>5. PICK S, T : Stepping(r, S, T) /\ Accounts(r, S) /\ History' = History \cup S /\ Said(r)' = Said(r) \cup T
  BY <1>1, TrailFrame
<1>6. a \in {"count", "page", "logExport"} /\ a \notin Changes /\ S = {}
  <2>1. a \in {"count", "page", "logExport"}
    BY <1>4
  <2>2. a \notin Changes
    BY <2>1 DEF Changes
  <2> QED  BY <1>5, <2>1, <2>2, OwnStep
<1>7. rows' = rows /\ History' = History
  <2>1. \A i \in RowId : rows'[i] = rows[i]
    BY <1>5, <1>6 DEF Accounts
  <2> QED  BY <1>1, <1>5, <1>6, <2>1 DEF TrailTables
<1>8. /\ Listed' = Listed /\ Orders' = Orders /\ (Distinct' <=> Distinct) /\ Amid(r)' = Amid(r)
      /\ (Dropped(r)' <=> Dropped(r)) /\ (Arrived(r)' <=> Arrived(r)) /\ Cardinality(Listed)' = Cardinality(Listed)
  <2>1. Listed' = Listed /\ Amid(r)' = Amid(r)
    BY <1>1, <1>7 DEF Listed, There, Amid
  <2> QED  BY <1>7, <2>1 DEF Orders, Distinct, Dropped, Arrived
<1>9. \/ pc'[r] = "done" /\ resp'[r] = "ok" /\ Proceed(r) /\ u = <<>>
      \/ pc'[r] = "done" /\ resp'[r] # "ok" /\ todo' = todo
      \/ pc'[r] = "trail" /\ Proceed(r) /\ todo'[r] = u /\ u # <<>>
      \/ pc'[r] = "trail" /\ Paging(r) /\ todo'[r] = <<"count">> \o t
  BY <1>5, ProgramStep
<1>10. <<"logExport">> \notin Whiles /\ <<>> \notin Whiles
  <2>1. PICK x : x = <<"logExport">>
    OBVIOUS
  <2>2. x \in Whiles => Head(x) \in {"count", "page"}
    BY <2>1, PlanSteps
  <2>3. Head(x) = "logExport"
    BY <2>1
  <2>4. <<>> \notin Whiles
    BY DEF Whiles
  <2> QED  BY <2>1, <2>2, <2>3, <2>4
<1> HIDE DEF t, a, u
<1>11. CASE pc'[r] = "done" /\ resp'[r] # "ok"
  BY <1>11 DEF Filed, Finishing
<1>12. CASE a = "count" /\ ~(pc'[r] = "done" /\ resp'[r] # "ok")
  <2>1. pc'[r] = "trail" /\ todo'[r] = u /\ u \in Whiles /\ Head(u) = "page" /\ u # <<>>
    <3>1. ~Paging(r) /\ u \in Whiles /\ Head(u) = "page"
      BY <1>4, <1>12 DEF Paging, a, t
    <3>2. u # <<>>
      BY <3>1 DEF Whiles
    <3> QED  BY <1>9, <1>12, <3>1, <3>2
  <2>2. Looks(r)
    <3>1. ~Refusing(r) /\ ~Failing(r) /\ ~Denying(r) /\ a \notin Logs
      <4>1. a \notin Logs /\ a \notin Follows
        BY <1>12 DEF Logs, ReadLogs, ChangeLogs, Follows
      <4>2. ~Stop(r, "refused") /\ ~Stop(r, "failed") /\ ~Stop(r, "denied")
        BY <1>1, <2>1 DEF Stop, Answer
      <4> QED  BY <4>1, <4>2 DEF Refusing, Failing, Denying
    <3>2. Reading(r) \/ Paging(r)
      BY <1>5, <1>6, <3>1 DEF Stepping, a, t
    <3> QED  BY <3>2 DEF Reading, Paging
  <2>3. /\ view'[r].file = view[r].file /\ view'[r].offset = view[r].offset
        /\ view'[r].total = Cardinality(Listed)
    BY <1>12, <2>2 DEF Looks, a, t
  <2>4. Collected(r)
    <3>1. t \in Whiles
      BY <1>4, <1>12
    <3> QED  BY <1>2, <3>1 DEF Filed, t
  <2>5. PICK n : n = Cardinality(Listed) /\ n \in Nat
    BY ListedFacts
  <2>6. n <= n /\ n >= n
    BY <2>5
  <2>7. Begun(r)' <=> Begun(r)
    BY <1>8, <2>3 DEF Begun
  <2>8. Collected(r)'
    BY <1>8, <2>1, <2>3, <2>4, <2>5, <2>6, <2>7 DEF Collected
  <2>9. todo'[r] # <<"logExport">> /\ todo'[r] \in Whiles
    BY <1>10, <2>1
  <2> QED  BY <2>1, <2>8, <2>9 DEF Filed, Finishing
<1>13. CASE a = "page" /\ ~(pc'[r] = "done" /\ resp'[r] # "ok")
  <2>1. ReadPage(r)
    <3>1. TrailStep(r) /\ \A x : At(r, x) => x = "page"
      BY <1>13 DEF OfTrail, At, a, t
    <3> HIDE DEF At
    <3>2. ~(Skip(r) \/ IfMatch(r) \/ Fetch(r) \/ Peek(r) \/ Insert(r) \/ Assign(r) \/ Update(r) \/ Amend(r))
      BY <3>1 DEF Skip, IfMatch, Fetch, Peek, Insert, Assign, Update, Amend
    <3>3. ~(Move(r) \/ LoadRow(r) \/ SaveRow(r) \/ Check(r) \/ Delete(r) \/ Replace(r) \/ Merge(r) \/ Decline(r))
      BY <3>1 DEF Move, LoadRow, SaveRow, Check, Delete, Replace, Merge, Decline
    <3>4. ~(Follow(r) \/ Password(r) \/ CountRows(r) \/ Admit(r))
      BY <3>1 DEF Follow, Password, CountRows, Admit
    <3>5. \A x, e : Log(r, x, e) => x = "page"
      BY <3>1 DEF Log
    <3>6. ~(LogResourceCreate(r) \/ LogResourceUpdate(r) \/ LogResourceUpdateWithChanges(r)
            \/ LogResourceDelete(r) \/ LogResourceDeleteWithSnapshot(r) \/ LogAmended(r) \/ LogMoved(r)
            \/ LogResourceUpdateAcrossOrgs(r) \/ LogRoleChange(r) \/ LogSuperAdminChange(r)
            \/ LogResourceImport(r) \/ LogDataExport(r) \/ LogAccessDenied(r))
      BY <3>5 DEF LogResourceCreate, LogResourceUpdate, LogResourceUpdateWithChanges, LogResourceDelete,
         LogResourceDeleteWithSnapshot, LogAmended, LogMoved, LogResourceUpdateAcrossOrgs, LogRoleChange,
         LogSuperAdminChange, LogResourceImport, LogDataExport, LogAccessDenied
    <3> QED  BY <3>1, <3>2, <3>3, <3>4, <3>6 DEF TrailStep
  <2>2. Collected(r) /\ t \in Whiles
    <3>1. t \in Whiles
      BY <1>4, <1>13
    <3> QED  BY <1>2, <3>1 DEF Filed, t
  <2>3. PICK g, o, m, n : g = view'[r].file /\ o = view'[r].offset /\ m = view[r].total /\ n = Cardinality(Listed)
    OBVIOUS
  <2>4. /\ g \in Seq(RowId) /\ view'[r].total = m
        /\ Len(g) >= m \/ Paging(r)
        /\ Len(g) >= m => Proceed(r)
        /\ ~Dropped(r) /\ Len(g) < m => Len(g) = o /\ o <= n
        /\ ~Arrived(r) => Len(g) >= o \/ Len(g) >= n
        /\ Amid(r) = {} /\ Distinct =>
             /\ \A s \in Orders : \A i \in DOMAIN g : i \in DOMAIN s /\ g[i] = s[i]
             /\ Len(g) >= m => IsInjective(g) /\ ToSet(g) = Listed
    BY <2>1, <2>2, <2>3, PageStep
  <2>5. Said(r)' = {} /\ Len(g) \in Nat /\ m \in Nat
    <3>1. a \in Reads /\ a \notin Logs
      BY <1>13 DEF Reads, Logs, ReadLogs, ChangeLogs
    <3>2. ~Refusing(r)
      BY <1>1, <1>9, <1>11, <1>13 DEF Refusing, Stop, Answer
    <3>3. Said(r) = {} /\ T = {}
      BY <1>5, <3>1, <3>2, OwnFacts, OwnStep DEF a, t
    <3>4. m \in Nat
      BY <1>1, <2>3 DEF TrailTables, Views
    <3> QED  BY <1>5, <2>4, <3>3, <3>4, LenProperties
  <2>6. CASE pc'[r] = "trail" /\ Paging(r) /\ todo'[r] = <<"count">> \o t
    <3>1. todo'[r] \in Whiles /\ Head(todo'[r]) = "count"
      BY <1>4, <1>13, <2>6
    <3>2. ~(Len(g) >= m)
      <4>1. ~Proceed(r)
        <5>1. todo[r] \in Seq(Steps) /\ todo[r] # <<>> /\ todo \in [Reqs -> Seq(Steps)]
          BY <1>1 DEF TrailTables, Ready
        <5>2. Proceed(r) => todo'[r] = Tail(todo[r])
          BY <5>1 DEF Proceed
        <5>3. todo'[r] # Tail(todo[r])
          BY <1>4, <1>10, <1>13, <3>1 DEF u, t
        <5> QED  BY <5>2, <5>3
      <4>2. Len(g) >= m => Proceed(r)
        BY <2>4
      <4> QED  BY <4>1, <4>2
    <3>3. Len(g) < m
      BY <2>5, <3>2
    <3>4. Begun(r)' <=> \A s \in Orders : \A i \in DOMAIN g : i \in DOMAIN s /\ g[i] = s[i]
      BY <1>8, <2>3 DEF Begun
    <3>5. Collected(r)'
      BY <1>8, <2>3, <2>4, <3>1, <3>3, <3>4 DEF Collected
    <3> QED  BY <1>10, <2>6, <3>1, <3>5 DEF Filed, Finishing
  <2>7. CASE ~Paging(r)
    <3>1. Len(g) >= m
      BY <2>4, <2>7
    <3>2. Amid(r)' = {} /\ Distinct' => FileWhole(r)'
      BY <1>8, <2>3, <2>4, <3>1 DEF FileWhole
    <3>3. pc'[r] = "trail" => todo'[r] = <<"logExport">>
      BY <1>4, <1>9, <1>13, <2>7
    <3> QED  BY <1>10, <2>5, <3>2, <3>3 DEF Filed
  <2>8. Paging(r) => pc'[r] = "trail" /\ todo'[r] = <<"count">> \o t
    BY <1>1 DEF Paging, TrailTables, t
  <2> QED  BY <2>6, <2>7, <2>8
<1>14. CASE a = "logExport" /\ ~(pc'[r] = "done" /\ resp'[r] # "ok")
  <2>1. t \notin Whiles /\ u = <<>> /\ t = <<"logExport">>
    BY <1>4, <1>14
  <2>2. pc'[r] = "done" /\ resp'[r] = "ok"
    BY <1>9, <1>14, <2>1 DEF Paging, a, t
  <2>3. Logging(r) /\ UNCHANGED view /\ Entered(r, T)
    BY <1>5, <1>6, <1>14 DEF Stepping, Reading, Paging, Refusing, Failing, Denying, Reads, Follows, Changes, a, t
  <2>4. Said(r) = {}
    <3>1. a \in Logs
      BY <1>14 DEF Logs, ReadLogs
    <3> QED  BY <3>1, OwnFacts DEF a, t
  <2>5. \A e \in T : e.ids = ToSet(view[r].file)
    BY <1>14, <2>3 DEF Entered, a, t
  <2>6. Finishing(r)
    BY <2>1 DEF Finishing, t
  <2>7. Amid(r)' = {} /\ Distinct' => FileWhole(r)'
    <3>1. Amid(r) = {} /\ Distinct => FileWhole(r)
      BY <1>2, <2>6 DEF Filed
    <3>2. FileWhole(r)' <=> FileWhole(r)
      BY <1>8, <2>3 DEF FileWhole
    <3> QED  BY <1>8, <3>1, <3>2
  <2>8. \A e \in Said(r)' : e.ids = ToSet(view'[r].file)
    BY <1>5, <2>3, <2>4, <2>5
  <2> QED  BY <2>2, <2>7, <2>8 DEF Filed
<1> QED  BY <1>6, <1>11, <1>12, <1>13, <1>14 DEF a

\* Every step of every request keeps the files whole.
LEMMA FilingStep ==
    ASSUME Trailing, Logged, Filing, NEW r \in Reqs, StepOf(r)
    PROVE  Filing'
<1>1. Elsewhere(r) \/ Begins(r) \/ (OfTrail(r) /\ pc[r] = "trail")
  BY TrailCases DEF Trailing
<1>2. ASSUME Exporting(r)' PROVE Filed(r)'
  <2>1. ~Elsewhere(r)
    BY <1>2 DEF Elsewhere, Exporting
  <2> QED  BY <1>1, <1>2, <2>1, FiledBegins, FiledOwn
<1>3. \A s \in Reqs \ {r} : Exporting(s)' => Filed(s)'
  BY FiledOthers
<1> QED  BY <1>2, <1>3 DEF Filing

\* What the exports have read is what there was to read.
LEMMA FilingInvariant == Spec => [](Trailing /\ Logged /\ Filing)
<1>1. Init => Trailing /\ Logged /\ Filing
  <2> SUFFICES ASSUME Init PROVE Trailing /\ Logged /\ Filing
    OBVIOUS
  <2>1. Trailing /\ \A r \in Reqs : ~Sent(r)
    BY TrailingInit DEF Init, Idle, Sent
  <2>2. Logged
    BY TrailingInit DEF Logged, Handled
  <2> QED  BY <2>1, <2>2 DEF Filing, Exporting
<1>2. Trailing /\ Logged /\ Filing /\ [Next]_vars => Filing'
  <2> SUFFICES ASSUME Trailing, Logged, Filing, [Next]_vars PROVE Filing'
    OBVIOUS
  <2>1. CASE UNCHANGED vars
    <3>1. UNCHANGED <<pc, q, resp, prior, rows, nextRow, trail, done, todo, view>>
      BY <2>1 DEF vars, requestVars, trailVars
    <3>2. /\ Listed' = Listed /\ History' = History /\ (Distinct' <=> Distinct) /\ Orders' = Orders
      BY <3>1 DEF Listed, There, History, Elements, Distinct, Orders
    <3>3. \A s : /\ Amid(s)' = Amid(s) /\ (Dropped(s)' <=> Dropped(s)) /\ (Arrived(s)' <=> Arrived(s))
                 /\ (Begun(s)' <=> Begun(s)) /\ (FileWhole(s)' <=> FileWhole(s)) /\ (Finishing(s)' <=> Finishing(s))
                 /\ (Exporting(s)' <=> Exporting(s)) /\ Said(s)' = Said(s)
      BY <3>1, <3>2 DEF Amid, Dropped, Arrived, Begun, FileWhole, Finishing, Exporting, Sent, Handler, Said, By
    <3>4. \A s : Collected(s)' <=> Collected(s)
      BY <3>1, <3>2, <3>3 DEF Collected
    <3>5. ASSUME NEW s \in Reqs, Filed(s) PROVE Filed(s)'
      BY <3>1, <3>2, <3>3, <3>4, <3>5 DEF Filed
    <3>6. \A s \in Reqs : Exporting(s)' => Filed(s)
      BY <3>3 DEF Filing
    <3> QED  BY <3>5, <3>6 DEF Filing
  <2>2. CASE \E r \in Reqs : StepOf(r)
    BY <2>2, FilingStep
  <2> QED  BY <2>1, <2>2 DEF Next, Finished, StepOf
<1> QED  BY <1>1, <1>2, LoggedInvariant, PTL DEF Spec

\* What the entries say is so: the values of a change are those it had, however requests
\* overlap, except that a request which did not state a version may be told of a row that
\* another one changed; a file has every row once if nothing changes while it is read and
\* no two rows have the same names, a workbook's entry names what the file has, and only
\* a deletion and a creation together make an export wait for rows that do not come.
THEOREM TrailIsTrue == Spec => []TrailTrue
<1>1. Trailing /\ Logged /\ Filing => FilesWhole
  BY FilingIsWhole
<1>2. ValuesTrue /\ FilesWhole => TrailTrue
  BY DEF TrailTrue
<1> QED  BY <1>1, <1>2, ValuesAreTrue, FilingInvariant, PTL
=============================================================================
