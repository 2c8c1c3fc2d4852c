------------------------------- MODULE MCLogins -------------------------------
(* Instances of Logins: tables to start from, and what up to three clients send. *)
EXTENDS Logins, Sequences

CONSTANTS r1, r2, r3, pw1, pw2, key1

Plain == [kind |-> "login", token |-> 1, pw |-> pw1, newPw |-> pw2, active |-> FALSE,
          factor |-> 1, type |-> "totp", code |-> NoCode, key |-> NoKey, nonce |-> 0, target |-> 1]
Ask(kind) == [Plain EXCEPT !.kind = kind]
With(k, code) == [k EXCEPT !.code = code, !.factor = IF code = NoCode THEN 1 ELSE code.factor]
CodeOf(f, n) == [factor |-> f, n |-> n]
Verify(code) == With(Ask("verify"), code)
OnFactor(kind, f, code) == [Ask(kind) EXCEPT !.factor = f, !.code = code]

Row(type, on) ==
    [type |-> type, on |-> on, fails |-> 0, challenge |-> type = "webauthn" /\ ~on,
     last |-> IF type = "webauthn" THEN NoSecret ELSE Unused,
     key |-> IF type = "webauthn" /\ on THEN key1 ELSE NoKey,
     codes |-> IF type = "backup" THEN {1} ELSE {}]
Table(rows) == [f \in Factor |-> IF f \in DOMAIN rows THEN rows[f] ELSE NoRow]
Signed(kind) == [kind |-> kind, expired |-> FALSE, fails |-> 0, nonce |-> 0, by |-> NoReq]
Tokens(kinds) == [t \in Token |-> IF t \in DOMAIN kinds THEN Signed(kinds[t]) ELSE NoRow]

Scenario(rows, kinds, offers) ==
    [user |-> [pw |-> pw1, active |-> TRUE, deleted |-> FALSE],
     factors |-> Table(rows), sessions |-> Tokens(kinds), menu |-> offers,
     nextFactor |-> Len(rows) + 1, nextToken |-> Len(kinds) + 1, nextCode |-> 2]
Menu(a, b, c) == [r \in Reqs |-> CASE r = r1 -> a [] r = r2 -> b [] r = r3 -> c]

Account == {Ask("change"), Ask("reset"), Ask("setActive"), Ask("delete"), Ask("purge")}
Tries == {Verify(CodeOf(1, 1)), Verify(CodeOf(2, 1)), Verify(NoCode)}
Withdrawals ==
    {[k EXCEPT !.token = 2] : k \in
        {OnFactor("deleteFactor", 1, CodeOf(1, 1)), OnFactor("deleteFactor", 1, CodeOf(2, 1)),
         OnFactor("regenerate", 2, CodeOf(1, 2)), OnFactor("regenerate", 1, CodeOf(2, 1))}}

\* Answers to one login, and requests that spend or withdraw codes.
SecondFactor ==
    Scenario(<<Row("totp", TRUE), Row("backup", TRUE)>>, <<"pending", "regular">>,
        Menu(Tries,
             Tries \cup Withdrawals \cup {Ask("login")} \cup {[k EXCEPT !.token = 2] : k \in Account}, {}))

\* Three wrong codes at once.
Guesses ==
    Scenario(<<Row("totp", TRUE)>>, <<"pending">>,
        Menu({Verify(NoCode)}, {Verify(NoCode)}, {Verify(NoCode), Verify(CodeOf(1, 1))}))

\* A factor being activated while it is replaced, removed or activated again.
Enrolment ==
    Scenario(<<Row("totp", FALSE)>>, <<"regular">>,
        Menu({OnFactor("activate", 1, CodeOf(1, 1)), OnFactor("activate", 1, NoCode)},
             {Ask("enrol"), [Ask("enrol") EXCEPT !.type = "webauthn"], Ask("login"), Ask("purge"),
              OnFactor("activate", 1, CodeOf(1, 1)), OnFactor("activate", 1, NoCode),
              OnFactor("deleteFactor", 1, NoCode)},
             {}))

\* Two primary factors, removed at once, or while the user logs in.
Removal ==
    Scenario(<<Row("totp", TRUE), Row("webauthn", TRUE), Row("backup", TRUE)>>, <<"regular">>,
        Menu({OnFactor("deleteFactor", 1, CodeOf(1, 1))},
             {OnFactor("deleteFactor", 2, CodeOf(1, 2)), OnFactor("deleteFactor", 2, CodeOf(3, 1)),
              OnFactor("deleteFactor", 3, NoCode), Ask("login")}, {}))

\* A security key: challenged, asserted, and registered a second time.
SecurityKey ==
    Scenario(<<Row("webauthn", FALSE), Row("webauthn", TRUE)>>, <<"pending", "regular">>,
        Menu({[Ask("activate") EXCEPT !.token = 2, !.key = key1], [Ask("challenge") EXCEPT !.factor = 2],
              Ask("challenge")},
             {[Ask("verify") EXCEPT !.factor = 2, !.key = key1, !.nonce = 1], Ask("verify"),
              Ask("setActive"), Ask("delete"), Ask("login")}, {}))

Registration ==
    Scenario(<<Row("webauthn", FALSE)>>, <<"regular">>,
        Menu({[Ask("activate") EXCEPT !.key = key1]},
             {[Ask("activate") EXCEPT !.key = key1], Ask("activate"), Ask("delete")}, {}))

\* The password and the sessions.
Signing ==
    Scenario(<<>>, <<"regular", "regular">>,
        Menu({Ask("login"), Ask("logout"), [Ask("revoke") EXCEPT !.target = 2]} \cup Account,
             {[Ask("login") EXCEPT !.pw = pw2], [Ask("setActive") EXCEPT !.active = TRUE]} \cup Account, {}))

MCScenarios ==
    {SecondFactor, Guesses, Enrolment, Removal, SecurityKey, Registration, Signing}
=============================================================================
