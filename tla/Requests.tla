------------------------------- MODULE Requests -------------------------------
(***************************************************************************)
(* What the modules of an organization's records have in common: clients    *)
(* that each send one HTTP request, the statement each request is at, and    *)
(* its answer.  A request is handled by one goroutine; statements of         *)
(* different requests interleave.                                            *)
(***************************************************************************)
EXTENDS Integers, FiniteSets, Sequences

CONSTANTS
    Reqs,        \* clients
    NoRequest,   \* nothing sent yet
    NoRow        \* an id without a row

VARIABLES
    menu,    \* what each client may send
    pc,      \* the request's next statement
    q,       \* its body
    resp,    \* its answer
    prior    \* the requests that had been answered when it was sent

clientVars == <<menu, prior>>
requestVars == <<menu, pc, q, resp, prior>>

Answer(r, code) == pc' = [pc EXCEPT ![r] = "done"] /\ resp' = [resp EXCEPT ![r] = code]
Goto(r, stage) == pc' = [pc EXCEPT ![r] = stage] /\ UNCHANGED resp

\* One of the bodies a client may send; where its handler begins is the module's to say.
Submit(r) ==
    /\ pc[r] = "idle"
    /\ \E k \in menu[r] : q' = [q EXCEPT ![r] = k]
    /\ prior' = [prior EXCEPT ![r] = {s \in Reqs : pc[s] = "done"}]

Idle(offers) ==
    /\ menu = offers
    /\ pc = [r \in Reqs |-> "idle"] /\ q = [r \in Reqs |-> NoRequest]
    /\ resp = [r \in Reqs |-> "none"] /\ prior = [r \in Reqs |-> {}]

Sent(r) == q[r] # NoRequest
Overlap(r, s) == r # s /\ r \notin prior[s] /\ s \notin prior[r]
=============================================================================
