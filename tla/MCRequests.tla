------------------------------ MODULE MCRequests ------------------------------
(* Requests on a few requests. *)
EXTENDS Requests

CONSTANTS t1, t2, exporter, alice, bob

Request(token, roles, sub, valid) ==
  [token |-> token, roles |-> [roles |-> roles, scp |-> {}],
   actors |-> [oid |-> NULL, sub |-> sub], header |-> bob, valid |-> valid]

ActorOrder == <<"oid", "sub">>

\* Requests that require_admin_read or their parameters end, and one that is served.
EachFate ==
  {Request("good", {"OTHER"}, alice, TRUE),
   Request("good", {"ADMIN_READ"}, alice, TRUE),
   Request("good", {"ADMIN_AUDIT"}, NULL, FALSE)}
===============================================================================
