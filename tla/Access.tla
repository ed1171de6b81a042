------------------------------- MODULE Access -------------------------------
(***************************************************************************)
(* Who a request speaks for and which customers it may reach.  Translated  *)
(* from app/api/deps.py, app/core/auth.py and app/security/scope.py; the   *)
(* signature and the encoding of a token are left out, so a token is the   *)
(* account it names and the time that is left to it.                       *)
(***************************************************************************)

\* settings.app_env
Environments == {"local", "dev", "staging", "prod"}
IsDevelopment(env) == env \in {"local", "dev"}

Roles == {"customer", "advisor", "operator"}
Nobody == "nobody"

Principals(accounts, customers) ==
  [subject : accounts \cup {Nobody}, role : Roles, customer : customers \cup {Nobody}]

\* The operator a request without a token is taken for in local and dev.
LocalOperator == [subject |-> Nobody, role |-> "operator", customer |-> Nobody]

PrincipalOf(subject, row) ==
  [subject |-> subject, role |-> row.role, customer |-> row.customer]

NoToken == [subject |-> Nobody, expired |-> FALSE]
Tokens(accounts) == [subject : accounts, expired : BOOLEAN]

\* verify_jwt
Valid(token) == ~token.expired

\* current_principal: the role and the customer come from the account row, not
\* from the token's claims.  The set is empty where the request is refused.
PrincipalsFor(token, account, env) ==
  IF token = NoToken
    THEN IF IsDevelopment(env) THEN {LocalOperator} ELSE {}
    ELSE {PrincipalOf(a, account[a]) :
            a \in {b \in DOMAIN account :
                     b = token.subject /\ Valid(token) /\ account[b].active}}

\* require_customer_access, require_scope_access, require_operator
HasAccess(who, customer) ==
  \/ who.role \in {"advisor", "operator"}
  \/ who.role = "customer" /\ who.customer = customer

IsOperator(who) == who.role = "operator"

=============================================================================
