------------------------- MODULE ApplicationRegistry -------------------------
(***************************************************************************)
(* What ApplicationsService.create promises to a beneficiary app (BAP): it *)
(* is one atomic "get or create".  A request that names a transaction and  *)
(* a BAP is bound to a matching registered application when there is one,  *)
(* and registers a new application only when there is none.                *)
(*                                                                         *)
(* An application is named by the call that created it: the autoincrement  *)
(* id of its row is unique and nothing else about the id matters.          *)
(***************************************************************************)
CONSTANTS
  Call,                \* create requests, retries included
  Request,             \* what a call may ask for
  None,                \* "no request yet", "no application yet"
  Matches(_, _)        \* Matches(q, r): the lookup made for q selects a row made for r

VARIABLES
  request,             \* request[c]: what call c asks for, None before it is sent
  registered,          \* the applications that exist
  bound                \* bound[c]: the application call c was resolved to

vars == <<request, registered, bound>>

Init ==
  /\ request = [c \in Call |-> None]
  /\ registered = {}
  /\ bound = [c \in Call |-> None]

\* Candidates the lookup may return; findFirst has no ORDER BY, so any of them.
Existing(c) == {a \in registered : Matches(request[c], request[a])}

Send(c) ==
  /\ request[c] = None
  /\ \E r \in Request : request' = [request EXCEPT ![c] = r]
  /\ UNCHANGED <<registered, bound>>

\* The atomic step: reuse a matching application or register a new one.
Bind(c) ==
  /\ request[c] # None
  /\ bound[c] = None
  /\ \/ /\ Existing(c) # {}
        /\ \E a \in Existing(c) : bound' = [bound EXCEPT ![c] = a]
        /\ UNCHANGED registered
     \/ /\ Existing(c) = {}
        /\ registered' = registered \union {c}
        /\ bound' = [bound EXCEPT ![c] = c]
  /\ UNCHANGED request

Next == \E c \in Call : Send(c) \/ Bind(c)

Spec == Init /\ [][Next]_vars
=============================================================================
