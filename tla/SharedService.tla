--------------------------- MODULE SharedService ---------------------------
(***************************************************************************)
(* What the daemon promises about monitoring and caching: any number of    *)
(* users may join a service, one at a time they leave it, and the service  *)
(* runs exactly as long as it has a user.  Whom else the daemon serves,    *)
(* what fails and what the requests to the remote look like is not visible *)
(* here.  IcdEncap implements this specification (see Service there).      *)
(***************************************************************************)
CONSTANTS Services, Users
VARIABLES users,   \* the users of each service
          running  \* the services that run

Init ==
  /\ users = [s \in Services |-> {}]
  /\ running = {}

Join(s, u) ==
  /\ u \notin users[s]
  /\ users' = [users EXCEPT ![s] = @ \cup {u}]
  /\ running' = running \cup {s}

Leave(s, u) ==
  /\ u \in users[s]
  /\ users' = [users EXCEPT ![s] = @ \ {u}]
  /\ running' = IF users[s] = {u} THEN running \ {s} ELSE running

Next == \E s \in Services, u \in Users : Join(s, u) \/ Leave(s, u)

Spec == Init /\ [][Next]_<<users, running>>
=============================================================================
