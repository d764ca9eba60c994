---- MODULE Approvals ----
(***************************************************************************)
(* The store of requests that wait for consent (approvals.rs): a status    *)
(* per request, of which the listener holds a copy in memory and the file  *)
(* approvals.json another.  Its operations are operators on such a copy;   *)
(* FrontDesk says when they are called and when the file follows.          *)
(***************************************************************************)

CONSTANTS
  Ask,       \* the requests that may ever need an approval
  Chat       \* the chats they come from: the keys of the records

\* "none" is the status of an id that has no record.
Status == {"none", "pending", "approved", "denied", "expired"}

Records == [Ask -> Status]

NoRecords == [a \in Ask |-> "none"]

\* expire_pending: what is pending and past its expiry becomes expired.
ExpirePending(records, due) ==
  [a \in Ask |-> IF records[a] = "pending" /\ a \in due THEN "expired" ELSE records[a]]

\* create: a record with an id of its own.
Created(records, a) == [records EXCEPT ![a] = "pending"]

\* The conditions of transition: there is such a record, it was made in the
\* chat that decides, and nobody has decided.
Decidable(records, origin, a, c) ==
  /\ records[a] # "none"
  /\ origin[a] = c
  /\ records[a] = "pending"

\* transition: the record takes the status it was given.
Decided(records, a, status) == [records EXCEPT ![a] = status]

====
