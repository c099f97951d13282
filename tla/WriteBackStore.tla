---------------------------- MODULE WriteBackStore ----------------------------
(***************************************************************************)
(* What the key/value API of the library promises about durability, with  *)
(* no error codes: a volatile store that callers update, and a database   *)
(* that receives the whole store in one write-back.  Access is either     *)
(* open or closed.  A write-back closes access; access is reopened by a   *)
(* cancel or an init; the process restarts only while access is closed,  *)
(* and the new process starts from the database.                          *)
(*                                                                         *)
(* An update takes two steps: a caller is admitted with its key and value *)
(* only while access is open, and applies them to the store later, even  *)
(* after access closed.  A restart drops every admitted update that was   *)
(* not applied.                                                            *)
(***************************************************************************)
CONSTANTS
    Keys,       \* the resources whose values are stored
    Values,     \* the values of a key, including "no value"
    Callers,    \* the callers that update the store
    None        \* no admitted update

Updates == Keys \X Values

ASSUME None \notin Updates

VARIABLES
    store,      \* store[k]: the value a read returns now
    db,         \* db[k]: the value in the database
    open,       \* access is open: the library is initialized and not locked
    pending     \* pending[c]: the update caller c was admitted with, or None

absVars == <<store, db, open, pending>>

TypeOK ==
    /\ store \in [Keys -> Values]
    /\ db \in [Keys -> Values]
    /\ open \in BOOLEAN
    /\ pending \in [Callers -> Updates \cup {None}]

Init ==
    /\ db \in [Keys -> Values]
    /\ store = db
    /\ open = TRUE
    /\ pending = [c \in Callers |-> None]

\* caller c is admitted to set k to v; only while access is open
Admit(c, k, v) ==
    /\ open /\ pending[c] = None
    /\ pending' = [pending EXCEPT ![c] = <<k, v>>]
    /\ UNCHANGED <<store, db, open>>

\* the admitted update of c lands in the store, whether access is open or not
Apply(c) ==
    /\ pending[c] # None
    /\ store' = [store EXCEPT ![pending[c][1]] = pending[c][2]]
    /\ pending' = [pending EXCEPT ![c] = None]
    /\ UNCHANGED <<db, open>>

\* the whole store is written to the database, and access is closed
WriteBack ==
    /\ db' = store
    /\ open' = FALSE
    /\ UNCHANGED <<store, pending>>

\* access is opened again, nothing is written
Reopen ==
    /\ ~open /\ open' = TRUE
    /\ UNCHANGED <<store, db, pending>>

\* with access closed, the process ends and the next one loads the database
Restart ==
    /\ ~open
    /\ store' = db
    /\ open' = TRUE
    /\ pending' = [c \in Callers |-> None]
    /\ UNCHANGED db

Next ==
    \/ \E c \in Callers, k \in Keys, v \in Values : Admit(c, k, v)
    \/ \E c \in Callers : Apply(c)
    \/ WriteBack
    \/ Reopen
    \/ Restart

Spec == Init /\ [][Next]_absVars
====
