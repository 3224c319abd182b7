------------------------------- MODULE Storage -------------------------------
(***************************************************************************)
(* The one SQLite connection that every controller of the server shares    *)
(* (database/Storage.cpp).  A statement runs alone under Storage::_mutex,  *)
(* so each operator below describes one whole call of InternalExecute.     *)
(*                                                                         *)
(* The content of the tables is left to the modules that use this one: db  *)
(* is a record with one field per table.  What SQLite itself does (a       *)
(* transaction belongs to the connection and not to the thread that began  *)
(* it, a failed statement may or may not roll the transaction back) is     *)
(* external to this repository and is modelled from how Storage uses it.   *)
(***************************************************************************)

CONSTANTS
  Faults     \* what may go wrong, see AllFaults

(***************************************************************************)
(*   select    a SELECT fails                                              *)
(*   write     a BEGIN, COMMIT, INSERT, UPDATE or DELETE fails             *)
(*   rollback  a failing statement also ends the open transaction, as      *)
(*             SQLite may do on a full disk or an I/O error                *)
(*   reopen    a statement answers SQLITE_CANTOPEN: the connection is      *)
(*             closed, opened again and the statement retried              *)
(*   crash     the process stops and systemd starts it again               *)
(***************************************************************************)
AllFaults == {"select", "write", "rollback", "reopen", "crash"}

ASSUME FaultsAssumption == Faults \subseteq AllFaults

VARIABLES
  db,        \* the tables as the connection sees them, its transaction included
  durable,   \* the tables as committed to the file
  txOpen     \* the connection has a transaction open

storageVars == <<db, durable, txOpen>>

(***************************************************************************)
(* The connection a statement finally runs on: the current one, or, after  *)
(* SQLITE_CANTOPEN, a new one that knows nothing of an open transaction.   *)
(***************************************************************************)
Connections ==
  {[rows |-> db, tx |-> txOpen]}
    \cup {[rows |-> durable, tx |-> FALSE] : f \in Faults \cap {"reopen"}}

(* A statement that leaves the tables as rows on connection c. *)
Leaves(c, rows) ==
  /\ db' = rows
  /\ durable' = IF c.tx THEN durable ELSE rows
  /\ txOpen' = c.tx

(* A statement that fails and changes no table, except that the            *)
(* transaction may be gone.                                                *)
Fails(kind) ==
  /\ kind \in Faults
  /\ \/ UNCHANGED storageVars
     \/ /\ "rollback" \in Faults
        /\ db' = durable
        /\ txOpen' = FALSE
        /\ UNCHANGED durable

(* Storage::Begin.  BEGIN inside a transaction is an error of SQLite. *)
Begin(ok) ==
  \/ \E c \in Connections :
       /\ ok = ~c.tx
       /\ db' = c.rows
       /\ txOpen' = TRUE
       /\ UNCHANGED durable
  \/ ok = FALSE /\ Fails("write")

(* Storage::Commit.  COMMIT outside a transaction is an error of SQLite. *)
Commit(ok) ==
  \/ \E c \in Connections :
       /\ ok = c.tx
       /\ db' = c.rows
       /\ durable' = IF c.tx THEN c.rows ELSE durable
       /\ txOpen' = FALSE
  \/ ok = FALSE /\ Fails("write")

(* The process ends, by a crash or by the Quit request, whose destructor    *)
(* closes the connection: SQLite drops an open transaction either way.     *)
Reconnects ==
  /\ db' = durable
  /\ txOpen' = FALSE
  /\ UNCHANGED durable

(***************************************************************************)
(* Outside a transaction nothing is pending: what the connection sees is   *)
(* what survives a crash.                                                  *)
(***************************************************************************)
NothingPending == ~txOpen => db = durable
==============================================================================
