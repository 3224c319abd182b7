---------------------------- MODULE StorageProofs ----------------------------
(***************************************************************************)
(* Lemmas about one statement on the shared connection, for every type T   *)
(* of its tables: the controllers that use the connection have different   *)
(* tables and cite the same lemmas.                                        *)
(***************************************************************************)
EXTENDS Storage, TLAPS

StorageTypeOK(T) == db \in T /\ durable \in T /\ txOpen \in BOOLEAN

(* Whatever connection a statement runs on, it shows tables of the type.    *)
LEMMA ConnectionType ==
  ASSUME NEW T, StorageTypeOK(T), NEW c \in Connections
  PROVE  c.rows \in T /\ c.tx \in BOOLEAN
<1> USE DEF StorageTypeOK
<1>1. c = [rows |-> db, tx |-> txOpen] \/ c = [rows |-> durable, tx |-> FALSE]
  BY DEF Connections
<1>2. CASE c = [rows |-> db, tx |-> txOpen]
  BY <1>2
<1>3. CASE c = [rows |-> durable, tx |-> FALSE]
  BY <1>3
<1> QED
  BY <1>1, <1>2, <1>3

LEMMA LeavesType ==
  ASSUME NEW T, StorageTypeOK(T), NEW c \in Connections, NEW rows \in T, Leaves(c, rows)
  PROVE  StorageTypeOK(T)'
BY ConnectionType DEF StorageTypeOK, Leaves

LEMMA FailsType ==
  ASSUME NEW T, StorageTypeOK(T), NEW k, Fails(k)
  PROVE  StorageTypeOK(T)'
BY DEF StorageTypeOK, Fails, storageVars

LEMMA TransactionType ==
  ASSUME NEW T, StorageTypeOK(T), NEW ok \in BOOLEAN, Begin(ok) \/ Commit(ok)
  PROVE  StorageTypeOK(T)'
<1>1. CASE Fails("write")
  BY <1>1, FailsType
<1>2. CASE ~Fails("write")
  BY <1>2, ConnectionType DEF StorageTypeOK, Begin, Commit
<1> QED
  BY <1>1, <1>2
(* What a statement leaves is pending only within a transaction.            *)
LEMMA LeavesNothingPending ==
  ASSUME NEW c \in Connections, NEW rows, Leaves(c, rows)
  PROVE  NothingPending'
BY DEF NothingPending, Leaves

LEMMA FailsNothingPending ==
  ASSUME NothingPending, NEW k, Fails(k)
  PROVE  NothingPending'
BY DEF NothingPending, Fails, storageVars

LEMMA TransactionNothingPending ==
  ASSUME NothingPending, NEW ok \in BOOLEAN, Begin(ok) \/ Commit(ok)
  PROVE  NothingPending'
<1>1. CASE Fails("write")
  BY <1>1, FailsNothingPending
<1>2. CASE ~Fails("write") /\ Begin(ok)
  BY <1>2 DEF NothingPending, Begin
<1>3. ASSUME NEW c \in Connections, db' = c.rows, txOpen' = FALSE,
             durable' = IF c.tx THEN c.rows ELSE durable
      PROVE  NothingPending'
  <2>1. c = [rows |-> db, tx |-> txOpen] \/ c = [rows |-> durable, tx |-> FALSE]
    BY DEF Connections
  <2> QED
    BY <1>3, <2>1 DEF NothingPending
<1> QED
  BY <1>1, <1>2, <1>3 DEF Commit
------------------------------------------------------------------------------
(* No SELECT fails, and no transaction is lost with its connection.         *)
NoLostReads == Faults \subseteq {"write", "crash"}

(* Without lost reads a statement runs on the connection there is, a        *)
(* failing one changes nothing, and a SELECT does not fail.                *)
LEMMA ReliableConnection ==
  ASSUME NoLostReads
  PROVE  /\ Connections = {[rows |-> db, tx |-> txOpen]}
         /\ \A k : Fails(k) => UNCHANGED storageVars
         /\ ~Fails("select")
BY DEF NoLostReads, Connections, Fails

(* Transactions of others leave what the connection shows.                  *)
LEMMA ReliableTransaction ==
  ASSUME NoLostReads, NEW ok \in BOOLEAN, Begin(ok) \/ Commit(ok)
  PROVE  db' = db
BY ReliableConnection DEF Begin, Commit, storageVars
==============================================================================
