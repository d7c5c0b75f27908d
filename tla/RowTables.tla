----------------------------- MODULE RowTables -----------------------------
(***************************************************************************)
(* What the row handlers of requests.go promise their clients, stated      *)
(* without handlers: tables that only grow, a success answer to a          *)
(* submission only for rows that are stored, and a read that answers with  *)
(* the table as it is at one moment after the read was received.           *)
(*                                                                         *)
(* A read in progress is rd[r]: the table and keys it asks for, the rows   *)
(* acknowledged before it began (seen) and, once served, its result.       *)
(***************************************************************************)
EXTENDS FiniteSets

CONSTANTS
    Tables,       \* the tables the handlers write and read
    Row,          \* the rows a table can hold
    Requests      \* goroutines serving requests at the same time

VARIABLES
    tables,       \* tables[t]: the rows stored in table t
    acked,        \* <<t, x>>: a submission was answered success for row x of t
    rd            \* rd[r]: the read request r is serving, if any

vars == <<tables, acked, rd>>

\* A request that is not reading.
NoRead == [pc |-> "idle", tbl |-> CHOOSE t \in Tables : TRUE, keys |-> {},
           seen |-> {}, result |-> {}]

\* The rows of table t whose key is one of ks.
Select(tab, t, ks) == {x \in tab[t] : x[1] \in ks}

Init ==
    /\ tables = [t \in Tables |-> {}]
    /\ acked = {}
    /\ rd = [r \in Requests |-> NoRead]

\* A row is written to a table.
Store(t, x) ==
    /\ tables' = [tables EXCEPT ![t] = @ \cup {x}]
    /\ UNCHANGED <<acked, rd>>

\* A submission is answered success for rows X of table t, all stored.
Ack(t, X) ==
    /\ X \subseteq tables[t]
    /\ acked' = acked \cup {<<t, x>> : x \in X}
    /\ UNCHANGED <<tables, rd>>

\* A read of the rows of t under keys ks is received.
StartRead(r, t, ks) ==
    /\ rd[r].pc = "idle"
    /\ rd' = [rd EXCEPT ![r] = [pc |-> "reading", tbl |-> t, keys |-> ks,
                                seen |-> acked, result |-> {}]]
    /\ UNCHANGED <<tables, acked>>

\* The read takes the rows as they are now.
Serve(r) ==
    /\ rd[r].pc = "reading"
    /\ rd' = [rd EXCEPT ![r] = [pc |-> "answer", tbl |-> rd[r].tbl, keys |-> rd[r].keys,
                                seen |-> rd[r].seen,
                                result |-> Select(tables, rd[r].tbl, rd[r].keys)]]
    /\ UNCHANGED <<tables, acked>>

\* The read is answered, with its result or with an error.
Stop(r) ==
    /\ rd[r].pc \in {"reading", "answer"}
    /\ rd' = [rd EXCEPT ![r] = NoRead]
    /\ UNCHANGED <<tables, acked>>

Next ==
    \/ \E t \in Tables, x \in Row : Store(t, x)
    \/ \E t \in Tables, X \in SUBSET Row : Ack(t, X)
    \/ \E r \in Requests :
          \/ \E t \in Tables, ks \in SUBSET {x[1] : x \in Row} : StartRead(r, t, ks)
          \/ Serve(r)
          \/ Stop(r)

Spec == Init /\ [][Next]_vars

=============================================================================
