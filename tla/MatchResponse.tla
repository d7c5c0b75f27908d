---------------------------- MODULE MatchResponse ----------------------------
(***************************************************************************)
(* What requestAllMatchesHandler promises its client, stated without the   *)
(* map, the sort or the comparator: while the rows are read the set of     *)
(* merged match keys grows, or the request fails; once the rows are all   *)
(* read, the answer is either the merged keys, each once, in the order     *)
(* Precedes, or an error, and an error of the sort only when some merged   *)
(* key is Unknown (a level the ordering does not list).                    *)
(***************************************************************************)
EXTENDS Naturals, Sequences

CONSTANTS
    Keys,            \* match keys
    Precedes(_, _),  \* the order of the answer
    Unknown(_)       \* the keys the order cannot place

VARIABLES
    phase,      \* "assemble", "sort", "done" (answered) or "failed" (error)
    merged,     \* the keys of the merged matches
    response    \* the answer, once phase = "done"

vars == <<phase, merged, response>>

\* s lists the set S, each element once, in the order Precedes.
OrderedListOf(s, S) ==
    /\ s \in Seq(Keys)
    /\ {s[k] : k \in DOMAIN s} = S
    /\ \A p, q \in DOMAIN s : p < q => Precedes(s[p], s[q]) /\ s[p] # s[q]

Init ==
    /\ phase = "assemble"
    /\ merged = {}
    /\ response = << >>

\* A row is merged into the match of key k.
Merge(k) ==
    /\ phase = "assemble"
    /\ merged' = merged \cup {k}
    /\ UNCHANGED <<phase, response>>

\* Reading a row failed.
MergeFail ==
    /\ phase = "assemble"
    /\ phase' = "failed"
    /\ UNCHANGED <<merged, response>>

\* Every row is read.
StartSort ==
    /\ phase = "assemble"
    /\ phase' = "sort"
    /\ UNCHANGED <<merged, response>>

\* The merged matches are answered in order.
Respond ==
    /\ phase = "sort"
    /\ phase' = "done"
    /\ OrderedListOf(response', merged)
    /\ UNCHANGED merged

\* The matches cannot be ordered.
Reject ==
    /\ phase = "sort"
    /\ \E k \in merged : Unknown(k)
    /\ phase' = "failed"
    /\ UNCHANGED <<merged, response>>

Next ==
    \/ \E k \in Keys : Merge(k)
    \/ MergeFail
    \/ StartSort
    \/ Respond
    \/ Reject

Spec == Init /\ [][Next]_vars

=============================================================================
