------------------------- MODULE PublicationLedger -------------------------
(***************************************************************************)
(* What the table `publications` promises, without tasks, threads or       *)
(* transactions.  An entry is recorded once and for all, confirmed only    *)
(* under a tag (mid) the broker has answered, and leaves only when it is   *)
(* purged with its device; it never turns unconfirmed and never returns.   *)
(***************************************************************************)
EXTENDS Naturals

CONSTANTS Pubs, MaxMid

VARIABLES
    entry,    \* "absent", "awaiting", "confirmed" or "purged"
    acked,    \* publications the broker acknowledged
    tag       \* their mids, 0 before they are submitted

Init ==
    /\ entry = [p \in Pubs |-> "absent"]
    /\ acked = {}
    /\ tag = [p \in Pubs |-> 0]

Submit(p) ==
    /\ tag[p] = 0
    /\ \E m \in 1..MaxMid : tag' = [tag EXCEPT ![p] = m]
    /\ UNCHANGED <<entry, acked>>

Answer(p) ==
    /\ tag[p] # 0
    /\ p \notin acked
    /\ acked' = acked \cup {p}
    /\ UNCHANGED <<entry, tag>>

Record(p) ==
    /\ tag[p] # 0
    /\ entry[p] = "absent"
    /\ entry' = [entry EXCEPT ![p] = "awaiting"]
    /\ UNCHANGED <<acked, tag>>

\* One acknowledgement confirms present entries of its tag, and only those.
Confirm(q) ==
    /\ q \in acked
    /\ \E S \in SUBSET {p \in Pubs : /\ tag[p] = tag[q]
                                     /\ entry[p] \in {"awaiting", "confirmed"}} :
          entry' = [p \in Pubs |-> IF p \in S THEN "confirmed" ELSE entry[p]]
    /\ UNCHANGED <<acked, tag>>

Purge ==
    /\ \E S \in SUBSET {p \in Pubs : entry[p] \in {"awaiting", "confirmed"}} :
          entry' = [p \in Pubs |-> IF p \in S THEN "purged" ELSE entry[p]]
    /\ UNCHANGED <<acked, tag>>

Next ==
    \/ \E p \in Pubs : Submit(p) \/ Answer(p) \/ Record(p) \/ Confirm(p)
    \/ Purge

Spec == Init /\ [][Next]_<<entry, acked, tag>>
=============================================================================
