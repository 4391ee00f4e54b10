--------------------------- MODULE VolumeRegistry ---------------------------
(***************************************************************************)
(* What the controller's state is for, seen from its clients: a durable    *)
(* registry of volumes (id to dataset) and of their publishes to nodes.    *)
(* The registry has no memory to lose and no in-between states, and what   *)
(* it tells a client is what it holds.                                     *)
(***************************************************************************)
CONSTANTS Ids, Nodes, Datasets, NoDataset

VARIABLES known,      \* the dataset of every registered id, or NoDataset
          attached,   \* <<id, node>> publishes of registered ids
          told        \* the last answer about each id

vars == <<known, attached, told>>

Absent == "absent"
Unknown == "unknown"

TypeOK ==
    /\ known \in [Ids -> Datasets \cup {NoDataset}]
    /\ attached \subseteq {p \in Ids \X Nodes : known[p[1]] # NoDataset}
    /\ told \in [Ids -> Datasets \cup {Absent, Unknown}]

Init ==
    /\ known = [i \in Ids |-> NoDataset]
    /\ attached = {}
    /\ told = [i \in Ids |-> Unknown]

Tell(i, answer) == told' = [told EXCEPT ![i] = answer]

\* An id is registered.  The caller is told, or is left without an answer.
Register(i, d) ==
    /\ known' = [known EXCEPT ![i] = d]
    /\ Tell(i, d) \/ Tell(i, Unknown)
    /\ UNCHANGED attached

\* An id is removed together with its publishes.
Remove(i) ==
    /\ known' = [known EXCEPT ![i] = NoDataset]
    /\ attached' = {p \in attached : p[1] # i}
    /\ Tell(i, Absent) \/ Tell(i, Unknown)

\* An answer about an id changes nothing and says what the registry holds.
Answer(i) ==
    /\ Tell(i, IF known[i] = NoDataset THEN Absent ELSE known[i])
    /\ UNCHANGED <<known, attached>>

Attach(i, n) ==
    /\ known[i] # NoDataset
    /\ attached' = attached \cup {<<i, n>>}
    /\ UNCHANGED <<known, told>>

Detach(i, n) ==
    /\ attached' = attached \ {<<i, n>>}
    /\ UNCHANGED <<known, told>>

Next == \E i \in Ids : \/ \E d \in Datasets : Register(i, d)
                       \/ Remove(i)
                       \/ Answer(i)
                       \/ \E n \in Nodes : Attach(i, n) \/ Detach(i, n)

Spec == Init /\ [][Next]_vars
=============================================================================
