----------------------------- MODULE SerialStore -----------------------------
(***************************************************************************)
(* What the transactions of a Firestore database promise their clients: the *)
(* database moves from state to state, one commit at a time; everything a   *)
(* transaction is shown belongs to one of those states; and a read-write    *)
(* transaction commits only when everything it was shown is still true, so  *)
(* that the committed transactions behave as if they ran one after another. *)
(***************************************************************************)
EXTENDS Naturals, Sequences

CONSTANTS Docs, Values, Absent, Ids, Batches,
          Passes(_, _), Applied(_, _), check_precondition(_, _)

VARIABLES db,         \* the documents
          past,       \* every state of the database, the last is db
          seen,       \* what each transaction was shown
          committed   \* the read-write transactions that committed

vars == <<db, past, seen, committed>>

\* An observation is a document with its value, or a query with all its rows.
Holds(o, state) ==
    CASE o[1] = "document" -> state[o[2]] = o[3]
      [] o[1] = "query" -> {d \in Docs : Passes(o[2], state[d])} = {r[1] : r \in o[3]}
                           /\ \A r \in o[3] : state[r[1]] = r[2]

AllHold(observations, state) == \A o \in observations : Holds(o, state)

Result(w, state) ==
    [d \in Docs |-> IF d \in DOMAIN w THEN Applied(w[d], state[d]) ELSE state[d]]

Init ==
    /\ db \in [Docs -> Values \cup {Absent}]
    /\ past \in {<<[d \in Docs |-> Absent], db>>, <<db>>}
    /\ seen = [t \in Ids |-> {}]
    /\ committed = {}

\* All a transaction is shown is true of one state of the database.
Observe(t) ==
    /\ t \notin committed
    /\ seen[t] \subseteq seen'[t]
    /\ \E i \in DOMAIN past : AllHold(seen'[t], past[i])
    /\ \A u \in Ids \ {t} : seen'[u] = seen[u]
    /\ UNCHANGED <<db, past, committed>>

Apply(w) ==
    /\ \A d \in DOMAIN w : check_precondition(w[d], db[d])
    /\ db' = Result(w, db)
    /\ past' = IF db' = db THEN past ELSE Append(past, db')
    /\ UNCHANGED seen

Write(w) == Apply(w) /\ UNCHANGED committed

Commit(t, w) ==
    /\ t \notin committed
    /\ AllHold(seen[t], db)
    /\ Apply(w)
    /\ committed' = committed \cup {t}

Next ==
    \/ \E t \in Ids : Observe(t)
    \/ \E w \in Batches : Write(w) \/ \E t \in Ids : Commit(t, w)

Spec == Init /\ [][Next]_vars
=============================================================================
