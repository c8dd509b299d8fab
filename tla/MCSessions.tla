----------------------------- MODULE MCSessions -----------------------------
(* Small instances of Sessions: one account, passwords and links as model  *)
(* values, requests interchangeable.                                       *)
EXTENDS SerialSessions, TLC

CONSTANTS k1, k2  \* two clients of one account

RequestSymmetry ==
  Permutations(Worker) \cup Permutations(Generated) \cup Permutations(ResetLink)

(* The view of the concurrent run leaves out what none of its properties   *)
(* can tell apart any more: credEra and retired, which they do not read;   *)
(* the history in a request that has written or never writes a session;    *)
(* the lineage of an empty slot; the overtaken revocations that came       *)
(* before every login still at work; and the cookie of the second client,  *)
(* which no action reads.  By symmetry the first stands for any client.    *)
WritesSession(r) == r.at \in {"checked", "issued"}
Essential(r) == IF WritesSession(r) THEN [r EXCEPT !.old = None]
                                    ELSE [r EXCEPT !.old = None, !.root = 0, !.seen = 0]
Lineages(a) == {lineage[a] : e \in IF Session(a) THEN {a} ELSE {}} \cup {era[a]} \cup
               {req[w].root : w \in {v \in Worker : WritesSession(req[v])}}
Overtaken(a) == {e \in crossed[a] : \E l \in Lineages(a) : l < e}

WithoutUnread ==
  <<now, row, [w \in Worker |-> Essential(req[w])], held, cookie[k1], known, mailed, used,
    era, [a \in Account |-> IF Session(a) THEN lineage[a] ELSE 0],
    [a \in Account |-> Overtaken(a)], spent, lost>>
=============================================================================
