------------------------------ MODULE SortedSet ------------------------------
(***************************************************************************)
(* The Redis sorted sets behind storage/sorted_redis.go, as operators on a *)
(* set of entries.  An entry is a record with at least the fields          *)
(*    jid    the job the member's JSON is about                            *)
(*    score  the float64 score, here an abstract time                      *)
(* and the remaining fields are what the member's JSON holds.  Redis runs  *)
(* one command at a time, so each operator is one atomic step of its       *)
(* caller.                                                                 *)
(***************************************************************************)
EXTENDS Naturals, FiniteSets

\* AddElement: ZADD of a member that differs from every other member.
AddElement(S, e) == S \cup {e}

\* getScore: every member whose score is exactly t.
getScore(S, t) == {e \in S : e.score = t}

(***************************************************************************)
(* The members that rem(t, jid) may delete.  A single member at score t is *)
(* deleted without looking at its jid; among several, the one that         *)
(* mentions jid is.  When shared is FALSE two jobs never have the same     *)
(* float64 score, so only the job's own member can be found.  The ZREM     *)
(* that follows the ZRANGEBYSCORE names the member itself: what happens to *)
(* other members in between does not matter, and when this one was removed *)
(* the reply is the one for an absent member.  Nobody puts it back: the    *)
(* reaper does so only while the reservation is in memory, and the callers *)
(* of RemoveElement have cleared it before.                                *)
(***************************************************************************)
rem(S, t, jid, shared) ==
    LET at == getScore(S, t)
    IN  IF shared /\ Cardinality(at) = 1
        THEN at
        ELSE {e \in at : e.jid = jid}

\* Fault: members are taken before they are due.
DueEarly(S, t) == {e \in S : e.score <= t + 1}

\* The members that are due at t: ZRANGEBYSCORE -inf t.
Due(S, t) == {e \in S : e.score <= t}

(***************************************************************************)
(* The results ZRANGEBYSCORE -inf t LIMIT n may return in RemoveBefore: at *)
(* most n due members, the lowest scores first.  The order of members with *)
(* equal scores is the order of their bytes, which nothing here depends    *)
(* on, so any choice among them is allowed.                                *)
(***************************************************************************)
Batches(S, t, n) ==
    {B \in SUBSET Due(S, t) :
        /\ \/ Cardinality(B) = n
           \/ Cardinality(B) < n /\ B = Due(S, t)
        /\ \A e \in B, f \in Due(S, t) \ B : e.score <= f.score}

\* The members of a batch that the loop of RemoveBefore may take next.
First(B) == {e \in B : \A f \in B : e.score <= f.score}

=============================================================================
