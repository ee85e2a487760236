-------------------------- MODULE IdempotentCreates ---------------------------
(***************************************************************************)
(* What an Idempotency-Key promises (POST /v1/sessions, createSession in   *)
(* src/api/server.ts): a create is one step.  It makes the session of its  *)
(* key when the key has none yet; it answers with that session when it     *)
(* asks for the same thing and the session is still recorded; or it fails  *)
(* and changes nothing.                                                    *)
(***************************************************************************)
CONSTANTS Request,     \* the creates, one sessionId each
          Key, KeyOf,  \* Idempotency-Keys; KeyOf[r] is the key r carries
          NoKey,       \* the request carries none
          Payload,     \* Payload[r]: what r asks for
          Nobody       \* no session

VARIABLES made,     \* made[k]: the session of key k
          answer,   \* answer[r]: how r ended
          recorded  \* the sessions on record

vars == <<made, answer, recorded>>

TypeOK == /\ made \in [Key -> Request \cup {Nobody}]
          /\ answer \in [Request -> {"none", "made", "same", "failed"}]
          /\ recorded \subseteq Request

Init == /\ made = [k \in Key |-> Nobody]
        /\ answer = [r \in Request |-> "none"]
        /\ recorded = {}

Made == {r \in Request : answer[r] = "made"}

Answer(r, with) == /\ answer[r] = "none"
                   /\ answer' = [answer EXCEPT ![r] = with]

\* The session is recorded, whether or not its client hears of it; older ones
\* may be forgotten for it.
Make(r) == /\ KeyOf[r] \in Key => made[KeyOf[r]] = Nobody
           /\ Answer(r, "made")
           /\ made' = [k \in Key |-> IF k = KeyOf[r] THEN r ELSE made[k]]
           /\ r \in recorded' /\ recorded' \subseteq recorded \cup {r}

Repeat(r) == /\ KeyOf[r] \in Key
             /\ made[KeyOf[r]] \in recorded
             /\ Payload[made[KeyOf[r]]] = Payload[r]
             /\ Answer(r, "same")
             /\ UNCHANGED <<made, recorded>>

Fail(r) == Answer(r, "failed") /\ UNCHANGED <<made, recorded>>

\* Records of sessions that were made come and go with deletes.
Prune == /\ recorded' \subseteq Made
         /\ UNCHANGED <<made, answer>>

Next == Prune \/ \E r \in Request : Make(r) \/ Repeat(r) \/ Fail(r)

Spec == Init /\ [][Next]_vars
=============================================================================
