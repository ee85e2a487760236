----------------------------- MODULE IsolatedVMs ------------------------------
(***************************************************************************)
(* What the slots of a host promise to the launches that use them          *)
(* (FirecrackerOrchestrator in src/node-agent/firecracker.ts): a launch    *)
(* has one slot to itself, from before its VM starts to after the VM has   *)
(* been cleared away; a slot that is out of service is nobody's; and what  *)
(* happens to a VM is the doing of its own launch.  For that reason every  *)
(* step below concerns one launch and leaves the others as they are.       *)
(***************************************************************************)
CONSTANTS Slot,    \* the network slots
          Launch,  \* the launches
          Nowhere  \* no slot

VARIABLES place,   \* place[l]: the slot of l
          life,    \* life[l]: how far l and its VM are
          repair   \* slots that are out of service

vars == <<place, life, repair>>

Life == {"out", "placed", "alive", "exited", "clearing", "cleared"}

TypeOK == /\ place \in [Launch -> Slot \cup {Nowhere}]
          /\ life \in [Launch -> Life]
          /\ repair \subseteq Slot

Init == /\ place = [l \in Launch |-> Nowhere]
        /\ life = [l \in Launch |-> "out"]
        /\ repair = {}

Vacant(s) == \A l \in Launch : place[l] # s

Becomes(l, from, to) == /\ life[l] \in from
                        /\ life' = [life EXCEPT ![l] = to]

Take(l, s) == /\ Vacant(s)
              /\ Becomes(l, {"out"}, "placed")
              /\ place' = [place EXCEPT ![l] = s]

\* A slot in service is taken.
Claim(l, s) == /\ s \notin repair
               /\ Take(l, s)
               /\ UNCHANGED repair

\* A vacant slot goes out of service, and comes back, perhaps to be taken.
Break(s) == /\ Vacant(s)
            /\ repair' = repair \cup {s}
            /\ UNCHANGED <<place, life>>

Mend(s) == /\ s \in repair
           /\ repair' = repair \ {s}
           /\ \/ UNCHANGED <<place, life>>
              \/ \E l \in Launch : Take(l, s)

\* The VM of l starts, exits by itself, and is cleared away.
Boot(l) == Becomes(l, {"placed"}, "alive") /\ UNCHANGED <<place, repair>>

Exits(l) == Becomes(l, {"alive"}, "exited") /\ UNCHANGED <<place, repair>>

Clear(l) == Becomes(l, {"alive", "exited"}, "clearing") /\ UNCHANGED <<place, repair>>

Cleared(l) == Becomes(l, {"clearing"}, "cleared") /\ UNCHANGED <<place, repair>>

\* l gives its slot back, or out of service.
Leave(l) == /\ Becomes(l, {"placed", "cleared"}, "out")
            /\ place' = [place EXCEPT ![l] = Nowhere]
            /\ repair' \in {repair, repair \cup {place[l]}}

Next == \/ \E s \in Slot : Break(s) \/ Mend(s) \/ \E l \in Launch : Claim(l, s)
        \/ \E l \in Launch : Boot(l) \/ Exits(l) \/ Clear(l) \/ Cleared(l) \/ Leave(l)

Spec == Init /\ [][Next]_vars
=============================================================================
