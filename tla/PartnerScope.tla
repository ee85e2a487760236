---------------------------- MODULE PartnerScope -----------------------------
(***************************************************************************)
(* Partner keys of the /v1 API (src/api/provider-auth.ts and the routes of *)
(* src/api/server.ts that use it).  A key may stamp fields on the sessions *)
(* it makes (tenant, project, upstream provider) and may be limited to     *)
(* some regions and runtime profiles; what a key can list, read or delete  *)
(* is decided later, from the record alone.                                *)
(***************************************************************************)
EXTENDS Integers, FiniteSets

CONSTANTS PKey, Stamp, Limit,    \* keys; stamped fields; limited fields
          Value, Unset,
          StampOf,               \* StampOf[k][f]: what key k stamps, or Unset
          LimitOf,               \* LimitOf[k][l]: values allowed, {} for any
          EnabledKey,
          MaxMade                \* sessions made (a bound)

ASSUME PartnerAssumption ==
    /\ Unset \notin Value
    /\ StampOf \in [PKey -> [Stamp -> Value \cup {Unset}]]
    /\ LimitOf \in [PKey -> [Limit -> SUBSET Value]]
    /\ EnabledKey \subseteq PKey
    /\ MaxMade \in Nat

VARIABLES made,    \* the session records
          enders   \* history: who ended a session, Unset for an internal route

partnerVars == <<made, enders>>

Made == [n : 1..MaxMade, maker : PKey \cup {Unset},
         stamps : [Stamp -> Value \cup {Unset}],
         place : [Limit -> Value \cup {Unset}],
         status : {"running", "terminated"}]

PartnerTypeOK == made \subseteq Made /\ enders \in [1..MaxMade -> SUBSET PKey]

PartnerInit == made = {} /\ enders = [n \in 1..MaxMade |-> {}]

\* canPartnerAccessSession; an unset value in the record passes any limit.
InScope(s, k) ==
    /\ \A f \in Stamp : StampOf[k][f] # Unset => s.stamps[f] = StampOf[k][f]
    /\ \A l \in Limit : LimitOf[k][l] # {} /\ s.place[l] # Unset
                           => s.place[l] \in LimitOf[k][l]

\* filterSessionsForPartner; a query's filters and its limit only narrow it.
Visible(k) == {s \in made : InScope(s, k)}

\* applyPartnerScopeToCreateRequest answers 403 otherwise.
Allowed(k, stamps, place) ==
    /\ \A f \in Stamp : {StampOf[k][f], stamps[f]} \cap {Unset} # {}
                           \/ StampOf[k][f] = stamps[f]
    /\ \A l \in Limit : LimitOf[k][l] # {} /\ place[l] # Unset
                           => place[l] \in LimitOf[k][l]

\* A fault: the request's fields are checked and not stamped.
MergedAsAsked(k, stamps) == stamps

\* mergeProviderScope
Merged(k, stamps) ==
    [f \in Stamp |-> IF StampOf[k][f] # Unset THEN StampOf[k][f] ELSE stamps[f]]

\* POST /v1/sessions, and POST /sessions without a key.
Make(maker, stamps, place) ==
    /\ Cardinality(made) < MaxMade
    /\ made' = made \cup
         {[n |-> Cardinality(made) + 1, maker |-> maker, stamps |-> stamps,
           place |-> place, status |-> "running"]}
    /\ UNCHANGED enders

PartnerCreates(k) ==
    /\ k \in EnabledKey
    /\ \E stamps \in [Stamp -> Value \cup {Unset}],
          place \in [Limit -> Value \cup {Unset}] :
         /\ Allowed(k, stamps, place)
         /\ Make(k, Merged(k, stamps), place)

OperatorCreates ==
    \E stamps \in [Stamp -> Value \cup {Unset}],
       place \in [Limit -> Value \cup {Unset}] : Make(Unset, stamps, place)

Terminate1(s) == made' = (made \ {s}) \cup {[s EXCEPT !.status = "terminated"]}

\* DELETE /v1/sessions/:id is 404 out of scope, 204 without effect for a
\* session that has ended.
PartnerDeletes(k, s) ==
    /\ k \in EnabledKey
    /\ InScope(s, k)
    /\ s.status = "running"
    /\ Terminate1(s)
    /\ enders' = [enders EXCEPT ![s.n] = @ \cup {k}]

\* The session ends otherwise.
SessionEnds(s) == s.status = "running" /\ Terminate1(s) /\ UNCHANGED enders

PartnerNext ==
    \/ OperatorCreates
    \/ \E k \in PKey : PartnerCreates(k) \/ \E s \in made : PartnerDeletes(k, s)
    \/ \E s \in made : SessionEnds(s)

PartnerSpec == PartnerInit /\ [][PartnerNext]_partnerVars

\* Keys whose stamps contradict each other, as those of two tenants.
Apart(j, k) == \E f \in Stamp : /\ StampOf[j][f] # StampOf[k][f]
                                /\ Unset \notin {StampOf[j][f], StampOf[k][f]}

\* What a key makes, with whatever the request says, stays in its scope to be
\* listed and deleted, stays out of the scope of keys of other tenants or
\* projects, and is ended by none of them.
SessionsStayWithTheirKey ==
    \A s \in made : s.maker # Unset =>
      /\ s \in Visible(s.maker)
      /\ \A k \in PKey : Apart(k, s.maker) => s \notin Visible(k) /\ k \notin enders[s.n]
=============================================================================
