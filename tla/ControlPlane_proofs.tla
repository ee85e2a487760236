------------------------- MODULE ControlPlane_proofs -------------------------
(***************************************************************************)
(* Proofs about ControlPlane, for any requests, keys and payloads, any     *)
(* retention, one or two listener processes, with and without store        *)
(* faults; what is said of the event log is said of one process and no     *)
(* store faults.                                                           *)
(***************************************************************************)
EXTENDS ControlPlane, TLAPS

SameKey(q, r) == KeyOf[q] = KeyOf[r] /\ KeyOf[r] # NoKey

\* The part of the state the proofs are about, with its types.
KeyTypeOK ==
    /\ create \in [Request -> Created \cup {"new", "creating", "replayed",
                                            "refused", "failed", "unreleased"}]
    /\ idem \in [Key -> Request \cup {Nobody}]

\* A session created under a key is the one its record names, so a request that
\* comes later is not sent to an agent.
RecordNamesCreated ==
    \A r \in Request : create[r] \in Created /\ KeyOf[r] # NoKey => idem[KeyOf[r]] = r

\* A request waits for the agent only while its key has no record ...
CreatingIsUnrecorded ==
    \A r \in Request : create[r] = "creating" /\ KeyOf[r] # NoKey => idem[KeyOf[r]] = Nobody

\* ... and no other request does so with the same key.
OneCreatingPerKey ==
    \A q, r \in Request :
      create[q] = "creating" /\ create[r] = "creating" /\ SameKey(q, r) => q = r

\* A replayed answer is the one the record of the key still names.
ReplaysMatch ==
    \A r \in Request : create[r] = "replayed" =>
      /\ KeyOf[r] # NoKey
      /\ idem[KeyOf[r]] # Nobody
      /\ Payload[idem[KeyOf[r]]] = Payload[r]

\* The part of the inductive invariant behind KeyNamesOneSession and RepliesAgree.
KeyInv == /\ KeyTypeOK
          /\ RecordNamesCreated
          /\ CreatingIsUnrecorded
          /\ OneCreatingPerKey
          /\ ReplaysMatch

\* The actions that touch neither an answer nor an idempotency record.
Elsewhere == UNCHANGED <<create, idem>>

LEMMA InitKeyInv == Init => KeyInv
  BY DEF Init, KeyInv, KeyTypeOK, RecordNamesCreated, CreatingIsUnrecorded,
     OneCreatingPerKey, ReplaysMatch, Created

LEMMA ElsewhereKeyInv == KeyInv /\ Elsewhere => KeyInv'
  BY DEF Elsewhere, KeyInv, KeyTypeOK, RecordNamesCreated, CreatingIsUnrecorded,
     OneCreatingPerKey, ReplaysMatch

\* A request that ends without a session of its own takes nothing away.
LEMMA EndsKeyInv ==
  ASSUME KeyInv, NEW r \in Request,
         NEW how \in {"replayed", "refused", "failed", "unreleased"},
         Create(r, how), UNCHANGED idem,
         how = "replayed" => Known(r) /\ Replayable(r)
  PROVE  KeyInv'
  BY DEF Create, KeyInv, KeyTypeOK, RecordNamesCreated, CreatingIsUnrecorded,
     OneCreatingPerKey, ReplaysMatch, SameKey, Created, Known, Replayable

\* A create is sent to the agent when its key has no record and, with clients
\* that await their answers, no other create under the key is under way.
LEMMA ReservesKeyInv ==
  ASSUME KeyInv, Sequential, NEW r \in Request, CreateReserves(r) PROVE KeyInv'
  <1>1. /\ create' = [create EXCEPT ![r] = "creating"]
        /\ idem' = idem
        /\ KeyOf[r] # NoKey => idem[KeyOf[r]] = Nobody
    BY DEF CreateReserves, Create, Known
  <1>2. \A q \in Request : SameKey(q, r) => create[q] # "creating"
    BY DEF CreateReserves, Arrives, SameKey, Answering
  <1> QED
    BY <1>1, <1>2 DEF KeyInv, KeyTypeOK, RecordNamesCreated,
       CreatingIsUnrecorded, OneCreatingPerKey, ReplaysMatch, SameKey, Created

\* The first commit writes the record of the key with the session.
LEMMA CommitsKeyInv ==
  ASSUME KeyInv, NEW r \in Request, CreateCommits(r) PROVE KeyInv'
  <1>1. /\ create[r] = "creating"
        /\ create' = [create EXCEPT ![r] = "committed"]
        /\ idem' = [k \in Key |-> IF k = KeyOf[r] THEN r ELSE idem[k]]
    BY DEF CreateCommits, Create
  <1>2. KeyTypeOK'
    BY <1>1 DEF KeyInv, KeyTypeOK, Created
  <1>3. \A q \in Request : KeyOf[q] # NoKey => KeyOf[q] \in Key
    BY RequestAssumption
  <1>4. RecordNamesCreated'
    <2> SUFFICES ASSUME NEW q \in Request, create'[q] \in Created, KeyOf[q] # NoKey
                 PROVE  idem'[KeyOf[q]] = q
      BY DEF RecordNamesCreated
    <2>1. CASE q = r
      BY <1>1, <1>3, <2>1
    <2>2. CASE q # r
      <3>1. create[q] \in Created
        BY <1>1, <2>2 DEF KeyInv, KeyTypeOK
      <3>2. idem[KeyOf[q]] = q
        BY <3>1 DEF KeyInv, RecordNamesCreated
      <3>3. KeyOf[q] # KeyOf[r]
        BY <1>1, <3>2, RequestAssumption DEF KeyInv, CreatingIsUnrecorded
      <3> QED BY <1>1, <1>3, <3>2, <3>3
    <2> QED BY <2>1, <2>2
  <1>5. CreatingIsUnrecorded'
    <2> SUFFICES ASSUME NEW q \in Request, create'[q] = "creating", KeyOf[q] # NoKey
                 PROVE  idem'[KeyOf[q]] = Nobody
      BY DEF CreatingIsUnrecorded
    <2>1. q # r /\ create[q] = "creating"
      BY <1>1 DEF KeyInv, KeyTypeOK
    <2>2. KeyOf[q] # KeyOf[r]
      BY <1>1, <2>1 DEF KeyInv, OneCreatingPerKey, SameKey
    <2> QED BY <1>1, <1>3, <2>1, <2>2 DEF KeyInv, CreatingIsUnrecorded
  <1>6. OneCreatingPerKey'
    BY <1>1 DEF KeyInv, KeyTypeOK, OneCreatingPerKey, SameKey
  <1>7. ReplaysMatch'
    <2> SUFFICES ASSUME NEW q \in Request, create'[q] = "replayed"
                 PROVE  /\ KeyOf[q] # NoKey
                        /\ idem'[KeyOf[q]] # Nobody
                        /\ Payload[idem'[KeyOf[q]]] = Payload[q]
      BY DEF ReplaysMatch
    <2>1. create[q] = "replayed"
      BY <1>1 DEF KeyInv, KeyTypeOK
    <2>2. KeyOf[q] # KeyOf[r]
      BY <1>1, <2>1 DEF KeyInv, ReplaysMatch, CreatingIsUnrecorded
    <2> QED BY <1>1, <1>3, <2>1, <2>2 DEF KeyInv, ReplaysMatch
  <1> QED BY <1>2, <1>4, <1>5, <1>6, <1>7 DEF KeyInv

\* The second commit only moves a committed create on.
LEMMA CommitsAgainKeyInv ==
  ASSUME KeyInv, NEW r \in Request, CreateCommitsAgain(r), create[r] = "committed"
  PROVE  KeyInv'
  <1>1. PICK how \in {"created", "unconfirmed"} :
          create' = [create EXCEPT ![r] = how]
    BY DEF CreateCommitsAgain, Create
  <1>2. idem' = idem
    BY DEF CreateCommitsAgain
  <1> QED
    BY <1>1, <1>2 DEF KeyInv, KeyTypeOK, RecordNamesCreated,
       CreatingIsUnrecorded, OneCreatingPerKey, ReplaysMatch, SameKey, Created

(***************************************************************************)
(* Types                                                                   *)
(***************************************************************************)
\* A commit keeps records and events of their types, whichever it prunes.
LEMMA CommitTypes ==
  ASSUME TypeOK, NEW r \in Request, NEW status \in Status, NEW event \in BOOLEAN,
         Commit(r, status, event)
  PROVE  /\ session' \in [Request -> Status \cup {"none"}]
         /\ lastEvent' \in [Request -> Status \cup {"none"}]
  <1> DEFINE s == [session EXCEPT ![r] = status]
             e == IF event THEN [lastEvent EXCEPT ![r] = status] ELSE lastEvent
  <1>1. /\ s \in [Request -> Status \cup {"none"}]
        /\ e \in [Request -> Status \cup {"none"}]
    BY DEF TypeOK
  <1>2. PICK P \in Pruned(s) :
          /\ session' = [q \in Request |-> IF q \in P THEN "none" ELSE s[q]]
          /\ lastEvent' = [q \in Request |-> IF q \in P THEN "none" ELSE e[q]]
    BY DEF Commit
  <1> HIDE DEF s, e
  <1> QED BY <1>1, <1>2

\* Every step of a create keeps the types.
LEMMA CreateTypes ==
  ASSUME TypeOK, NEW r \in Request, CreateStep(r) \/ ReservationExpires(r)
  PROVE  TypeOK'
  <1>1. CASE CreateReplayed(r) \/ CreateUnreserved(r) \/ CreateThrows(r)
    <2>1. PICK how \in {"replayed", "refused", "unreleased"} :
            create' = [create EXCEPT ![r] = how]
      BY <1>1 DEF CreateReplayed, CreateUnreserved, CreateThrows, Create
    <2>2. UNCHANGED <<store, deletes, busy, agentVars>>
      BY <1>1 DEF CreateReplayed, CreateUnreserved, CreateThrows
    <2> QED BY <2>1, <2>2 DEF TypeOK, store, agentVars
  <1>2. CASE CreateReserves(r)
    BY <1>2 DEF CreateReserves, Create, TypeOK
  <1>3. CASE CreateRemoteFails(r)
    BY <1>3 DEF CreateRemoteFails, Create, TypeOK, agentVars
  <1>4. CASE CreateCommits(r)
    <2>1. /\ session' \in [Request -> Status \cup {"none"}]
          /\ lastEvent' \in [Request -> Status \cup {"none"}]
      BY <1>4, CommitTypes DEF CreateCommits, Status
    <2> QED BY <1>4, <2>1
        DEF CreateCommits, Create, GoOn, Public, Created, Work, TypeOK, agentVars
  <1>5. CASE CreateCommitsAgain(r)
    <2>1. /\ session' \in [Request -> Status \cup {"none"}]
          /\ lastEvent' \in [Request -> Status \cup {"none"}]
      BY <1>5, CommitTypes DEF CreateCommitsAgain, Status, TypeOK
    <2>2. PICK how \in {"created", "unconfirmed"} :
            create' = [create EXCEPT ![r] = how]
      BY <1>5 DEF CreateCommitsAgain, Create
    <2>3. /\ busy' = [busy EXCEPT ![Public] = Nobody]
          /\ UNCHANGED <<idem, reserved, deletes, agentVars>>
      BY <1>5 DEF CreateCommitsAgain, GoOn
    <2> QED BY <2>1, <2>2, <2>3 DEF Public, Created, TypeOK, agentVars
  <1>6. CASE ReservationExpires(r)
    BY <1>6 DEF ReservationExpires, TypeOK, agentVars
  <1> QED BY <1>1, <1>2, <1>3, <1>4, <1>5, <1>6 DEF CreateStep

\* So does every step of a delete ...
LEMMA DeleteTypes ==
  ASSUME TypeOK, NEW r \in Request, DeleteStep(r) \/ DropLost(r) PROVE TypeOK'
  <1>1. CASE DeleteBegins(r)
    <2>1. /\ busy' \in {busy, [busy EXCEPT ![Public] = [does |-> "delete", of |-> r]]}
          /\ deletes' \subseteq Request
          /\ drops' \subseteq Request
      BY <1>1 DEF DeleteBegins, GoOn, TypeOK
    <2>2. UNCHANGED <<store, create, vm, posts>>
      BY <1>1 DEF DeleteBegins
    <2>3. CASE busy' = busy
      BY <2>1, <2>2, <2>3 DEF TypeOK, store
    <2>4. CASE busy' = [busy EXCEPT ![Public] = [does |-> "delete", of |-> r]]
      BY <2>1, <2>2, <2>4 DEF Public, Work, TypeOK, store
    <2> QED BY <2>1, <2>3, <2>4
  <1>2. CASE DeleteCommits(r)
    <2>1. /\ session' \in [Request -> Status \cup {"none"}]
          /\ lastEvent' \in [Request -> Status \cup {"none"}]
      BY <1>2, CommitTypes DEF DeleteCommits, Status
    <2> QED BY <1>2, <2>1 DEF DeleteCommits, GoOn, Public, TypeOK
  <1>3. CASE DeleteReturns(r)
    <2>1. /\ session' \in [Request -> Status \cup {"none"}]
          /\ lastEvent' \in [Request -> Status \cup {"none"}]
      BY <1>3, CommitTypes DEF DeleteReturns, Status
    <2> QED BY <1>3, <2>1 DEF DeleteReturns, TypeOK, agentVars
  <1>4. CASE DeleteThrows(r)
    BY <1>4 DEF DeleteThrows, GoOn, Public, TypeOK, store, agentVars
  <1>5. CASE DropLost(r)
    BY <1>5 DEF DropLost, TypeOK, store
  <1> QED BY <1>1, <1>2, <1>3, <1>4, <1>5 DEF DeleteStep

\* ... of a PATCH ...
LEMMA PatchTypes ==
  ASSUME TypeOK, NEW r \in Request, PatchStep(r) PROVE TypeOK'
  <1>1. CASE PatchWrites(r)
    <2>1. PICK st \in Status :
            /\ session' = [session EXCEPT ![r] = st]
            /\ busy' = [busy EXCEPT ![Internal] =
                          [does |-> "append", of |-> r, status |-> st]]
      BY <1>1 DEF PatchWrites, GoOn
    <2>2. UNCHANGED <<lastEvent, idem, reserved, create, deletes, agentVars>>
      BY <1>1 DEF PatchWrites
    <2> QED BY <2>1, <2>2 DEF Internal, Work, TypeOK, agentVars
  <1>2. CASE PatchAppends(r)
    <2>1. PICK st \in Status : lastEvent' = [lastEvent EXCEPT ![r] = st]
      BY <1>2 DEF PatchAppends
    <2>2. /\ busy' = [busy EXCEPT ![Internal] = Nobody]
          /\ UNCHANGED <<session, idem, reserved, create, deletes, agentVars>>
      BY <1>2 DEF PatchAppends, GoOn
    <2> QED BY <2>1, <2>2 DEF Internal, TypeOK, agentVars
  <1>3. CASE PatchThrows(r)
    BY <1>3 DEF PatchThrows, GoOn, Internal, TypeOK, store, agentVars
  <1> QED BY <1>1, <1>2, <1>3 DEF PatchStep

\* ... of a report on its way ...
LEMMA PostTypes ==
  ASSUME TypeOK, NEW m \in posts, PatchBegins(m) \/ PostLost(m) PROVE TypeOK'
  <1>1. m \in Post
    BY DEF TypeOK
  <1>2. CASE PatchBegins(m)
    <2>1. posts' \subseteq Post
      BY <1>2 DEF PatchBegins, TypeOK
    <2>2. CASE UNCHANGED busy
      BY <1>2, <2>1, <2>2 DEF PatchBegins, TypeOK, store
    <2>3. CASE busy' = [busy EXCEPT ![Internal] =
                          [does |-> "patch", of |-> m.of, status |-> m.status]]
      BY <1>1, <1>2, <2>1, <2>3 DEF PatchBegins, Internal, Work, TypeOK, store, Post
    <2> QED BY <1>2, <2>2, <2>3 DEF PatchBegins, GoOn
  <1>3. CASE PostLost(m)
    BY <1>3 DEF PostLost, TypeOK, store
  <1> QED BY <1>2, <1>3

\* ... and of the agent.
LEMMA AgentTypes ==
  ASSUME TypeOK, NEW r \in Request, AgentStep(r) PROVE TypeOK'
  <1>0. /\ vm \in [Request -> {"none", "starting", "up", "refused", "over"}]
        /\ posts \subseteq Post
        /\ drops \subseteq Request
    BY DEF TypeOK
  <1>1. /\ vm' \in [Request -> {"none", "starting", "up", "refused", "over"}]
        /\ posts' \subseteq Post
        /\ drops' \subseteq Request
    <2>0. \A st \in Status : [of |-> r, status |-> st] \in Post
      BY DEF Post
    <2>1. CASE AgentLaunches(r)
      BY <1>0, <2>1 DEF AgentLaunches
    <2>2. CASE AgentReports(r)
      BY <1>0, <2>0, <2>2 DEF AgentReports, Status
    <2>3. CASE AgentEnds(r)
      BY <1>0, <2>0, <2>3 DEF AgentEnds, Status
    <2>4. CASE AgentDeletes(r)
      BY <1>0, <2>0, <2>4 DEF AgentDeletes, Status
    <2> QED BY <2>1, <2>2, <2>3, <2>4 DEF AgentStep
  <1>2. UNCHANGED <<store, create, deletes, busy>>
    BY DEF AgentStep, AgentLaunches, AgentReports, AgentEnds, AgentDeletes
  <1> QED BY <1>1, <1>2 DEF TypeOK, store

LEMMA NextTypes == TypeOK /\ [Next]_vars => TypeOK'
  <1> SUFFICES ASSUME TypeOK, [Next]_vars PROVE TypeOK'
    OBVIOUS
  <1>1. CASE UNCHANGED vars
    BY <1>1 DEF vars, store, agentVars, TypeOK
  <1>2. ASSUME NEW r \in Request,
               \/ CreateStep(r) \/ ReservationExpires(r)
               \/ DeleteStep(r) \/ PatchStep(r) \/ AgentStep(r) \/ DropLost(r)
        PROVE  TypeOK'
    BY <1>2, CreateTypes, DeleteTypes, PatchTypes, AgentTypes
  <1>3. ASSUME NEW m \in posts, PatchBegins(m) \/ PostLost(m) PROVE TypeOK'
    BY <1>3, PostTypes
  <1> QED BY <1>1, <1>2, <1>3 DEF Next

\* The store, the handlers, the reports and the VMs keep their types.
THEOREM Typed == Spec => []TypeOK
  <1>1. Init => TypeOK
    BY RequestAssumption DEF Init, TypeOK, Status, Created
  <1> QED BY <1>1, NextTypes, PTL DEF Spec

(***************************************************************************)
(* Answers, idempotency records and reservations                           *)
(***************************************************************************)
\* The handler that commits a second time is that of a committed create.
CommitsOnce ==
    \A r \in Request :
      busy[Public] = [does |-> "commit again", of |-> r] => create[r] = "committed"

Inv == TypeOK /\ KeyInv /\ CommitsOnce /\ ReservationsAccounted

LEMMA WorkIsOne ==
  ASSUME NEW q, NEW r,
         [does |-> "commit again", of |-> q] = [does |-> "commit again", of |-> r]
  PROVE  q = r
  OBVIOUS

LEMMA InitInv == Init => Inv
  <1> SUFFICES ASSUME Init PROVE Inv
    OBVIOUS
  <1>1. TypeOK
    BY RequestAssumption DEF Init, TypeOK, Status, Created
  <1>2. CommitsOnce
    <2> SUFFICES ASSUME NEW r \in Request, busy[Public] = [does |-> "commit again", of |-> r]
                 PROVE  FALSE
      BY DEF CommitsOnce
    <2>1. [does |-> "commit again", of |-> r] \in Work
      BY DEF Work
    <2>2. busy[Public] = Nobody
      BY DEF Init, Public
    <2> QED BY <2>1, <2>2, RequestAssumption
  <1>3. ReservationsAccounted
    BY DEF Init, ReservationsAccounted
  <1> QED BY <1>1, <1>2, <1>3, InitKeyInv DEF Inv

\* The steps that end no create and set or free no reservation.
LEMMA ElsewhereInv ==
  ASSUME Inv, Elsewhere, UNCHANGED reserved,
         \A r \in Request : busy'[Public] # [does |-> "commit again", of |-> r]
                            \/ busy'[Public] = busy[Public]
  PROVE  KeyInv' /\ CommitsOnce' /\ ReservationsAccounted'
  <1>1. KeyInv'
    BY ElsewhereKeyInv DEF Inv
  <1> QED
    BY <1>1 DEF Inv, Elsewhere, CommitsOnce, ReservationsAccounted

LEMMA CreateInv ==
  ASSUME Inv, Sequential, NEW r \in Request, CreateStep(r) \/ ReservationExpires(r)
  PROVE  KeyInv' /\ CommitsOnce' /\ ReservationsAccounted'
  <1>0. /\ create \in [Request -> Created \cup {"new", "creating", "replayed",
                                               "refused", "failed", "unreleased"}]
        /\ reserved \in [Request -> BOOLEAN]
        /\ busy \in [{"public", "internal"} -> Work \cup {Nobody}]
    BY DEF Inv, TypeOK
  <1>1. CASE CreateReplayed(r)
    <2>1. /\ create[r] = "new"
          /\ Known(r)
          /\ Create(r, IF Replayable(r) THEN "replayed" ELSE "refused")
          /\ UNCHANGED <<idem, reserved, busy>>
      BY <1>1 DEF CreateReplayed, Arrives, store
    <2>2. PICK how \in {"replayed", "refused"} :
            /\ Create(r, how)
            /\ how = "replayed" => Replayable(r)
      BY <2>1
    <2>3. KeyInv'
      BY <2>1, <2>2, EndsKeyInv DEF Inv
    <2> QED BY <1>0, <2>1, <2>2, <2>3
        DEF Inv, CommitsOnce, ReservationsAccounted, Create, Created
  <1>2. CASE CreateReserves(r)
    <2>1. KeyInv'
      BY <1>2, ReservesKeyInv DEF Inv
    <2>2. /\ create[r] = "new"
          /\ create' = [create EXCEPT ![r] = "creating"]
          /\ reserved' = [reserved EXCEPT ![r] = TRUE]
          /\ busy' = busy
      BY <1>2 DEF CreateReserves, Arrives, Create
    <2> QED BY <1>0, <2>1, <2>2 DEF Inv, CommitsOnce, ReservationsAccounted, Created
  <1>3. CASE CreateUnreserved(r)
    <2>1. /\ create[r] = "new"
          /\ Create(r, "refused")
          /\ UNCHANGED <<idem, reserved, busy>>
      BY <1>3 DEF CreateUnreserved, Arrives, store
    <2>2. KeyInv'
      BY <2>1, EndsKeyInv DEF Inv
    <2> QED BY <1>0, <2>1, <2>2
        DEF Inv, CommitsOnce, ReservationsAccounted, Create, Created
  <1>4. CASE CreateRemoteFails(r)
    <2>1. /\ create[r] = "creating"
          /\ Create(r, "failed")
          /\ reserved' = [reserved EXCEPT ![r] = FALSE]
          /\ UNCHANGED <<idem, busy>>
      BY <1>4 DEF CreateRemoteFails
    <2>2. KeyInv'
      BY <2>1, EndsKeyInv DEF Inv
    <2> QED BY <1>0, <2>1, <2>2
        DEF Inv, CommitsOnce, ReservationsAccounted, Create, Created
  <1>5. CASE CreateThrows(r)
    <2>1. /\ create[r] = "creating"
          /\ Create(r, "unreleased")
          /\ UNCHANGED <<idem, reserved, busy>>
      BY <1>5 DEF CreateThrows, store
    <2>2. KeyInv'
      BY <2>1, EndsKeyInv DEF Inv
    <2> QED BY <1>0, <2>1, <2>2
        DEF Inv, CommitsOnce, ReservationsAccounted, Create, Created
  <1>6. CASE CreateCommits(r)
    <2>1. /\ create[r] = "creating"
          /\ create' = [create EXCEPT ![r] = "committed"]
          /\ reserved' = [reserved EXCEPT ![r] = FALSE]
          /\ busy' = [busy EXCEPT ![Public] = [does |-> "commit again", of |-> r]]
      BY <1>6 DEF CreateCommits, Create, GoOn
    <2>2. KeyInv'
      BY <1>6, CommitsKeyInv DEF Inv
    <2>3. CommitsOnce'
      <3> SUFFICES ASSUME NEW q \in Request,
                          busy'[Public] = [does |-> "commit again", of |-> q]
                   PROVE  create'[q] = "committed"
        BY DEF CommitsOnce
      <3>1. busy'[Public] = [does |-> "commit again", of |-> r]
        BY <1>0, <2>1 DEF Public
      <3>2. q = r
        BY <3>1, WorkIsOne
      <3> QED BY <1>0, <2>1, <3>2
    <2> QED BY <1>0, <2>1, <2>2, <2>3 DEF Inv, ReservationsAccounted, Created
  <1>7. CASE CreateCommitsAgain(r)
    <2>1. create[r] = "committed"
      BY <1>7 DEF CreateCommitsAgain, Inv, CommitsOnce
    <2>2. PICK how \in {"created", "unconfirmed"} :
            create' = [create EXCEPT ![r] = how]
      BY <1>7 DEF CreateCommitsAgain, Create
    <2>3. busy' = [busy EXCEPT ![Public] = Nobody] /\ reserved' = reserved
      BY <1>7 DEF CreateCommitsAgain, GoOn
    <2>4. KeyInv'
      BY <1>7, <2>1, CommitsAgainKeyInv DEF Inv
    <2>5. CommitsOnce'
      <3>1. busy'[Public] = Nobody
        BY <1>0, <2>3 DEF Public
      <3>2. \A q \in Request : [does |-> "commit again", of |-> q] \in Work
        BY DEF Work
      <3> QED BY <3>1, <3>2, RequestAssumption DEF CommitsOnce
    <2> QED BY <1>0, <2>1, <2>2, <2>3, <2>4, <2>5 DEF Inv, ReservationsAccounted, Created
  <1>8. CASE ReservationExpires(r)
    <2>1. /\ create[r] # "creating"
          /\ reserved' = [reserved EXCEPT ![r] = FALSE]
          /\ UNCHANGED <<create, idem, busy>>
      BY <1>8 DEF ReservationExpires
    <2>2. KeyInv'
      BY <2>1, ElsewhereKeyInv DEF Inv, Elsewhere
    <2> QED BY <1>0, <2>1, <2>2 DEF Inv, CommitsOnce, ReservationsAccounted
  <1> QED BY <1>1, <1>2, <1>3, <1>4, <1>5, <1>6, <1>7, <1>8 DEF CreateStep

\* No other step ends a create; a delete and a PATCH begin when the process is
\* idle or go on with what they began.
LEMMA OthersInv ==
  ASSUME Inv,
         \/ \E r \in Request : DeleteStep(r) \/ PatchStep(r) \/ AgentStep(r) \/ DropLost(r)
         \/ \E m \in posts : PatchBegins(m) \/ PostLost(m)
  PROVE  KeyInv' /\ CommitsOnce' /\ ReservationsAccounted'
  <1>0. busy \in [{"public", "internal"} -> Work \cup {Nobody}]
    BY DEF Inv, TypeOK
  <1>1. Elsewhere /\ UNCHANGED reserved
    BY DEF Elsewhere, store, agentVars, DeleteStep, DeleteBegins, DeleteCommits,
       DeleteReturns, DeleteThrows, PatchStep, PatchWrites, PatchAppends, PatchThrows,
       AgentStep, AgentLaunches, AgentReports, AgentEnds, AgentDeletes, DropLost,
       PatchBegins, PostLost
  <1>2. \/ busy' = busy
        \/ \E p \in {"public", "internal"}, with \in Work \cup {Nobody} :
             /\ busy' = [busy EXCEPT ![p] = with]
             /\ \A r \in Request : with # [does |-> "commit again", of |-> r]
    <2>1. \A r \in Request : Nobody # [does |-> "commit again", of |-> r]
      <3>1. \A r \in Request : [does |-> "commit again", of |-> r] \in Work
        BY DEF Work
      <3> QED BY <3>1, RequestAssumption
    <2>2. ASSUME NEW r \in Request, DeleteStep(r)
          PROVE  \/ busy' = busy
                 \/ busy' = [busy EXCEPT !["public"] = [does |-> "delete", of |-> r]]
                 \/ busy' = [busy EXCEPT !["public"] = Nobody]
      BY <2>2 DEF DeleteStep, DeleteBegins, DeleteCommits, DeleteReturns, DeleteThrows,
         GoOn, Public
    <2>3. ASSUME NEW r \in Request, PatchStep(r)
          PROVE  \/ \E st \in Status :
                      busy' = [busy EXCEPT ![Internal] =
                                [does |-> "append", of |-> r, status |-> st]]
                 \/ busy' = [busy EXCEPT ![Internal] = Nobody]
      BY <2>3 DEF PatchStep, PatchWrites, PatchAppends, PatchThrows, GoOn
    <2>4. ASSUME NEW r \in Request, AgentStep(r) \/ DropLost(r) PROVE busy' = busy
      BY <2>4 DEF AgentStep, AgentLaunches, AgentReports, AgentEnds, AgentDeletes, DropLost
    <2>5. ASSUME NEW m \in posts, PatchBegins(m) \/ PostLost(m)
          PROVE  \/ busy' = busy
                 \/ /\ m \in Post
                    /\ busy' = [busy EXCEPT ![Internal] =
                                 [does |-> "patch", of |-> m.of, status |-> m.status]]
      BY <2>5 DEF PatchBegins, PostLost, GoOn, Inv, TypeOK
    <2>6. /\ Internal \in {"public", "internal"}
          /\ \A r \in Request, st \in Status, d \in {"patch", "append"} :
               /\ [does |-> d, of |-> r, status |-> st] \in Work
               /\ \A q \in Request : [does |-> d, of |-> r, status |-> st]
                                       # [does |-> "commit again", of |-> q]
      BY DEF Internal, Work
    <2>7. \A r \in Request :
            /\ [does |-> "delete", of |-> r] \in Work
            /\ \A q \in Request : [does |-> "delete", of |-> r]
                                    # [does |-> "commit again", of |-> q]
      BY DEF Work
    <2>8. \A m \in Post : m.of \in Request /\ m.status \in Status
      BY DEF Post
    <2>9. CASE \E r \in Request : DeleteStep(r)
      <3>1. PICK r \in Request : DeleteStep(r)
        BY <2>9
      <3>2. CASE busy' = [busy EXCEPT !["public"] = [does |-> "delete", of |-> r]]
        BY <2>7, <3>2
      <3>3. CASE busy' = [busy EXCEPT !["public"] = Nobody]
        BY <2>1, <3>3
      <3> QED BY <2>2, <3>1, <3>2, <3>3
    <2>10. CASE \E r \in Request : PatchStep(r)
      BY <2>1, <2>3, <2>6, <2>10
    <2>11. CASE \E r \in Request : AgentStep(r) \/ DropLost(r)
      BY <2>4, <2>11
    <2>12. CASE \E m \in posts : PatchBegins(m) \/ PostLost(m)
      <3>1. PICK m \in posts : PatchBegins(m) \/ PostLost(m)
        BY <2>12
      <3>2. CASE /\ m \in Post
                 /\ busy' = [busy EXCEPT ![Internal] =
                              [does |-> "patch", of |-> m.of, status |-> m.status]]
        BY <2>6, <2>8, <3>2
      <3> QED BY <2>5, <3>1, <3>2
    <2> QED BY <2>9, <2>10, <2>11, <2>12
  <1>3. \A r \in Request : busy'[Public] # [does |-> "commit again", of |-> r]
                           \/ busy'[Public] = busy[Public]
    BY <1>0, <1>2 DEF Public
  <1> QED BY <1>1, <1>3, ElsewhereInv

LEMMA NextInv == Sequential /\ Inv /\ [Next]_vars => Inv'
  <1> SUFFICES ASSUME Sequential, Inv, [Next]_vars PROVE Inv'
    OBVIOUS
  <1>1. TypeOK'
    BY NextTypes DEF Inv
  <1>2. KeyInv' /\ CommitsOnce' /\ ReservationsAccounted'
    <2>1. CASE UNCHANGED vars
      BY <2>1, ElsewhereInv DEF vars, store, Elsewhere
    <2>2. CASE \E r \in Request : CreateStep(r) \/ ReservationExpires(r)
      BY <2>2, CreateInv
    <2>3. CASE \/ \E r \in Request :
                    DeleteStep(r) \/ PatchStep(r) \/ AgentStep(r) \/ DropLost(r)
               \/ \E m \in posts : PatchBegins(m) \/ PostLost(m)
      BY <2>3, OthersInv
    <2> QED BY <2>1, <2>2, <2>3 DEF Next
  <1> QED BY <1>1, <1>2 DEF Inv

LEMMA Invariance == ASSUME Sequential PROVE Spec => []Inv
  BY InitInv, NextInv, PTL DEF Spec

\* With clients that await their answers, one Idempotency-Key never records two
\* sessions, whatever the store, the agent and the network lose.
THEOREM OneSessionPerKey == ASSUME Sequential PROVE Spec => []KeyNamesOneSession
  <1>1. Inv => KeyNamesOneSession
    BY RequestAssumption DEF Inv, KeyInv, RecordNamesCreated, KeyNamesOneSession
  <1> QED BY <1>1, Invariance, PTL

\* Nor does it answer two different requests with one session.
THEOREM AnswersAgree == ASSUME Sequential PROVE Spec => []RepliesAgree
  <1>1. Inv => RepliesAgree
    BY DEF Inv, KeyInv, RecordNamesCreated, ReplaysMatch, RepliesAgree, Created
  <1> QED BY <1>1, Invariance, PTL

\* A host's capacity is set aside exactly while the create waits for its agent,
\* unless the store write that gives it back throws.
THEOREM CapacityAccounted == ASSUME Sequential PROVE Spec => []ReservationsAccounted
  <1>1. Inv => ReservationsAccounted
    BY DEF Inv
  <1> QED BY <1>1, Invariance, PTL

-------------------------------------------------------------------------------
(***************************************************************************)
(* The event log.  With one process a handler may be between two writes of *)
(* a session only while no other handler goes on, so what it still has to  *)
(* append is known from `busy`; and the second commit of a create, which   *)
(* writes no event, finds the one of the first.                            *)
(***************************************************************************)
Appends(r, st) == [does |-> "append", of |-> r, status |-> st]
CommitsAgain(r) == [does |-> "commit again", of |-> r]

LogInv ==
    /\ TypeOK
    /\ busy["internal"] = Nobody
    /\ \A r \in Request : session[r] # "none" =>
         lastEvent[r] = session[r] \/ busy["public"] = Appends(r, session[r])
    /\ \A r \in Request, st \in Status :
         busy["public"] = Appends(r, st) => session[r] = st
    /\ \A r \in Request : busy["public"] = CommitsAgain(r) => lastEvent[r] = "running"

\* What a handler goes on with tells which handler it is.
LEMMA WorksDiffer ==
  ASSUME NEW q, NEW r, NEW st, NEW su
  PROVE  /\ Appends(q, st) = Appends(r, su) => q = r /\ st = su
         /\ CommitsAgain(q) = CommitsAgain(r) => q = r
         /\ CommitsAgain(q) # Appends(r, st)
         /\ [does |-> "delete", of |-> q] # Appends(r, st)
         /\ [does |-> "delete", of |-> q] # CommitsAgain(r)
         /\ [does |-> "patch", of |-> q, status |-> su] # Appends(r, st)
         /\ [does |-> "patch", of |-> q, status |-> su] # CommitsAgain(r)
<1>1. /\ Appends(r, su).does = "append" /\ Appends(r, su).of = r /\ Appends(r, su).status = su
      /\ Appends(q, st).does = "append" /\ Appends(q, st).of = q /\ Appends(q, st).status = st
      /\ Appends(r, st).does = "append"
      /\ CommitsAgain(q).does = "commit again" /\ CommitsAgain(q).of = q
      /\ CommitsAgain(r).does = "commit again" /\ CommitsAgain(r).of = r
      /\ [does |-> "delete", of |-> q].does = "delete"
      /\ [does |-> "patch", of |-> q, status |-> su].does = "patch"
  BY DEF Appends, CommitsAgain
<1> QED BY <1>1

LEMMA NobodyWorks ==
  ASSUME NEW r \in Request, NEW st \in Status
  PROVE  Nobody # Appends(r, st) /\ Nobody # CommitsAgain(r)
<1>1. /\ Appends(r, st) \in [does : {"patch", "append"}, of : Request, status : Status]
      /\ CommitsAgain(r) \in [does : {"commit again", "delete"}, of : Request]
  BY DEF Appends, CommitsAgain
<1>2. Appends(r, st) \in Work /\ CommitsAgain(r) \in Work
  BY <1>1 DEF Work
<1> QED BY <1>2, RequestAssumption DEF RequestAssumption

\* A commit takes sessions out of the store with their events, and writes both
\* for its own.
LEMMA CommitWrites ==
  ASSUME TypeOK, NEW r \in Request, NEW status \in Status, NEW event \in BOOLEAN,
         Commit(r, status, event)
  PROVE  /\ \A q \in Request : q # r /\ session'[q] # "none" =>
              session'[q] = session[q] /\ lastEvent'[q] = lastEvent[q]
         /\ session'[r] # "none" =>
              /\ session'[r] = status
              /\ lastEvent'[r] = IF event THEN status ELSE lastEvent[r]
         /\ status = "running" /\ event => lastEvent'[r] = "running"
<1> DEFINE S == [session EXCEPT ![r] = status]
           E == IF event THEN [lastEvent EXCEPT ![r] = status] ELSE lastEvent
<1>1. PICK P \in Pruned(S) :
        /\ session' = [q \in Request |-> IF q \in P THEN "none" ELSE S[q]]
        /\ lastEvent' = [q \in Request |-> IF q \in P THEN "none" ELSE E[q]]
  BY DEF Commit
<1>2. /\ S[r] = status /\ \A q \in Request : q # r => S[q] = session[q]
  BY DEF TypeOK
<1>3. /\ event => E[r] = status
      /\ ~event => E[r] = lastEvent[r]
      /\ \A q \in Request : q # r => E[q] = lastEvent[q]
  BY DEF TypeOK
<1> HIDE DEF S, E
<1>4. status = "running" => r \notin P
  BY <1>1, <1>2 DEF Pruned, Terminated
<1> QED BY <1>1, <1>2, <1>3, <1>4 DEF Status

\* A commit by a handler that has nothing to append before it or after it.
LEMMA CommitAgrees ==
  ASSUME LogInv, TypeOK', NEW r \in Request, NEW status \in Status, NEW event \in BOOLEAN,
         Commit(r, status, event),
         \A q \in Request, st \in Status : busy["public"] # Appends(q, st),
         event \/ (status = "running" /\ busy["public"] = CommitsAgain(r)),
         busy'["internal"] = Nobody,
         \A q \in Request, st \in Status : busy'["public"] # Appends(q, st),
         \A q \in Request : busy'["public"] = CommitsAgain(q)
                              => q = r /\ status = "running" /\ event
  PROVE  LogInv'
<1>1. /\ \A q \in Request : q # r /\ session'[q] # "none" =>
              session'[q] = session[q] /\ lastEvent'[q] = lastEvent[q]
      /\ session'[r] # "none" =>
              /\ session'[r] = status
              /\ lastEvent'[r] = IF event THEN status ELSE lastEvent[r]
      /\ status = "running" /\ event => lastEvent'[r] = "running"
  BY CommitWrites DEF LogInv
<1>2. \A q \in Request : session[q] # "none" => lastEvent[q] = session[q]
  BY DEF LogInv, TypeOK
<1>3. ~event => lastEvent[r] = status
  BY DEF LogInv
<1>4. \A q \in Request : session'[q] # "none" => lastEvent'[q] = session'[q]
  BY <1>1, <1>2, <1>3
<1> QED BY <1>1, <1>4 DEF LogInv

\* Steps that write neither, after which nothing new is left to append.
LEMMA OthersAgree ==
  ASSUME LogInv, TypeOK', UNCHANGED <<session, lastEvent>>,
         busy'["internal"] = Nobody,
         \/ busy'["public"] = busy["public"]
         \/ /\ \A q \in Request, st \in Status : /\ busy["public"] # Appends(q, st)
                                                 /\ busy'["public"] # Appends(q, st)
            /\ \A q \in Request : busy'["public"] # CommitsAgain(q)
  PROVE  LogInv'
BY DEF LogInv, TypeOK

LEMMA LogCreates ==
  ASSUME ~StoreFaults, LogInv, TypeOK', NEW r \in Request,
         CreateStep(r) \/ ReservationExpires(r)
  PROVE  LogInv'
<1>0. /\ busy["internal"] = Nobody
      /\ busy \in [{"public", "internal"} -> Work \cup {Nobody}]
  BY DEF LogInv, TypeOK
<1>1. CASE CreateReplayed(r) \/ CreateReserves(r) \/ CreateUnreserved(r)
           \/ CreateRemoteFails(r) \/ ReservationExpires(r)
  <2>1. UNCHANGED <<session, lastEvent, busy>>
    BY <1>1 DEF CreateReplayed, CreateReserves, CreateUnreserved, CreateRemoteFails,
                ReservationExpires, store
  <2> QED BY <1>0, <2>1, OthersAgree
<1>2. CASE CreateCommits(r)
  <2>1. /\ Commit(r, "running", TRUE) /\ busy["public"] = Nobody
        /\ busy' = [busy EXCEPT !["public"] = CommitsAgain(r)]
    BY <1>2 DEF CreateCommits, Idle, GoOn, Public, CommitsAgain
  <2>2. busy'["public"] = CommitsAgain(r) /\ busy'["internal"] = Nobody
    BY <1>0, <2>1
  <2>3. "running" \in Status /\ TRUE \in BOOLEAN
    BY DEF Status
  <2>4. \A q \in Request, st \in Status : busy["public"] # Appends(q, st)
    BY <2>1, NobodyWorks
  <2>5. \A q \in Request, st \in Status : busy'["public"] # Appends(q, st)
    BY <2>2, WorksDiffer
  <2>6. \A q \in Request : busy'["public"] = CommitsAgain(q) => q = r
    BY <2>2, WorksDiffer
  <2> QED BY <2>1, <2>2, <2>3, <2>4, <2>5, <2>6, CommitAgrees
<1>3. CASE CreateCommitsAgain(r)
  <2>1. /\ Commit(r, "running", FALSE) /\ busy["public"] = CommitsAgain(r)
        /\ busy' = [busy EXCEPT !["public"] = Nobody]
    BY <1>3 DEF CreateCommitsAgain, GoOn, Public, CommitsAgain
  <2>2. busy'["public"] = Nobody /\ busy'["internal"] = Nobody
    BY <1>0, <2>1
  <2>3. "running" \in Status /\ FALSE \in BOOLEAN
    BY DEF Status
  <2>4. \A q \in Request, st \in Status : busy["public"] # Appends(q, st)
    BY <2>1, WorksDiffer
  <2>5. \A q \in Request, st \in Status : /\ busy'["public"] # Appends(q, st)
                                          /\ busy'["public"] # CommitsAgain(q)
    BY <2>2, NobodyWorks
  <2>6. \A q \in Request : busy'["public"] # CommitsAgain(q)
    BY <2>3, <2>5
  <2> QED BY <2>1, <2>2, <2>3, <2>4, <2>5, <2>6, CommitAgrees
<1> QED BY <1>1, <1>2, <1>3 DEF CreateStep, CreateThrows

LEMMA LogDeletes ==
  ASSUME ~StoreFaults, LogInv, TypeOK', NEW r \in Request, DeleteStep(r) \/ DropLost(r)
  PROVE  LogInv'
<1>0. /\ busy["internal"] = Nobody
      /\ busy \in [{"public", "internal"} -> Work \cup {Nobody}]
      /\ "terminated" \in Status /\ TRUE \in BOOLEAN /\ "running" \in Status
  BY DEF LogInv, TypeOK, Status
<1>1. CASE DeleteThrows(r) \/ DropLost(r)
  <2>1. UNCHANGED <<session, lastEvent, busy>>
    BY <1>1 DEF DeleteThrows, DropLost, store
  <2> QED BY <1>0, <2>1, OthersAgree
<1>2. CASE DeleteBegins(r)
  <2>1. /\ busy["public"] = Nobody /\ UNCHANGED <<session, lastEvent>>
        /\ \/ busy' = busy
           \/ busy' = [busy EXCEPT !["public"] = [does |-> "delete", of |-> r]]
    BY <1>2 DEF DeleteBegins, Idle, GoOn, Public, store
  <2>2. CASE busy' = busy
    BY <1>0, <2>1, <2>2, OthersAgree
  <2>3. CASE busy' = [busy EXCEPT !["public"] = [does |-> "delete", of |-> r]]
    <3>1. /\ busy'["public"] = [does |-> "delete", of |-> r]
          /\ busy'["internal"] = Nobody
      BY <1>0, <2>3
    <3>2. \A q \in Request, st \in Status : /\ busy["public"] # Appends(q, st)
                                            /\ busy'["public"] # Appends(q, st)
      BY <2>1, <3>1, NobodyWorks, WorksDiffer
    <3>3. \A q \in Request : busy'["public"] # CommitsAgain(q)
      BY <3>1, WorksDiffer
    <3> QED BY <2>1, <3>1, <3>2, <3>3, OthersAgree
  <2> QED BY <2>1, <2>2, <2>3
<1>3. CASE DeleteCommits(r)
  <2>1. /\ Commit(r, "terminated", TRUE) /\ busy["public"] = [does |-> "delete", of |-> r]
        /\ busy' = [busy EXCEPT !["public"] = Nobody]
    BY <1>3 DEF DeleteCommits, GoOn, Public
  <2>2. busy'["public"] = Nobody /\ busy'["internal"] = Nobody
    BY <1>0, <2>1
  <2>3. \A q \in Request, st \in Status : /\ busy["public"] # Appends(q, st)
                                          /\ busy'["public"] # Appends(q, st)
    BY <2>1, <2>2, NobodyWorks, WorksDiffer
  <2>4. \A q \in Request : busy'["public"] # CommitsAgain(q)
    BY <1>0, <2>2, NobodyWorks
  <2> QED BY <1>0, <2>1, <2>2, <2>3, <2>4, CommitAgrees
<1>4. CASE DeleteReturns(r)
  <2>1. /\ Commit(r, "terminated", TRUE) /\ busy["public"] = Nobody /\ busy' = busy
    BY <1>4 DEF DeleteReturns, Idle, Public
  <2>2. \A q \in Request, st \in Status : /\ busy["public"] # Appends(q, st)
                                          /\ busy'["public"] # Appends(q, st)
    BY <2>1, NobodyWorks
  <2>3. \A q \in Request : busy'["public"] # CommitsAgain(q)
    BY <1>0, <2>1, NobodyWorks
  <2> QED BY <1>0, <2>1, <2>2, <2>3, CommitAgrees
<1> QED BY <1>1, <1>2, <1>3, <1>4 DEF DeleteStep

LEMMA LogPatches ==
  ASSUME ~StoreFaults, ~Split, LogInv, TypeOK', NEW r \in Request, PatchStep(r)
  PROVE  LogInv'
<1>0. /\ busy["internal"] = Nobody
      /\ busy \in [{"public", "internal"} -> Work \cup {Nobody}]
      /\ session \in [Request -> Status \cup {"none"}]
      /\ lastEvent \in [Request -> Status \cup {"none"}]
      /\ Internal = "public" /\ "running" \in Status
  BY DEF LogInv, TypeOK, Internal, Status
<1>1. ASSUME NEW st \in Status,
             busy["public"] = [does |-> "patch", of |-> r, status |-> st],
             session' = [session EXCEPT ![r] = st],
             busy' = [busy EXCEPT !["public"] = Appends(r, st)],
             lastEvent' = lastEvent
      PROVE  LogInv'
  <2>1. busy'["public"] = Appends(r, st) /\ busy'["internal"] = Nobody
    BY <1>0, <1>1
  <2>2. session'[r] = st /\ \A q \in Request : q # r => session'[q] = session[q]
    BY <1>0, <1>1
  <2>3. \A q \in Request : session[q] # "none" => lastEvent[q] = session[q]
    <3>1. \A q \in Request, su \in Status : busy["public"] # Appends(q, su)
      BY <1>1, WorksDiffer
    <3> QED BY <1>0, <3>1 DEF LogInv
  <2>4. \A q \in Request : session'[q] # "none" =>
          lastEvent'[q] = session'[q] \/ busy'["public"] = Appends(q, session'[q])
    BY <1>1, <2>1, <2>2, <2>3
  <2>5. \A q \in Request, su \in Status :
          busy'["public"] = Appends(q, su) => session'[q] = su
    <3>1. ASSUME NEW q \in Request, NEW su \in Status, busy'["public"] = Appends(q, su)
          PROVE  q = r /\ su = st
      <4>1. Appends(r, st) = Appends(q, su)
        BY <2>1, <3>1
      <4> QED BY <4>1, WorksDiffer
    <3> QED BY <2>2, <3>1
  <2>6. \A q \in Request : busy'["public"] # CommitsAgain(q)
    BY <2>1, WorksDiffer
  <2> QED BY <2>1, <2>4, <2>5, <2>6 DEF LogInv
<1>2. ASSUME NEW st \in Status,
             busy["public"] = Appends(r, st),
             lastEvent' = [lastEvent EXCEPT ![r] = st],
             busy' = [busy EXCEPT !["public"] = Nobody],
             session' = session
      PROVE  LogInv'
  <2>1. busy'["public"] = Nobody /\ busy'["internal"] = Nobody
    BY <1>0, <1>2
  <2>2. lastEvent'[r] = st /\ \A q \in Request : q # r => lastEvent'[q] = lastEvent[q]
    BY <1>0, <1>2
  <2>3. session[r] = st
    BY <1>2 DEF LogInv
  <2>4. \A q \in Request : q # r /\ session[q] # "none" => lastEvent[q] = session[q]
    BY <1>2, WorksDiffer DEF LogInv
  <2>5. \A q \in Request : session'[q] # "none" => lastEvent'[q] = session'[q]
    BY <1>2, <2>2, <2>3, <2>4
  <2>6. \A q \in Request, su \in Status : busy'["public"] # Appends(q, su)
    BY <2>1, NobodyWorks
  <2>7. \A q \in Request : busy'["public"] # CommitsAgain(q)
    BY <1>0, <2>1, NobodyWorks
  <2> QED BY <2>1, <2>5, <2>6, <2>7 DEF LogInv
<1>3. CASE PatchWrites(r)
  BY <1>0, <1>1, <1>3 DEF PatchWrites, GoOn, Appends
<1>4. CASE PatchAppends(r)
  BY <1>0, <1>2, <1>4 DEF PatchAppends, GoOn, Appends
<1> QED BY <1>3, <1>4 DEF PatchStep, PatchThrows

LEMMA LogPosts ==
  ASSUME ~Split, LogInv, TypeOK', NEW m \in posts, PatchBegins(m) \/ PostLost(m)
  PROVE  LogInv'
<1>0. /\ busy["internal"] = Nobody
      /\ busy \in [{"public", "internal"} -> Work \cup {Nobody}]
      /\ Internal = "public"
      /\ UNCHANGED <<session, lastEvent>>
  BY DEF LogInv, TypeOK, Internal, PatchBegins, PostLost, store
<1>1. CASE busy' = busy
  BY <1>0, <1>1, OthersAgree
<1>2. CASE /\ busy["public"] = Nobody
           /\ busy' = [busy EXCEPT !["public"] =
                         [does |-> "patch", of |-> m.of, status |-> m.status]]
  <2>1. /\ busy'["public"] = [does |-> "patch", of |-> m.of, status |-> m.status]
        /\ busy'["internal"] = Nobody
    BY <1>0, <1>2
  <2>2. \A q \in Request, st \in Status : /\ busy["public"] # Appends(q, st)
                                          /\ busy'["public"] # Appends(q, st)
    BY <1>2, <2>1, NobodyWorks, WorksDiffer
  <2>3. \A q \in Request : busy'["public"] # CommitsAgain(q)
    BY <2>1, WorksDiffer
  <2> QED BY <1>0, <2>1, <2>2, <2>3, OthersAgree
<1> QED BY <1>0, <1>1, <1>2 DEF PatchBegins, PostLost, Idle, GoOn

LEMMA LogNext == ASSUME ~StoreFaults, ~Split PROVE LogInv /\ [Next]_vars => LogInv'
<1> SUFFICES ASSUME LogInv, [Next]_vars PROVE LogInv'
  OBVIOUS
<1>1. TypeOK'
  BY NextTypes DEF LogInv
<1>2. CASE UNCHANGED vars
  <2>1. UNCHANGED <<session, lastEvent, busy>> /\ busy["internal"] = Nobody
    BY <1>2 DEF vars, store, LogInv
  <2> QED BY <1>1, <2>1, OthersAgree
<1>3. ASSUME NEW r \in Request, AgentStep(r) PROVE LogInv'
  <2>1. UNCHANGED <<session, lastEvent, busy>> /\ busy["internal"] = Nobody
    BY <1>3 DEF AgentStep, AgentLaunches, AgentReports, AgentEnds, AgentDeletes,
                store, LogInv
  <2> QED BY <1>1, <2>1, OthersAgree
<1> QED BY <1>1, <1>2, <1>3, LogCreates, LogDeletes, LogPatches, LogPosts DEF Next

\* With one listener process and a store that can be written, the event log and
\* the record of a session agree between handlers, whichever interleave.
THEOREM EventLogStaysTrue ==
  ASSUME ~StoreFaults, ~Split PROVE Spec => []EventLogAgrees
  <1>1. Init => LogInv
    <2> SUFFICES ASSUME Init PROVE LogInv
      OBVIOUS
    <2>1. TypeOK
      BY RequestAssumption DEF Init, TypeOK, Status, Created
    <2>2. /\ busy["internal"] = Nobody /\ busy["public"] = Nobody
          /\ \A r \in Request : session[r] = "none"
      BY DEF Init
    <2>3. "running" \in Status
      BY DEF Status
    <2> QED BY <2>1, <2>2, <2>3, NobodyWorks DEF LogInv
  <1>2. LogInv => EventLogAgrees
    <2> SUFFICES ASSUME LogInv, Idle("public"), NEW r \in Request, session[r] # "none"
                 PROVE  lastEvent[r] = session[r]
      BY DEF EventLogAgrees
    <2>1. session[r] \in Status
      BY DEF LogInv, TypeOK
    <2> QED BY <2>1, NobodyWorks DEF LogInv, Idle
  <1> QED BY <1>1, <1>2, LogNext, PTL DEF Spec

-------------------------------------------------------------------------------
(***************************************************************************)
(* Refinement: creates under a key act as if each were made at one moment. *)
(* The abstract record of an answer may not come before the session, and   *)
(* so nothing may write a session back that was never made: what a handler *)
(* goes on with, and what a delete awaits, is of a create that committed.  *)
(***************************************************************************)
Recorded == {r \in Request : session[r] # "none"}
MadeOnes == {r \in Request : create[r] \in Created}

RecordedAreMade ==
    /\ Recorded \subseteq MadeOnes
    /\ deletes \subseteq MadeOnes
    /\ \A p \in {"public", "internal"} : busy[p] # Nobody => busy[p].of \in MadeOnes

MadeInv == Inv /\ RecordedAreMade

\* Only its own session is new on record after a commit, and it is not pruned
\* when it runs.
LEMMA CommitRecords ==
  ASSUME TypeOK, NEW r \in Request, NEW status \in Status, NEW event \in BOOLEAN,
         Commit(r, status, event)
  PROVE  /\ Recorded' \subseteq Recorded \cup {r}
         /\ status = "running" => r \in Recorded'
  <1> DEFINE S == [session EXCEPT ![r] = status]
  <1>1. PICK P \in Pruned(S) :
          session' = [q \in Request |-> IF q \in P THEN "none" ELSE S[q]]
    BY DEF Commit
  <1>2. S[r] = status /\ \A q \in Request : q # r => S[q] = session[q]
    BY DEF TypeOK
  <1>3. status = "running" => r \notin P
    BY <1>1, <1>2 DEF Pruned, Terminated
  <1> HIDE DEF S
  <1> QED BY <1>1, <1>2, <1>3 DEF Recorded, Status

\* A create that committed stays so.
LEMMA MadeStays ==
  ASSUME MadeInv, NEW r \in Request, CreateStep(r) \/ ReservationExpires(r)
  PROVE  /\ MadeOnes \subseteq MadeOnes'
         /\ UNCHANGED deletes
  <1>1. CASE CreateCommitsAgain(r)
    <2>1. create[r] = "committed"
      BY <1>1 DEF CreateCommitsAgain, MadeInv, Inv, CommitsOnce
    <2> QED BY <1>1, <2>1
        DEF CreateCommitsAgain, Create, MadeOnes, MadeInv, Inv, TypeOK, Created
  <1>2. CASE CreateCommits(r)
    BY <1>2 DEF CreateCommits, Create, MadeOnes, MadeInv, Inv, TypeOK, Created
  <1>3. CASE CreateReplayed(r) \/ CreateReserves(r) \/ CreateUnreserved(r)
             \/ CreateRemoteFails(r) \/ CreateThrows(r) \/ ReservationExpires(r)
    <2>1. \/ create' = create
          \/ /\ create[r] \notin Created
             /\ \E how : create' = [create EXCEPT ![r] = how]
      BY <1>3 DEF CreateReplayed, CreateReserves, CreateUnreserved, CreateRemoteFails,
         CreateThrows, ReservationExpires, Arrives, Create, Created
    <2>2. UNCHANGED deletes
      BY <1>3 DEF CreateReplayed, CreateReserves, CreateUnreserved, CreateRemoteFails,
         CreateThrows, ReservationExpires
    <2> QED BY <2>1, <2>2 DEF MadeOnes, MadeInv, Inv, TypeOK
  <1> QED BY <1>1, <1>2, <1>3 DEF CreateStep

LEMMA CreateMadeInv ==
  ASSUME MadeInv, NEW r \in Request, CreateStep(r) \/ ReservationExpires(r)
  PROVE  RecordedAreMade'
  <1>0. /\ busy \in [{"public", "internal"} -> Work \cup {Nobody}]
        /\ create \in [Request -> Created \cup {"new", "creating", "replayed",
                                               "refused", "failed", "unreleased"}]
        /\ Recorded \subseteq MadeOnes /\ deletes \subseteq MadeOnes
        /\ \A p \in {"public", "internal"} : busy[p] # Nobody => busy[p].of \in MadeOnes
    BY DEF MadeInv, Inv, TypeOK, RecordedAreMade
  <1>1. MadeOnes \subseteq MadeOnes' /\ deletes' = deletes
    BY MadeStays
  <1>2. CASE CreateCommits(r)
    <2>1. r \in MadeOnes'
      BY <1>0, <1>2 DEF CreateCommits, Create, MadeOnes, Created
    <2>2. Recorded' \subseteq Recorded \cup {r}
      BY <1>2, CommitRecords DEF CreateCommits, MadeInv, Inv, Status
    <2>3. busy' = [busy EXCEPT !["public"] = [does |-> "commit again", of |-> r]]
      BY <1>2 DEF CreateCommits, GoOn, Public
    <2> QED BY <1>0, <1>1, <2>1, <2>2, <2>3 DEF RecordedAreMade
  <1>3. CASE CreateCommitsAgain(r)
    <2>1. /\ busy["public"] = [does |-> "commit again", of |-> r]
          /\ busy' = [busy EXCEPT !["public"] = Nobody]
      BY <1>3 DEF CreateCommitsAgain, GoOn, Public
    <2>2. r \in MadeOnes
      <3>1. create[r] = "committed"
        BY <1>3 DEF CreateCommitsAgain, MadeInv, Inv, CommitsOnce
      <3> QED BY <3>1 DEF MadeOnes, Created
    <2>3. Recorded' \subseteq Recorded \cup {r}
      <3>1. CASE UNCHANGED session
        BY <3>1 DEF Recorded
      <3>2. CASE Commit(r, "running", FALSE)
        BY <3>2, CommitRecords DEF MadeInv, Inv, Status
      <3> QED BY <1>3, <3>1, <3>2 DEF CreateCommitsAgain
    <2> QED BY <1>0, <1>1, <2>1, <2>2, <2>3 DEF RecordedAreMade
  <1>4. CASE CreateReplayed(r) \/ CreateReserves(r) \/ CreateUnreserved(r)
             \/ CreateRemoteFails(r) \/ CreateThrows(r) \/ ReservationExpires(r)
    <2>1. UNCHANGED <<session, busy>>
      BY <1>4 DEF CreateReplayed, CreateReserves, CreateUnreserved, CreateRemoteFails,
         CreateThrows, ReservationExpires, store
    <2> QED BY <1>0, <1>1, <2>1 DEF RecordedAreMade, Recorded
  <1> QED BY <1>2, <1>3, <1>4 DEF CreateStep

\* A delete, a PATCH and the agent answer no create, and put back on record
\* only sessions that were made.
LEMMA OthersRecord ==
  ASSUME MadeInv,
         \/ \E r \in Request : DeleteStep(r) \/ PatchStep(r) \/ AgentStep(r) \/ DropLost(r)
         \/ \E m \in posts : PatchBegins(m) \/ PostLost(m)
  PROVE  /\ UNCHANGED <<create, idem>>
         /\ RecordedAreMade'
  <1>0. /\ busy \in [{"public", "internal"} -> Work \cup {Nobody}]
        /\ Recorded \subseteq MadeOnes /\ deletes \subseteq MadeOnes
        /\ \A p \in {"public", "internal"} : busy[p] # Nobody => busy[p].of \in MadeOnes
        /\ Nobody \notin Work /\ Internal \in {"public", "internal"}
    BY RequestAssumption DEF MadeInv, Inv, TypeOK, RecordedAreMade, Internal
  <1>1. UNCHANGED <<create, idem>>
    BY DEF store, agentVars, DeleteStep, DeleteBegins, DeleteCommits,
       DeleteReturns, DeleteThrows, PatchStep, PatchWrites, PatchAppends, PatchThrows,
       AgentStep, AgentLaunches, AgentReports, AgentEnds, AgentDeletes, DropLost,
       PatchBegins, PostLost
  <1>2. MadeOnes' = MadeOnes
    BY <1>1 DEF MadeOnes
  <1>3. ASSUME NEW r \in Request, DeleteBegins(r) PROVE RecordedAreMade'
    <2>1. r \in MadeOnes
      BY <1>0, <1>3 DEF DeleteBegins, Recorded
    <2>2. /\ session' = session
          /\ deletes' \subseteq deletes \cup {r}
          /\ \/ busy' = busy
             \/ busy' = [busy EXCEPT !["public"] = [does |-> "delete", of |-> r]]
      BY <1>3 DEF DeleteBegins, GoOn, Public, store
    <2> QED BY <1>0, <1>2, <2>1, <2>2 DEF RecordedAreMade, Recorded
  <1>4. ASSUME NEW r \in Request, DeleteCommits(r) \/ DeleteReturns(r)
        PROVE  RecordedAreMade'
    <2>1. r \in MadeOnes
      <3>1. CASE DeleteCommits(r)
        <4>1. busy["public"] = [does |-> "delete", of |-> r]
          BY <3>1 DEF DeleteCommits, Public
        <4>2. [does |-> "delete", of |-> r] \in Work
          BY DEF Work
        <4> QED BY <1>0, <4>1, <4>2
      <3>2. CASE DeleteReturns(r)
        BY <1>0, <3>2 DEF DeleteReturns
      <3> QED BY <1>4, <3>1, <3>2
    <2>2. Recorded' \subseteq Recorded \cup {r}
      BY <1>4, CommitRecords DEF DeleteCommits, DeleteReturns, MadeInv, Inv, Status
    <2>3. /\ deletes' \subseteq deletes
          /\ \/ busy' = busy
             \/ busy' = [busy EXCEPT !["public"] = Nobody]
      BY <1>4 DEF DeleteCommits, DeleteReturns, GoOn, Public
    <2> QED BY <1>0, <1>2, <2>1, <2>2, <2>3 DEF RecordedAreMade
  <1>5. ASSUME NEW r \in Request, DeleteThrows(r) \/ DropLost(r) PROVE RecordedAreMade'
    <2>1. /\ session' = session
          /\ deletes' \subseteq deletes
          /\ \/ busy' = busy
             \/ busy' = [busy EXCEPT !["public"] = Nobody]
      BY <1>5 DEF DeleteThrows, DropLost, GoOn, Public, store
    <2> QED BY <1>0, <1>2, <2>1 DEF RecordedAreMade, Recorded
  <1>6. ASSUME NEW r \in Request, PatchWrites(r) PROVE RecordedAreMade'
    <2>1. PICK st \in Status :
            /\ busy[Internal] = [does |-> "patch", of |-> r, status |-> st]
            /\ session' = [session EXCEPT ![r] = st]
            /\ busy' = [busy EXCEPT ![Internal] =
                          [does |-> "append", of |-> r, status |-> st]]
      BY <1>6 DEF PatchWrites, GoOn
    <2>2. [does |-> "patch", of |-> r, status |-> st] \in Work
      BY DEF Work
    <2>3. r \in MadeOnes
      BY <1>0, <2>1, <2>2
    <2>4. Recorded' \subseteq Recorded \cup {r} /\ deletes' = deletes
      BY <1>6, <2>1 DEF Recorded, MadeInv, Inv, TypeOK, PatchWrites
    <2> QED BY <1>0, <1>2, <2>1, <2>3, <2>4 DEF RecordedAreMade
  <1>7. ASSUME NEW r \in Request, PatchAppends(r) \/ PatchThrows(r)
        PROVE  RecordedAreMade'
    <2>1. /\ session' = session /\ deletes' = deletes
          /\ busy' = [busy EXCEPT ![Internal] = Nobody]
      BY <1>7 DEF PatchAppends, PatchThrows, GoOn, store
    <2> QED BY <1>0, <1>2, <2>1 DEF RecordedAreMade, Recorded
  <1>8. ASSUME NEW r \in Request, AgentStep(r) PROVE RecordedAreMade'
    <2>1. UNCHANGED <<session, deletes, busy>>
      BY <1>8 DEF AgentStep, AgentLaunches, AgentReports, AgentEnds, AgentDeletes, store
    <2> QED BY <1>0, <1>2, <2>1 DEF RecordedAreMade, Recorded
  <1>9. ASSUME NEW m \in posts, PatchBegins(m) \/ PostLost(m) PROVE RecordedAreMade'
    <2>1. m.of \in Request
      BY DEF MadeInv, Inv, TypeOK, Post
    <2>2. /\ UNCHANGED <<session, deletes>>
          /\ \/ busy' = busy
             \/ /\ session[m.of] # "none"
                /\ busy' = [busy EXCEPT ![Internal] =
                              [does |-> "patch", of |-> m.of, status |-> m.status]]
      BY <1>9 DEF PatchBegins, PostLost, GoOn, store
    <2>3. session[m.of] # "none" => m.of \in MadeOnes
      BY <1>0, <2>1 DEF Recorded
    <2> QED BY <1>0, <1>2, <2>2, <2>3 DEF RecordedAreMade, Recorded
  <1> QED BY <1>1, <1>3, <1>4, <1>5, <1>6, <1>7, <1>8, <1>9 DEF DeleteStep, PatchStep

LEMMA MadeNext == Sequential /\ MadeInv /\ [Next]_vars => MadeInv'
  <1> SUFFICES ASSUME Sequential, MadeInv, [Next]_vars PROVE RecordedAreMade'
    BY NextInv DEF MadeInv
  <1>1. CASE UNCHANGED vars
    BY <1>1 DEF vars, store, MadeInv, RecordedAreMade, Recorded, MadeOnes
  <1>2. CASE \E r \in Request : CreateStep(r) \/ ReservationExpires(r)
    BY <1>2, CreateMadeInv
  <1>3. CASE \/ \E r \in Request :
                  DeleteStep(r) \/ PatchStep(r) \/ AgentStep(r) \/ DropLost(r)
             \/ \E m \in posts : PatchBegins(m) \/ PostLost(m)
    BY <1>3, OthersRecord
  <1> QED BY <1>1, <1>2, <1>3 DEF Next

LEMMA MadeInit == Init => MadeInv
  BY InitInv DEF Init, MadeInv, RecordedAreMade, Recorded

LEMMA MadeInvariance == ASSUME Sequential PROVE Spec => []MadeInv
  BY MadeInit, MadeNext, PTL DEF Spec

answers == [r \in Request |-> Answered(r)]

\* What the abstract specification calls made is what the proof does.
LEMMA MadeIsMade == Idempotent!Made = MadeOnes
  BY DEF Idempotent!Made, MadeOnes, Answered, Created

\* A create that has no answer yet, and moves on, changes its own answer only.
LEMMA AnswerMoves ==
  ASSUME TypeOK, NEW r \in Request, NEW how, Create(r, how)
  PROVE  /\ how = "creating" /\ create[r] = "new" => answers' = answers
         /\ how \in {"created", "unconfirmed"} /\ create[r] = "committed"
              => answers' = answers
         /\ create[r] \in {"new", "creating"} => answers[r] = "none"
         /\ how = "replayed" => answers' = [answers EXCEPT ![r] = "same"]
         /\ how \in {"refused", "failed", "unreleased"}
              => answers' = [answers EXCEPT ![r] = "failed"]
         /\ how = "committed" => answers' = [answers EXCEPT ![r] = "made"]
  BY DEF TypeOK, Create, answers, Answered, Created

LEMMA CreateRefines ==
  ASSUME Sequential, MadeInv, MadeInv', NEW r \in Request,
         CreateStep(r) \/ ReservationExpires(r)
  PROVE  [Idempotent!Next]_(Idempotent!vars)
  <1>0. TypeOK
    BY DEF MadeInv, Inv
  <1>1. ASSUME NEW how \in {"refused", "failed", "unreleased"},
               create[r] \in {"new", "creating"}, Create(r, how),
               UNCHANGED <<session, idem>>
        PROVE  Idempotent!Fail(r)
    <2>1. answers[r] = "none" /\ answers' = [answers EXCEPT ![r] = "failed"]
      BY <1>0, <1>1, AnswerMoves
    <2> QED BY <1>1, <2>1 DEF Idempotent!Fail, Idempotent!Answer, answers
  <1>2. CASE CreateReplayed(r)
    <2>1. /\ create[r] = "new" /\ Known(r)
          /\ Create(r, IF Replayable(r) THEN "replayed" ELSE "refused")
          /\ UNCHANGED <<session, idem>>
      BY <1>2 DEF CreateReplayed, Arrives, store
    <2>2. CASE ~Replayable(r)
      BY <1>1, <2>1, <2>2 DEF Idempotent!Next
    <2>3. CASE Replayable(r)
      <3>1. answers[r] = "none" /\ answers' = [answers EXCEPT ![r] = "same"]
        BY <1>0, <2>1, <2>3, AnswerMoves
      <3>2. /\ KeyOf[r] \in Key
            /\ idem[KeyOf[r]] \in {q \in Request : session[q] # "none"}
            /\ Payload[idem[KeyOf[r]]] = Payload[r]
        <4>1. KeyOf[r] \in Key /\ idem[KeyOf[r]] \in Request
          BY <1>0, <2>1, RequestAssumption DEF Known, TypeOK
        <4> QED BY <2>3, <4>1 DEF Replayable
      <3>3. Idempotent!Repeat(r)
        BY <2>1, <3>1, <3>2 DEF Idempotent!Repeat, Idempotent!Answer, answers
      <3> QED BY <3>3 DEF Idempotent!Next
    <2> QED BY <2>2, <2>3
  <1>3. CASE CreateUnreserved(r) \/ CreateRemoteFails(r) \/ CreateThrows(r)
    <2>1. PICK how \in {"refused", "failed", "unreleased"} : Create(r, how)
      BY <1>3 DEF CreateUnreserved, CreateRemoteFails, CreateThrows
    <2>2. create[r] \in {"new", "creating"} /\ UNCHANGED <<session, idem>>
      BY <1>3 DEF CreateUnreserved, CreateRemoteFails, CreateThrows, Arrives, store
    <2>3. Idempotent!Fail(r)
      BY <1>1, <2>1, <2>2
    <2> QED BY <2>3 DEF Idempotent!Next
  <1>4. CASE CreateReserves(r) \/ ReservationExpires(r)
    <2>1. UNCHANGED <<session, idem>>
      BY <1>4 DEF CreateReserves, ReservationExpires
    <2>2. answers' = answers
      <3>1. CASE CreateReserves(r)
        BY <1>0, <3>1, AnswerMoves DEF CreateReserves, Arrives
      <3>2. CASE ReservationExpires(r)
        BY <3>2 DEF ReservationExpires, answers, Answered
      <3> QED BY <1>4, <3>1, <3>2
    <2> QED BY <2>1, <2>2 DEF Idempotent!vars, answers
  <1>5. CASE CreateCommits(r)
    <2>1. /\ create[r] = "creating" /\ Create(r, "committed")
          /\ idem' = [k \in Key |-> IF k = KeyOf[r] THEN r ELSE idem[k]]
          /\ Commit(r, "running", TRUE)
      BY <1>5 DEF CreateCommits
    <2>2. KeyOf[r] \in Key => idem[KeyOf[r]] = Nobody
      BY <2>1, RequestAssumption DEF MadeInv, Inv, KeyInv, CreatingIsUnrecorded
    <2>3. answers[r] = "none" /\ answers' = [answers EXCEPT ![r] = "made"]
      BY <1>0, <2>1, AnswerMoves
    <2>4. r \in Recorded' /\ Recorded' \subseteq Recorded \cup {r}
      BY <1>0, <2>1, CommitRecords DEF Status
    <2>5. Idempotent!Make(r)
      BY <2>1, <2>2, <2>3, <2>4
         DEF Idempotent!Make, Idempotent!Answer, answers, Recorded
    <2> QED BY <2>5 DEF Idempotent!Next
  <1>6. CASE CreateCommitsAgain(r)
    <2>1. /\ create[r] = "committed" /\ idem' = idem
          /\ \E how \in {"created", "unconfirmed"} : Create(r, how)
      BY <1>6 DEF CreateCommitsAgain, MadeInv, Inv, CommitsOnce
    <2>2. answers' = answers
      BY <1>0, <2>1, AnswerMoves
    <2>3. Recorded' \subseteq MadeOnes' /\ MadeOnes' = MadeOnes
      BY <2>1, <1>0 DEF MadeInv, RecordedAreMade, MadeOnes, Create, TypeOK, Created
    <2>4. Idempotent!Prune
      BY <2>1, <2>2, <2>3, MadeIsMade DEF Idempotent!Prune, answers, Recorded
    <2> QED BY <2>4 DEF Idempotent!Next
  <1> QED BY <1>2, <1>3, <1>4, <1>5, <1>6 DEF CreateStep

LEMMA StepRefines ==
  ASSUME Sequential, MadeInv, [Next]_vars
  PROVE  [Idempotent!Next]_(Idempotent!vars)
  <1>0. MadeInv'
    BY MadeNext
  <1>1. CASE UNCHANGED vars
    BY <1>1 DEF vars, store, Idempotent!vars, Answered
  <1>2. CASE \E r \in Request : CreateStep(r) \/ ReservationExpires(r)
    BY <1>0, <1>2, CreateRefines
  <1>3. CASE \/ \E r \in Request :
                  DeleteStep(r) \/ PatchStep(r) \/ AgentStep(r) \/ DropLost(r)
             \/ \E m \in posts : PatchBegins(m) \/ PostLost(m)
    <2>1. UNCHANGED <<create, idem>>
      BY <1>3, OthersRecord
    <2>2. Recorded' \subseteq MadeOnes
      BY <1>0, <2>1 DEF MadeInv, RecordedAreMade, MadeOnes
    <2>3. Idempotent!Prune
      BY <2>1, <2>2, MadeIsMade DEF Idempotent!Prune, Recorded, Answered
    <2> QED BY <2>3 DEF Idempotent!Next
  <1> QED BY <1>1, <1>2, <1>3 DEF Next

LEMMA InitRefines == Init => Idempotent!Init
  <1> SUFFICES ASSUME Init PROVE Idempotent!Init
    OBVIOUS
  <1>1. /\ idem = [k \in Key |-> Nobody]
        /\ \A r \in Request : create[r] = "new" /\ session[r] = "none"
    BY DEF Init
  <1>2. \A r \in Request : Answered(r) = "none"
    BY <1>1 DEF Answered, Created
  <1> QED BY <1>1, <1>2 DEF Idempotent!Init

\* With clients that await their answers, creates are idempotent under their
\* key: each acts at one moment, as if the node agent were not awaited, and no
\* delete, late report or lost write brings a session on record that no create
\* made.
THEOREM CreatesAreIdempotent ==
  ASSUME Sequential PROVE Spec => ImplementsIdempotentCreates
  BY InitRefines, StepRefines, MadeInvariance, PTL
     DEF Spec, ImplementsIdempotentCreates, Idempotent!Spec
=============================================================================
