--------------------------- MODULE NodeAgent_proofs ---------------------------
(***************************************************************************)
(* For any launches, sizes and gates: once the end of a session has been   *)
(* reported, no report says that it runs.  The monitor reports what it     *)
(* finds of a machine, and only a launch brings one to life; so what is    *)
(* inductive is that a session whose end is reported, or about to be, has  *)
(* been launched and has no live machine.  The warm pool keeps to its size *)
(* because what it holds and what is being prepared for it do so together. *)
(***************************************************************************)
EXTENDS NodeAgent, ListLemmas

Shapes == /\ pc \in [Call -> InFlight \cup {"new", "up", "failed"}]
          /\ vm \in [Id -> {"none", "up", "exited"}]
          /\ said \in [Call -> {"nothing", "running"} \cup EndReport]
          /\ monitor \in MonitorState

\* Listed sessions, those being ended and those the monitor knows are launched.
Known == sessions \cup ending \cup monitor.todo \cup monitor.who
\* Their end has been reported, or nothing is awaited but the report.
Over == {c \in Call : \/ said[c] \in EndReport
                      \/ c \in ending
                      \/ monitor.at = "reporting" /\ c \in monitor.who}

AInv == /\ Shapes
        /\ ending \subseteq Call /\ sessions \subseteq Call
        /\ \A c \in Call : c \in Known \/ c \in Over => pc[c] = "up"
        /\ \A c \in Over : vm[c] # "up"

RunningIsNew == \A c \in Call : said[c] \in EndReport => said'[c] # "running"

-------------------------------------------------------------------------------
LEMMA Kinds == /\ "up" \notin InFlight /\ "new" \notin InFlight
               /\ "failed" \notin InFlight /\ AfterAdmission \subseteq InFlight
               /\ "nothing" \notin EndReport /\ "running" \notin EndReport
               /\ EndReport = {"terminated", "failed"}
               /\ Call \subseteq Id /\ Warm \subseteq Id /\ Call \cap Warm = {}
  BY AgentAssumption DEF InFlight, AfterAdmission, EndReport, Id

\* Steps that report nothing and bring to life only what was not launched yet.
Quietly == /\ UNCHANGED <<said, ending, monitor>>
           /\ pc' \in [Call -> InFlight \cup {"new", "up", "failed"}]
           /\ vm' \in [Id -> {"none", "up", "exited"}]
           /\ \A c \in Call : pc[c] = "up" => pc'[c] = "up"
           /\ \A c \in Call : vm'[c] = "up" /\ vm[c] # "up" => pc[c] # "up"
           /\ sessions' \subseteq sessions \cup {c \in Call : pc'[c] = "up"}

LEMMA QuietSteps == AInv /\ Quietly => AInv' /\ RunningIsNew
  <1> SUFFICES ASSUME AInv, Quietly PROVE AInv' /\ RunningIsNew
    OBVIOUS
  <1>1. Shapes'
    BY DEF AInv, Shapes, Quietly
  <1>2. Over' = Over /\ RunningIsNew
    BY Kinds DEF Quietly, Over, RunningIsNew
  <1>3. ending' \subseteq Call /\ sessions' \subseteq Call
    BY DEF AInv, Quietly
  <1>4. \A c \in Call : c \in Known' => c \in Known \/ pc'[c] = "up"
    BY DEF Quietly, Known
  <1>5. \A c \in Call : c \in Known' \/ c \in Over' => pc'[c] = "up"
    BY <1>2, <1>4 DEF AInv, Quietly
  <1>6. \A c \in Over' : vm'[c] # "up"
    <2>1. Over \subseteq Call
      BY DEF Over
    <2> QED BY <1>2, <2>1 DEF AInv, Quietly
  <1> QED BY <1>1, <1>2, <1>3, <1>5, <1>6 DEF AInv

LEMMA AInvInit == Init => AInv
  <1> SUFFICES ASSUME Init PROVE AInv
    OBVIOUS
  <1>1. Shapes
    BY Kinds DEF Init, Shapes, AtRest, MonitorState
  <1>2. Known = {} /\ Over = {}
    BY Kinds DEF Init, AtRest, Known, Over
  <1> QED BY <1>1, <1>2 DEF AInv, Init

-------------------------------------------------------------------------------
(***************************************************************************)
(* Launches and warm preparations                                          *)
(***************************************************************************)
LEMMA AdmissionIsQuiet ==
  ASSUME AInv, NEW c \in Call, Admit(c) \/ Refuse(c) PROVE Quietly
  <1>1. UNCHANGED <<said, ending, monitor, vm, sessions>>
    BY DEF Admit, Refuse, reports, calls
  <1>2. /\ pc[c] # "up"
        /\ \E where \in InFlight \cup {"failed"} : pc' = [pc EXCEPT ![c] = where]
    BY DEF Admit, Refuse, Goto, InFlight, AfterAdmission
  <1> QED BY <1>1, <1>2 DEF AInv, Shapes, Quietly

\* claimWarmSession gives a machine to the launch it is called for.
LEMMA ClaimIsQuiet == ASSUME AInv, NEW c \in Call, Claim(c) PROVE Quietly
  <1>1. UNCHANGED <<said, ending, monitor, sessions>> /\ pc[c] # "up"
    BY DEF Claim, reports
  <1>2. \E where \in InFlight : pc' = [pc EXCEPT ![c] = where]
    BY DEF Claim, Goto, InFlight, AfterAdmission
  <1>3. \/ vm' = vm
        \/ \E w : \/ vm' = [vm EXCEPT ![w] = "none", ![c] = "up"]
                 \/ vm' = [vm EXCEPT ![w] = "none"]
    BY DEF Claim
  <1>4. /\ vm' \in [Id -> {"none", "up", "exited"}]
        /\ \A d \in Call : vm'[d] = "up" /\ vm[d] # "up" => d = c
    BY <1>3, Kinds DEF AInv, Shapes
  <1> QED BY <1>1, <1>2, <1>4 DEF AInv, Shapes, Quietly

LEMMA CallStepIsQuiet == ASSUME AInv, NEW c \in Call, CallStep(c) PROVE Quietly
  <1>1. CASE Admit(c) \/ Refuse(c)
    BY <1>1, AdmissionIsQuiet
  <1>2. CASE Claim(c)
    BY <1>2, ClaimIsQuiet
  <1>3. CASE HandOver(c) \/ Restored(c)
    <2>1. /\ UNCHANGED <<said, ending, monitor, vm>> /\ pc[c] # "up"
          /\ pc' = [pc EXCEPT ![c] = "up"] /\ sessions' = sessions \cup {c}
      BY <1>3 DEF HandOver, Restored, Succeed, Goto, reports
    <2> QED BY <2>1 DEF AInv, Shapes, Quietly
  <1>4. CASE HandOverFails(c) \/ RestoreFails(c)
    <2>1. /\ UNCHANGED <<said, ending, monitor, sessions>> /\ pc[c] # "up"
          /\ vm' = [vm EXCEPT ![c] = "none"]
          /\ \E where \in InFlight : pc' = [pc EXCEPT ![c] = where]
      BY <1>4 DEF HandOverFails, RestoreFails, Goto, reports, InFlight, AfterAdmission
    <2> QED BY <2>1, Kinds DEF AInv, Shapes, Quietly
  <1>5. CASE Spawn(c)
    <2>1. /\ UNCHANGED <<said, ending, monitor, sessions>> /\ pc[c] # "up"
          /\ vm' = [vm EXCEPT ![c] = "up"] /\ pc' = [pc EXCEPT ![c] = "probing"]
          /\ "probing" \in InFlight
      BY <1>5 DEF Spawn, Goto, reports, InFlight, AfterAdmission
    <2> QED BY <2>1, Kinds DEF AInv, Shapes, Quietly
  <1>6. CASE GiveUp(c) \/ CheckPasses(c) \/ CheckFails(c) \/ Undone(c)
    <2>1. /\ UNCHANGED <<said, ending, monitor, sessions, vm>> /\ pc[c] # "up"
          /\ \E where \in InFlight \cup {"failed"} : pc' = [pc EXCEPT ![c] = where]
      BY <1>6 DEF GiveUp, CheckPasses, CheckFails, Undone, Fail, Goto, reports,
                  InFlight, AfterAdmission
    <2> QED BY <2>1 DEF AInv, Shapes, Quietly
  <1> QED BY <1>1, <1>2, <1>3, <1>4, <1>5, <1>6 DEF CallStep

\* The machine of a preparation is not one of a session.
LEMMA PrepStepIsQuiet == ASSUME AInv, NEW w \in Warm, PrepStep(w) PROVE Quietly
  <1>1. UNCHANGED <<said, ending, monitor, sessions, pc>>
    BY DEF PrepStep, PrepBegins, PrepSpawns, PrepEnds, PrepFails, PrepThrows,
           PrepTimesOut, PrepGivenUp, reports, calls
  <1>2. vm' = vm \/ \E v \in {"none", "up"} : vm' = [vm EXCEPT ![w] = v]
    BY DEF PrepStep, PrepBegins, PrepSpawns, PrepEnds, PrepFails, PrepThrows,
           PrepTimesOut, PrepGivenUp
  <1>3. \A c \in Call : vm'[c] = vm[c]
    BY <1>2, Kinds DEF AInv, Shapes
  <1>4. vm' \in [Id -> {"none", "up", "exited"}]
    BY <1>2, Kinds DEF AInv, Shapes
  <1> QED BY <1>1, <1>3, <1>4 DEF AInv, Shapes, Quietly

LEMMA FillIsQuiet == ASSUME AInv, Maintain \/ FillStep PROVE Quietly
  <1>1. UNCHANGED <<said, ending, monitor, sessions, pc>>
    BY DEF Maintain, FillStep, Probe, ProbeAnswered, ProbeFails, Build, FillEnds,
           reports, calls
  <1>2. \/ vm' = vm
        \/ \E w \in Warm : ProbeFails(w)
    BY DEF Maintain, FillStep, Probe, ProbeAnswered, Build, FillEnds
  <1>3. /\ vm' \in [Id -> {"none", "up", "exited"}]
        /\ \A x \in Id : vm'[x] = "up" => vm[x] = "up"
    BY <1>2 DEF ProbeFails, AInv, Shapes
  <1> QED BY <1>1, <1>3, Kinds DEF AInv, Shapes, Quietly

LEMMA ExitIsQuiet == ASSUME AInv, NEW x \in Id, Exit(x) PROVE Quietly
  BY Kinds DEF Exit, AInv, Shapes, Quietly, reports, calls

-------------------------------------------------------------------------------
(***************************************************************************)
(* Terminations and the monitor                                            *)
(***************************************************************************)
\* Steps that may report, take sessions off the list and end machines.
Ending == /\ pc' = pc /\ sessions' \subseteq sessions
          /\ ending' \subseteq Call /\ ending' \subseteq ending \cup Known
          /\ vm' \in [Id -> {"none", "up", "exited"}]
          /\ \A x \in Id : vm'[x] = "up" => vm[x] = "up"
          /\ said' \in [Call -> {"nothing", "running"} \cup EndReport]
          /\ monitor' \in MonitorState
          /\ monitor'.todo \cup monitor'.who \subseteq Known

LEMMA EndingSteps ==
  ASSUME AInv, Ending, \A c \in Over' : vm'[c] # "up" /\ c \in Known \cup Over,
         RunningIsNew
  PROVE  AInv' /\ RunningIsNew
  <1>1. Shapes'
    BY DEF AInv, Shapes, Ending
  <1>2. Known' \subseteq Known
    BY DEF Ending, Known
  <1>3. \A c \in Call : c \in Known' \/ c \in Over' => pc'[c] = "up"
    BY <1>2 DEF AInv, Ending
  <1> QED BY <1>1, <1>3 DEF AInv, Ending

LEMMA TerminationKeeps ==
  ASSUME AInv, NEW c \in Call, Terminate(c) \/ EndReported(c)
  PROVE  AInv' /\ RunningIsNew
  <1>1. CASE Terminate(c)
    <2>1. /\ pc' = pc /\ sessions' = sessions \ {c} /\ ending' = ending \cup {c}
          /\ vm' = [vm EXCEPT ![c] = "none"] /\ said' = said /\ monitor' = monitor
          /\ c \in sessions
      BY <1>1 DEF Terminate, EndSession, calls
    <2>2. Ending
      BY <2>1, Kinds DEF AInv, Shapes, Ending, Known
    <2>3. Over' = Over \cup {c} /\ c \in Known
      BY <2>1 DEF Over, Known
    <2>4. \A d \in Over' : vm'[d] # "up" /\ d \in Known \cup Over
      BY <2>1, <2>3, Kinds DEF AInv, Shapes, Over
    <2> QED BY <2>1, <2>2, <2>4, Kinds, EndingSteps DEF RunningIsNew
  <1>2. CASE EndReported(c)
    <2>1. /\ pc' = pc /\ sessions' = sessions /\ ending' = ending \ {c}
          /\ said' = [said EXCEPT ![c] = "terminated"] /\ UNCHANGED <<vm, monitor>>
          /\ c \in ending
      BY <1>2 DEF EndReported, calls
    <2>2. Ending
      BY <2>1, Kinds DEF AInv, Shapes, Ending, Known
    <2>3. Over' \subseteq Over
      BY <2>1 DEF Over, AInv, Shapes
    <2>4. RunningIsNew
      BY <2>1, Kinds DEF RunningIsNew, AInv, Shapes
    <2> QED BY <2>1, <2>2, <2>3, <2>4, EndingSteps DEF AInv
  <1> QED BY <1>1, <1>2

LEMMA MonitorKeeps == ASSUME AInv, MonitorStep PROVE AInv' /\ RunningIsNew
  <1>0. /\ monitor \in MonitorState /\ pc \in [Call -> InFlight \cup {"new", "up", "failed"}]
        /\ vm \in [Id -> {"none", "up", "exited"}]
        /\ said \in [Call -> {"nothing", "running"} \cup EndReport]
        /\ sessions \subseteq Call /\ ending \subseteq Call
    BY DEF AInv, Shapes
  <1>1. CASE MonitorBegins
    <2>1. /\ monitor' = [monitor EXCEPT !.at = "visiting", !.todo = sessions]
          /\ UNCHANGED <<pc, sessions, ending, vm, said>>
      BY <1>1 DEF MonitorBegins, calls, reports
    <2>2. monitor' \in MonitorState /\ monitor'.at = "visiting"
          /\ monitor'.todo = sessions /\ monitor'.who = monitor.who
      BY <1>0, <2>1 DEF MonitorState
    <2>3. Ending /\ RunningIsNew /\ Over' \subseteq Over
      BY <1>0, <2>1, <2>2, Kinds DEF Ending, Known, Over, RunningIsNew
    <2> QED BY <2>1, <2>3, EndingSteps DEF AInv
  <1>2. CASE Reconcile
    <2>1. /\ \E kill \in SUBSET Id :
               monitor' = [monitor EXCEPT !.at = "reconciling", !.who = {}, !.kill = kill]
          /\ UNCHANGED <<pc, sessions, ending, vm, said>>
      BY <1>2 DEF Reconcile, Tracked, calls, reports
    <2>2. monitor' \in MonitorState /\ monitor'.at = "reconciling"
          /\ monitor'.todo = monitor.todo /\ monitor'.who = {}
      BY <1>0, <2>1 DEF MonitorState
    <2>3. Ending /\ RunningIsNew /\ Over' \subseteq Over
      BY <1>0, <2>1, <2>2, Kinds DEF Ending, Known, Over, RunningIsNew
    <2> QED BY <2>1, <2>3, EndingSteps DEF AInv
  <1>3. CASE MonitorEnds
    <2>1. monitor' = AtRest /\ UNCHANGED <<pc, sessions, ending, vm, said>>
      BY <1>3 DEF MonitorEnds, calls, reports
    <2>2. monitor' \in MonitorState /\ monitor'.at = "idle"
          /\ monitor'.todo = {} /\ monitor'.who = {}
      BY <2>1 DEF MonitorState, AtRest
    <2>3. Ending /\ RunningIsNew /\ Over' \subseteq Over
      BY <1>0, <2>1, <2>2, Kinds DEF Ending, Known, Over, RunningIsNew
    <2> QED BY <2>1, <2>3, EndingSteps DEF AInv
  <1>4. ASSUME NEW x \in Id, ReconcileKills(x) PROVE AInv' /\ RunningIsNew
    <2>1. /\ monitor' = [monitor EXCEPT !.kill = @ \ {x}]
          /\ vm' = [vm EXCEPT ![x] = "none"]
          /\ UNCHANGED <<pc, sessions, ending, said>>
      BY <1>4 DEF ReconcileKills, calls, reports
    <2>2. monitor' \in MonitorState /\ monitor'.at = monitor.at
          /\ monitor'.todo = monitor.todo /\ monitor'.who = monitor.who
      BY <1>0, <2>1 DEF MonitorState
    <2>3. Ending /\ RunningIsNew /\ Over' \subseteq Over
      BY <1>0, <2>1, <2>2, Kinds DEF Ending, Known, Over, RunningIsNew
    <2>4. \A c \in Over' : vm'[c] # "up"
      BY <1>0, <2>1, <2>3, Kinds DEF AInv, Over
    <2> QED BY <2>3, <2>4, EndingSteps
  <1>5. ASSUME NEW c \in Call, MonitorGoesOn(c) PROVE AInv' /\ RunningIsNew
    <2>1. /\ monitor' = [monitor EXCEPT !.at = "visiting", !.who = {}]
          /\ UNCHANGED <<pc, sessions, ending, vm, said>>
      BY <1>5 DEF MonitorGoesOn, calls, reports
    <2>2. monitor' \in MonitorState /\ monitor'.at = "visiting"
          /\ monitor'.todo = monitor.todo /\ monitor'.who = {}
      BY <1>0, <2>1 DEF MonitorState
    <2>3. Ending /\ RunningIsNew /\ Over' \subseteq Over
      BY <1>0, <2>1, <2>2, Kinds DEF Ending, Known, Over, RunningIsNew
    <2> QED BY <2>1, <2>3, EndingSteps DEF AInv
  <1>6. ASSUME NEW c \in Call, MonitorExpires(c) PROVE AInv' /\ RunningIsNew
    <2>1. /\ monitor' = [monitor EXCEPT !.at = "visiting"]
          /\ pc' = pc /\ sessions' = sessions \ {c} /\ ending' = ending \cup {c}
          /\ vm' = [vm EXCEPT ![c] = "none"] /\ said' = said /\ c \in sessions
      BY <1>6 DEF MonitorExpires, EndSession, calls
    <2>2. monitor' \in MonitorState /\ monitor'.at = "visiting"
          /\ monitor'.todo = monitor.todo /\ monitor'.who = monitor.who
      BY <1>0, <2>1 DEF MonitorState
    <2>3. Ending /\ RunningIsNew
      BY <1>0, <2>1, <2>2, Kinds DEF Ending, Known, RunningIsNew
    <2>4. Over' \subseteq Over \cup {c} /\ c \in Known
      BY <2>1, <2>2 DEF Over, Known
    <2>5. \A d \in Over' : vm'[d] # "up" /\ d \in Known \cup Over
      BY <1>0, <2>1, <2>4, Kinds DEF AInv, Over
    <2> QED BY <2>3, <2>5, EndingSteps
  <1>7. ASSUME NEW c \in Call, MonitorReports(c) PROVE AInv' /\ RunningIsNew
    <2>1. /\ monitor' = [monitor EXCEPT !.at = "visiting", !.who = {}]
          /\ \E end \in EndReport : said' = [said EXCEPT ![c] = end]
          /\ UNCHANGED <<pc, sessions, ending, vm>>
          /\ monitor.at = "reporting" /\ c \in monitor.who
      BY <1>7, Kinds DEF MonitorReports, calls
    <2>2. monitor' \in MonitorState /\ monitor'.at = "visiting"
          /\ monitor'.todo = monitor.todo /\ monitor'.who = {}
      BY <1>0, <2>1 DEF MonitorState
    <2>3. Ending /\ RunningIsNew /\ Over' \subseteq Over
      BY <1>0, <2>1, <2>2, Kinds DEF Ending, Known, Over, RunningIsNew
    <2> QED BY <2>1, <2>3, EndingSteps DEF AInv
  <1>8. ASSUME NEW c \in Call, Visit(c) PROVE AInv' /\ RunningIsNew
    <2>0. /\ c \in monitor.todo /\ c \in Known /\ pc' = pc /\ ending' = ending
      BY <1>8 DEF Visit, MayVisit, Known, calls
    <2>1. CASE vm[c] # "up"
      <3>1. /\ monitor' = [monitor EXCEPT !.at = "reporting", !.todo = @ \ {c},
                                          !.who = {c}, !.clean = c \in marked]
            /\ sessions' = sessions \ {c} /\ said' = said
            /\ vm' = [vm EXCEPT ![c] = "none"]
        BY <1>8, <2>1 DEF Visit
      <3>2. monitor' \in MonitorState /\ monitor'.at = "reporting"
            /\ monitor'.todo = monitor.todo \ {c} /\ monitor'.who = {c}
        <4>1. ASSUME NEW clean \in BOOLEAN, NEW m,
                     m = [monitor EXCEPT !.at = "reporting", !.todo = @ \ {c},
                                         !.who = {c}, !.clean = clean]
              PROVE  /\ m \in MonitorState /\ m.at = "reporting"
                     /\ m.todo = monitor.todo \ {c} /\ m.who = {c}
          BY <1>0, <4>1 DEF MonitorState
        <4>2. (c \in marked) \in BOOLEAN
          OBVIOUS
        <4> QED BY <3>1, <4>1, <4>2, Zenon
      <3>3. Ending /\ RunningIsNew
        BY <1>0, <2>0, <3>1, <3>2, Kinds DEF Ending, Known, RunningIsNew
      <3>4. Over' \subseteq Over \cup {c}
        BY <2>0, <3>1, <3>2 DEF Over
      <3>5. \A d \in Over' : vm'[d] # "up" /\ d \in Known \cup Over
        BY <1>0, <2>0, <3>1, <3>4, Kinds DEF AInv, Over
      <3> QED BY <3>3, <3>5, EndingSteps
    <2>2. CASE vm[c] = "up"
      <3>1. /\ monitor' = [monitor EXCEPT !.at = "posting", !.todo = @ \ {c},
                                          !.who = {c}]
            /\ said' = [said EXCEPT ![c] = "running"]
            /\ UNCHANGED <<sessions, vm>>
        BY <1>8, <2>2 DEF Visit
      <3>2. monitor' \in MonitorState /\ monitor'.at = "posting"
            /\ monitor'.todo = monitor.todo \ {c} /\ monitor'.who = {c}
        BY <1>0, <3>1 DEF MonitorState
      <3>3. c \notin Over
        BY <2>2 DEF AInv
      <3>4. Ending
        BY <1>0, <2>0, <3>1, <3>2, Kinds DEF Ending, Known
      <3>5. RunningIsNew
        BY <1>0, <3>1, <3>3, Kinds DEF RunningIsNew, Over
      <3>6. Over' \subseteq Over
        BY <1>0, <2>0, <3>1, <3>2, Kinds DEF Over
      <3> QED BY <3>1, <3>4, <3>5, <3>6, EndingSteps DEF AInv
    <2> QED BY <2>1, <2>2
  <1> QED BY <1>1, <1>2, <1>3, <1>4, <1>5, <1>6, <1>7, <1>8 DEF MonitorStep

-------------------------------------------------------------------------------
LEMMA AInvNext == AInv /\ [Next]_vars => AInv' /\ RunningIsNew
  <1> SUFFICES ASSUME AInv, [Next]_vars PROVE AInv' /\ RunningIsNew
    OBVIOUS
  <1>1. CASE UNCHANGED vars
    <2>1. Quietly
      BY <1>1 DEF vars, calls, reports, Quietly, AInv, Shapes
    <2> QED BY <2>1, QuietSteps
  <1>2. ASSUME NEW c \in Call,
               Admit(c) \/ Refuse(c) \/ CallStep(c) \/ Terminate(c) \/ EndReported(c)
        PROVE  AInv' /\ RunningIsNew
    BY <1>2, AdmissionIsQuiet, CallStepIsQuiet, QuietSteps, TerminationKeeps
  <1>3. ASSUME NEW w \in Warm, PrepStep(w) PROVE AInv' /\ RunningIsNew
    BY <1>3, PrepStepIsQuiet, QuietSteps
  <1>4. CASE Maintain \/ FillStep
    BY <1>4, FillIsQuiet, QuietSteps
  <1>5. CASE MonitorStep
    BY <1>5, MonitorKeeps
  <1>6. ASSUME NEW x \in Id, Exit(x) PROVE AInv' /\ RunningIsNew
    BY <1>6, ExitIsQuiet, QuietSteps
  <1> QED BY <1>1, <1>2, <1>3, <1>4, <1>5, <1>6 DEF Next

\* However terminations, expiries, exits and launches interleave with the
\* monitor's awaits, no session is reported running after its end was reported
\* (monitorSessions and terminateSession of agent.ts).
THEOREM EndsAreFinal == Spec => NoRunningAfterEnd
  <1>1. AInv /\ [Next]_vars => [RunningIsNew]_vars
    BY AInvNext
  <1> QED BY <1>1, AInvInit, AInvNext, PTL DEF Spec, NoRunningAfterEnd, RunningIsNew
-------------------------------------------------------------------------------
(***************************************************************************)
(* The entries of a list that ensureWarmPool keeps                         *)
(***************************************************************************)
\* What the recursive function of Kept is made of up to the place m.
Keeping(f, seq, S, m) ==
    [n \in 0..m |-> IF n = 0 THEN <<>>
                    ELSE IF seq[n] \in S THEN Append(f[n - 1], seq[n])
                                         ELSE f[n - 1]]

\* There is such a function ...
LEMMA KeepingExists ==
    ASSUME NEW seq, NEW S, NEW N \in Nat
    PROVE  \E f : f = Keeping(f, seq, S, N)
<1> DEFINE Missing == {m \in Nat : ~ \E f : f = Keeping(f, seq, S, m)}
<1>1. SUFFICES ASSUME Missing # {} PROVE FALSE
  OBVIOUS
<1>2. PICK m \in Missing : \A y \in Missing : m <= y
  <2> Missing \subseteq Nat
    OBVIOUS
  <2> HIDE DEF Missing
  <2> QED BY <1>1, LeastNumber
<1>3. CASE m = 0
  <2> DEFINE f == [n \in 0..0 |-> <<>>]
  <2>1. f = Keeping(f, seq, S, 0)
    BY DEF Keeping
  <2> QED BY <1>2, <1>3, <2>1
<1>4. CASE m # 0
  <2>1. m \in Nat /\ m - 1 \in Nat /\ m - 1 < m
    BY <1>2, <1>4
  <2>2. m - 1 \notin Missing
    <3> HIDE DEF Missing
    <3> QED BY <1>2, <2>1
  <2>3. PICK f : f = Keeping(f, seq, S, m - 1)
    BY <2>1, <2>2
  <2> DEFINE g == [n \in 0..m |->
                     IF n = m
                     THEN IF seq[m] \in S THEN Append(f[m - 1], seq[m]) ELSE f[m - 1]
                     ELSE f[n]]
  <2>4. ASSUME NEW n \in 0..m
        PROVE  g[n] = IF n = 0 THEN <<>>
                      ELSE IF seq[n] \in S THEN Append(g[n - 1], seq[n])
                                           ELSE g[n - 1]
    <3>1. CASE n = m
      <4>1. m - 1 \in 0..m /\ m - 1 # m /\ m # 0
        BY <1>4, <2>1
      <4>2. g[m - 1] = f[m - 1]
        BY <4>1
      <4> QED BY <3>1, <4>1, <4>2
    <3>2. CASE n # m /\ n # 0
      <4>1. n \in 0..(m - 1) /\ n - 1 \in 0..m /\ n - 1 # m
        BY <2>1, <3>2
      <4>2. g[n - 1] = f[n - 1] /\ g[n] = f[n]
        BY <3>2, <4>1
      <4>3. Keeping(f, seq, S, m - 1)[n] =
              IF seq[n] \in S THEN Append(f[n - 1], seq[n]) ELSE f[n - 1]
        BY <3>2, <4>1 DEF Keeping
      <4> QED BY <2>3, <3>2, <4>2, <4>3
    <3>3. CASE n # m /\ n = 0
      <4>1. 0 \in 0..(m - 1)
        BY <2>1
      <4>2. Keeping(f, seq, S, m - 1)[0] = <<>>
        BY <4>1 DEF Keeping
      <4> QED BY <2>3, <3>3, <4>2
    <3> QED BY <3>1, <3>2, <3>3
  <2>5. g = Keeping(g, seq, S, m)
    <3>1. g = [n \in 0..m |-> g[n]]
      OBVIOUS
    <3> HIDE DEF g
    <3> QED BY <2>4, <3>1 DEF Keeping
  <2> QED BY <1>2, <2>5
<1> QED BY <1>3, <1>4

KeptTo(seq, S, N) == CHOOSE f : f = Keeping(f, seq, S, N)

LEMMA KeptUpTo ==
    ASSUME NEW seq, NEW S, NEW N \in Nat
    PROVE  KeptTo(seq, S, N) = Keeping(KeptTo(seq, S, N), seq, S, N)
<1>1. \E f : f = Keeping(f, seq, S, N)
  BY KeepingExists
<1> QED BY <1>1, Zenon DEF KeptTo

\* ... and so the entries that are kept are those in S.
LEMMA KeptList ==
    ASSUME NEW T, NEW seq \in Seq(T), IsInjective(seq), NEW S
    PROVE  /\ Kept(seq, S) \in Seq(T)
           /\ Len(Kept(seq, S)) <= Len(seq)
           /\ ToSet(Kept(seq, S)) = ToSet(seq) \cap S
           /\ IsInjective(Kept(seq, S))
<1>0. PICK N \in Nat : N = Len(seq)
  OBVIOUS
<1> DEFINE kept == KeptTo(seq, S, N)
           First(n) == {seq[j] : j \in 1..n}
           Right(n) == /\ kept[n] \in Seq(T)
                       /\ Len(kept[n]) <= n
                       /\ ToSet(kept[n]) = First(n) \cap S
                       /\ IsInjective(kept[n])
           Wrong == {n \in 0..N : ~ Right(n)}
<1>1. kept = Keeping(kept, seq, S, N)
  BY KeptUpTo
<1>2. Kept(seq, S) = kept[N]
  BY <1>0, Zenon DEF Kept, Keeping, KeptTo
<1> HIDE DEF kept
<1>3. Right(0)
  <2>1. kept[0] = <<>>
    BY <1>1 DEF Keeping
  <2> QED BY <2>1 DEF ToSet, IsInjective
<1>4. ASSUME NEW n \in 0..N, n # 0, Right(n - 1)
      PROVE  Right(n)
  <2>1. /\ n \in 1..N /\ n - 1 \in Nat /\ (n - 1) + 1 = n
        /\ seq[n] \in T /\ DOMAIN seq = 1..N
    BY <1>0, <1>4
  <2>2. kept[n] = IF seq[n] \in S THEN Append(kept[n - 1], seq[n]) ELSE kept[n - 1]
    BY <1>1, <1>4 DEF Keeping
  <2>3. First(n) = First(n - 1) \cup {seq[n]}
    <3>1. 1..n = (1..(n - 1)) \cup {n}
      BY <2>1
    <3> QED BY <3>1
  <2>4. seq[n] \notin First(n - 1)
    <3>1. \A j \in 1..(n - 1) : j \in 1..N /\ j # n
      BY <2>1
    <3> QED BY <2>1, <3>1 DEF IsInjective
  <2> HIDE DEF First
  <2>5. CASE seq[n] \in S
    <3>1. seq[n] \notin ToSet(kept[n - 1])
      BY <1>4, <2>4
    <3>2. /\ kept[n] \in Seq(T) /\ IsInjective(kept[n])
          /\ ToSet(kept[n]) = ToSet(kept[n - 1]) \cup {seq[n]}
      BY <1>4, <2>1, <2>2, <2>5, <3>1, LongerList
    <3>3. Len(kept[n]) = Len(kept[n - 1]) + 1
      BY <1>4, <2>2, <2>5
    <3>4. Len(kept[n]) <= n
      <4>1. Len(kept[n - 1]) \in Nat
        BY <1>4
      <4> QED BY <1>4, <2>1, <3>3, <4>1
    <3> QED BY <1>4, <2>3, <2>5, <3>2, <3>4
  <2>6. CASE seq[n] \notin S
    <3>1. kept[n] = kept[n - 1] /\ First(n) \cap S = First(n - 1) \cap S
      BY <2>2, <2>3, <2>6
    <3>2. Len(kept[n - 1]) \in Nat
      BY <1>4
    <3> QED BY <1>4, <2>1, <3>1, <3>2
  <2> QED BY <2>5, <2>6
<1>5. Right(N)
  <2> SUFFICES ASSUME ~ Right(N) PROVE FALSE
    OBVIOUS
  <2> HIDE DEF Right
  <2>1. N \in Wrong
    OBVIOUS
  <2>2. PICK n \in Wrong : \A y \in Wrong : n <= y
    <3>1. Wrong \subseteq Nat /\ Wrong # {}
      BY <2>1
    <3> HIDE DEF Wrong
    <3> QED BY <3>1, LeastNumber
  <2>3. n \in 0..N /\ ~ Right(n)
    OBVIOUS
  <2>4. n # 0
    BY <1>3, <2>3
  <2>5. n - 1 \in 0..N /\ n - 1 < n
    BY <2>3, <2>4
  <2>6. Right(n - 1)
    <3>1. n - 1 \notin Wrong
      <4> HIDE DEF Wrong
      <4> QED BY <2>2, <2>5, <2>3
    <3> QED BY <2>5, <3>1
  <2> QED BY <1>4, <2>3, <2>4, <2>6
<1>6. First(N) = ToSet(seq)
  BY <1>0 DEF ToSet
<1> HIDE DEF First
<1> QED BY <1>0, <1>2, <1>5, <1>6
-------------------------------------------------------------------------------
(***************************************************************************)
(* Lines and the rest of the state keep their types                        *)
(***************************************************************************)
Lines == /\ {claimLine, coldLine} \subseteq Seq(Call)
         /\ refillLine \in Seq(Warm)

\* What Build starts: some of the ids left, as many as it means to.
LEMMA SomeOfThem ==
    ASSUME NEW S, IsFiniteSet(S), NEW k, NEW W \in kSubset(k, S)
    PROVE  W \subseteq S /\ IsFiniteSet(W) /\ Cardinality(W) = k
<1>1. W \subseteq S /\ Cardinality(W) = k
  BY DEF kSubset
<1> QED BY <1>1, FS_Subset

LEMMA JoinLine ==
    ASSUME NEW T, NEW line \in Seq(T), NEW x \in T
    PROVE  Append(line, x) \in Seq(T)
OBVIOUS

LEMMA LeftLine ==
    ASSUME NEW T, NEW line \in Seq(T), NEW x
    PROVE  LeaveLine(line, x) \in Seq(T)
BY ShorterList DEF LeaveLine

LEMMA LinesKept == Lines /\ [Next]_vars => Lines'
<1> SUFFICES ASSUME Lines, [Next]_vars PROVE Lines'
  OBVIOUS
<1>0. claimLine \in Seq(Call) /\ coldLine \in Seq(Call) /\ refillLine \in Seq(Warm)
  BY DEF Lines
<1>1. CASE UNCHANGED <<claimLine, coldLine, refillLine>>
  BY <1>1 DEF Lines
<1>2. ASSUME NEW c \in Call, Admit(c) \/ Refuse(c) \/ CallStep(c)
      PROVE  Lines'
  <2>1. /\ refillLine' = refillLine
        /\ \/ claimLine' = claimLine \/ claimLine' = Append(claimLine, c)
           \/ claimLine' = LeaveLine(claimLine, c)
        /\ \/ coldLine' = coldLine \/ coldLine' = Append(coldLine, c)
           \/ coldLine' = LeaveLine(coldLine, c)
    BY <1>2 DEF Admit, Refuse, CallStep, Claim, HandOver, HandOverFails, GiveUp,
                CheckPasses, CheckFails, Spawn, Restored, RestoreFails, Undone, lines
  <2>2. claimLine' \in Seq(Call)
    BY <1>0, <2>1, JoinLine, LeftLine
  <2>3. coldLine' \in Seq(Call)
    BY <1>0, <2>1, JoinLine, LeftLine
  <2> QED BY <1>0, <2>1, <2>2, <2>3 DEF Lines
<1>3. ASSUME NEW w \in Warm, PrepStep(w) PROVE Lines'
  <2>1. /\ UNCHANGED <<claimLine, coldLine>>
        /\ \/ refillLine' = refillLine
           \/ refillLine' = LeaveLine(refillLine, w)
    BY <1>3 DEF PrepStep, PrepBegins, PrepSpawns, PrepEnds, PrepFails, PrepThrows,
                PrepTimesOut, PrepGivenUp, lines
  <2>2. refillLine' \in Seq(Warm)
    BY <1>0, <2>1, LeftLine
  <2> QED BY <1>0, <2>1, <2>2 DEF Lines
<1>4. CASE Build
  <2>1. UNCHANGED <<claimLine, coldLine>>
    BY <1>4 DEF Build
  <2>2. PICK k : \E W \in kSubset(k, {w \in Warm : prep[w] = "new"}) :
                    refillLine' = refillLine \o SetToSeq(W)
    BY <1>4 DEF Build
  <2>3. PICK W \in kSubset(k, {w \in Warm : prep[w] = "new"}) :
             refillLine' = refillLine \o SetToSeq(W)
    BY <2>2
  <2>4. IsFiniteSet({w \in Warm : prep[w] = "new"})
    BY AgentAssumption, FS_Subset
  <2>5. W \subseteq Warm /\ IsFiniteSet(W)
    BY <2>3, <2>4, SomeOfThem
  <2>6. SetToSeq(W) \in Seq(Warm)
    BY <2>5, SetAsList
  <2>7. refillLine' \in Seq(Warm)
    BY <1>0, <2>3, <2>6
  <2> QED BY <1>0, <2>1, <2>7 DEF Lines
<1>5. CASE \/ UNCHANGED vars \/ Maintain \/ FillEnds
           \/ \E w \in Warm : Probe(w) \/ ProbeAnswered(w) \/ ProbeFails(w)
           \/ MonitorStep \/ \E x \in Id : Exit(x)
           \/ \E c \in Call : Terminate(c) \/ EndReported(c)
  <2>1. UNCHANGED <<claimLine, coldLine, refillLine>>
    BY <1>5 DEF vars, lines, Maintain, FillEnds, Probe, ProbeAnswered, ProbeFails,
        MonitorStep, MonitorBegins, Reconcile, MonitorEnds, Visit, MonitorReports,
        MonitorGoesOn, MonitorExpires, ReconcileKills, Exit, Terminate, EndReported
  <2> QED BY <1>1, <2>1
<1> QED BY <1>2, <1>3, <1>4, <1>5 DEF Next, FillStep
-------------------------------------------------------------------------------
(***************************************************************************)
(* The warm pool                                                           *)
(***************************************************************************)
PoolTypes == /\ config \in Configs
             /\ {ready, late, preparing} \subseteq SUBSET Warm
             /\ pool \in Seq(Warm)
             /\ prep \in [Warm -> {"new", "queued", "restoring", "verifying",
                                   "failing", "over"}]

Begun == {w \in Warm : prep[w] # "new"}
Running == {w \in Warm : prep[w] \in {"queued", "restoring", "verifying", "failing"}}
Done == {w \in Warm : prep[w] = "over"}
LiveWarm == {w \in Warm : vm[w] = "up"}

\* What is pooled or ready has been prepared to the end, so that no id comes
\* to the pool twice; what is being prepared in time is counted, so that its
\* place is free when it comes to the pool.  With it goes that the machines
\* are finitely many, which the fill target counts.
PoolInv == /\ PoolTypes
           /\ PoolIsBounded
           /\ ready \cap LiveWarm \subseteq ToSet(pool) \cup late
           /\ ToSet(pool) \cup ready \subseteq Done
           /\ preparing \subseteq Begun
           /\ Running \subseteq late \cup preparing
           /\ IsFiniteSet(Tracked)

LEMMA PoolInvInit == Init => PoolInv
<1> SUFFICES ASSUME Init PROVE PoolInv
  OBVIOUS
<1>1. /\ pool = <<>> /\ preparing = {} /\ ready = {} /\ late = {}
      /\ prep = [w \in Warm |-> "new"] /\ config \in Configs
      /\ vm = [x \in Id |-> "none"]
  BY DEF Init
<1>2. PoolTypes
  BY <1>1 DEF PoolTypes
<1>3. ToSet(pool) = {} /\ Len(pool) = 0 /\ IsInjective(pool)
  BY <1>1 DEF ToSet, IsInjective
<1>4. PoolIsBounded
  <2>1. Cardinality(preparing) = 0
    BY <1>1, FS_EmptySet
  <2>2. config.pool \in Nat
    BY <1>1, AgentAssumption
  <2> QED BY <1>3, <2>1, <2>2 DEF PoolIsBounded
<1>5. Running = {} /\ Tracked = {}
  BY <1>1 DEF Running, Tracked
<1> QED BY <1>1, <1>2, <1>3, <1>4, <1>5, FS_EmptySet DEF PoolInv

LEMMA Counted ==
    ASSUME PoolTypes
    PROVE  /\ IsFiniteSet(preparing) /\ Cardinality(preparing) \in Nat
           /\ config.pool \in Nat /\ config.microvms \in Nat
           /\ Len(pool) \in Nat
<1>1. IsFiniteSet(preparing)
  BY AgentAssumption, FS_Subset DEF PoolTypes
<1> QED BY <1>1, AgentAssumption, FS_CardinalityType DEF PoolTypes

\* At most one machine more after every step of the agent.
OneMore == \E x : Tracked' \subseteq Tracked \cup {x}

LEMMA FewMachines ==
    ASSUME IsFiniteSet(Tracked), OneMore PROVE IsFiniteSet(Tracked')
<1>1. PICK x : Tracked' \subseteq Tracked \cup {x}
  BY DEF OneMore
<1>2. IsFiniteSet(Tracked \cup {x})
  BY FS_AddElement
<1> QED BY <1>1, <1>2, FS_Subset

\* Steps that leave the pool and its preparations alone, and bring no warm
\* machine to life.
PoolQuiet == /\ UNCHANGED <<config, pool, prep, late, preparing>>
             /\ ready' \subseteq ready
             /\ LiveWarm' \subseteq LiveWarm
             /\ OneMore

LEMMA PoolQuietSteps == PoolInv /\ PoolQuiet => PoolInv'
<1> SUFFICES ASSUME PoolInv, PoolQuiet PROVE PoolInv'
  OBVIOUS
<1>1. PoolTypes' /\ PoolIsBounded'
  BY DEF PoolInv, PoolQuiet, PoolTypes, PoolIsBounded
<1>2. Done' = Done /\ Begun' = Begun /\ Running' = Running
  BY DEF PoolQuiet, Done, Begun, Running
<1>3. /\ (ready \cap LiveWarm \subseteq ToSet(pool) \cup late)'
      /\ (ToSet(pool) \cup ready \subseteq Done)'
      /\ (preparing \subseteq Begun)'
      /\ (Running \subseteq late \cup preparing)'
  BY <1>2 DEF PoolInv, PoolQuiet
<1>4. IsFiniteSet(Tracked')
  BY FewMachines DEF PoolInv, PoolQuiet
<1> QED BY <1>1, <1>3, <1>4 DEF PoolInv

\* What may change in the machines of warm ids when a launch steps, or the
\* agent ends a machine: none comes to life.
LEMMA NoWarmLife ==
    ASSUME Shapes, NEW c \in Call, NEW v,
           vm' = vm \/ vm' = [vm EXCEPT ![c] = v]
    PROVE  LiveWarm' \subseteq LiveWarm /\ OneMore
<1>1. \A x \in Id : x # c => vm'[x] = vm[x]
  BY DEF Shapes
<1>2. \A w \in Warm : w # c /\ w \in Id
  BY Kinds
<1>3. Tracked' \subseteq Tracked \cup {c}
  BY <1>1 DEF Tracked
<1> QED BY <1>1, <1>2, <1>3 DEF LiveWarm, OneMore

LEMMA NoLife ==
    ASSUME Shapes,
           \A x \in Id : vm'[x] \in {"none", "exited"} \/ vm'[x] = vm[x],
           \A x \in Id : vm[x] = "none" => vm'[x] = "none"
    PROVE  LiveWarm' \subseteq LiveWarm /\ OneMore
<1>1. Tracked' \subseteq Tracked
  BY DEF Tracked
<1>2. LiveWarm' \subseteq LiveWarm
  BY Kinds DEF LiveWarm
<1> QED BY <1>1, <1>2 DEF OneMore
LEMMA CallStepSparesPool ==
    ASSUME AInv, NEW c \in Call, ~ Claim(c),
           Admit(c) \/ Refuse(c) \/ CallStep(c) \/ Terminate(c) \/ EndReported(c)
    PROVE  PoolQuiet
<1>1. /\ UNCHANGED <<config, pool, prep, late, preparing, ready>>
      /\ \E v : vm' = vm \/ vm' = [vm EXCEPT ![c] = v]
  BY DEF Admit, Refuse, CallStep, HandOver, HandOverFails, GiveUp, CheckPasses,
         CheckFails, Spawn, Restored, RestoreFails, Undone, Terminate, EndSession,
         EndReported, warming
<1> QED BY <1>1, NoWarmLife DEF PoolQuiet, AInv

LEMMA FillSparesPool ==
    ASSUME PoolInv, AInv,
           \/ Maintain \/ FillEnds
           \/ \E w \in Warm : Probe(w) \/ ProbeAnswered(w) \/ ProbeFails(w)
    PROVE  PoolQuiet
<1>1. /\ UNCHANGED <<config, pool, prep, late, preparing>> /\ ready' \subseteq ready
      /\ vm' = vm \/ \E w \in Warm : ProbeFails(w)
  BY DEF Maintain, FillEnds, Probe, ProbeAnswered, ProbeFails
<1>2. /\ \A x \in Id : vm'[x] \in {"none", "exited"} \/ vm'[x] = vm[x]
      /\ \A x \in Id : vm[x] = "none" => vm'[x] = "none"
  BY <1>1 DEF ProbeFails
<1> QED BY <1>1, <1>2, NoLife DEF PoolQuiet, AInv

LEMMA MonitorSparesPool ==
    ASSUME AInv, MonitorStep \/ \E x \in Id : Exit(x) PROVE PoolQuiet
<1>1. UNCHANGED <<config, pool, prep, late, preparing>> /\ ready' \subseteq ready
  BY DEF MonitorStep, MonitorBegins, Reconcile, MonitorEnds, Visit, MonitorReports,
         MonitorGoesOn, MonitorExpires, ReconcileKills, Exit, warming
<1>2. \/ vm' = vm \/ \E x \in Id : vm' = [vm EXCEPT ![x] = "none"]
      \/ \E x \in Id : vm' = [vm EXCEPT ![x] = "exited"] /\ vm[x] = "up"
  BY Kinds DEF MonitorStep, MonitorBegins, Reconcile, MonitorEnds, Visit,
         MonitorReports, MonitorGoesOn, MonitorExpires, EndSession, ReconcileKills, Exit
<1>3. /\ \A x \in Id : vm'[x] \in {"none", "exited"} \/ vm'[x] = vm[x]
      /\ \A x \in Id : vm[x] = "none" => vm'[x] = "none"
  BY <1>2 DEF AInv, Shapes
<1> QED BY <1>1, <1>3, NoLife DEF PoolQuiet, AInv

\* Where the loop of the claim stops: nowhere, or at a place of the pool.
LEMMA ClaimPlace ==
    ASSUME pool \in Seq(Warm), NEW i, i = SelectInSeq(pool, Claimable)
    PROVE  i = 0 \/ (i \in 1..Len(pool) /\ pool[i] \in Warm)
<1> DEFINE I == {j \in 1..Len(pool) : Claimable(pool[j])}
<1>1. CASE I = {}
  BY <1>1 DEF SelectInSeq
<1>2. CASE I # {}
  <2>1. i = Min(I)
    BY <1>2 DEF SelectInSeq
  <2>2. I \subseteq 1..Len(pool) /\ Len(pool) \in Nat
    OBVIOUS
  <2> HIDE DEF I
  <2>3. i \in 1..Len(pool)
    BY <1>2, <2>1, <2>2, FoundPlace
  <2> QED BY <2>3
<1> QED BY <1>1, <1>2

\* The ids a launch shifts off the pool are no longer ready: the pool gets
\* shorter, and what is ready and live still is in it.
LEMMA ClaimKeepsPool ==
    ASSUME PoolInv, AInv, NEW c \in Call, Claim(c) PROVE PoolInv'
<1>0. PICK i : i = SelectInSeq(pool, Claimable)
  OBVIOUS
<1>1. i = 0 \/ (i \in 1..Len(pool) /\ pool[i] \in Warm)
  BY <1>0, ClaimPlace DEF PoolInv, PoolTypes
<1>2. UNCHANGED <<config, prep, late, preparing>>
  BY DEF Claim
<1>3. /\ pool' \in Seq(Warm) /\ IsInjective(pool') /\ Len(pool') <= Len(pool)
      /\ ToSet(pool') \subseteq ToSet(pool) /\ ready' \subseteq ready
      /\ ToSet(pool) \cap ready' \subseteq ToSet(pool')
  <2>1. CASE i = 0
    <3>1. pool' = <<>> /\ ready' = ready \ ToSet(pool)
      BY <1>0, <2>1 DEF Claim
    <3>2. Len(pool) \in Nat
      BY DEF PoolInv, PoolTypes
    <3>3. pool' \in Seq(Warm) /\ Len(pool') = 0 /\ IsInjective(pool') /\ ToSet(pool') = {}
      BY <3>1 DEF IsInjective, ToSet
    <3> QED BY <3>1, <3>2, <3>3
  <2>2. CASE i # 0
    <3>1. /\ pool' = SubSeq(pool, i + 1, Len(pool))
          /\ ready' = ready \ ToSet(SubSeq(pool, 1, i))
      BY <1>0, <2>2 DEF Claim
    <3>2. pool \in Seq(Warm) /\ IsInjective(pool) /\ i \in 1..Len(pool)
      BY <1>1, <2>2 DEF PoolInv, PoolTypes, PoolIsBounded
    <3>3. /\ SubSeq(pool, i + 1, Len(pool)) \in Seq(Warm)
          /\ Len(SubSeq(pool, i + 1, Len(pool))) <= Len(pool)
          /\ IsInjective(SubSeq(pool, i + 1, Len(pool)))
          /\ ToSet(SubSeq(pool, i + 1, Len(pool))) \subseteq ToSet(pool)
          /\ ToSet(pool) \subseteq ToSet(SubSeq(pool, 1, i))
                                \cup ToSet(SubSeq(pool, i + 1, Len(pool)))
      BY <3>2, CutList
    <3> QED BY <3>1, <3>3
  <2> QED BY <2>1, <2>2
<1>4. LiveWarm' \subseteq LiveWarm /\ OneMore
  <2>1. \/ vm' = vm \/ vm' = [vm EXCEPT ![pool[i]] = "none", ![c] = "up"]
        \/ vm' = [vm EXCEPT ![pool[i]] = "none"]
    BY <1>0 DEF Claim
  <2>2. \A x \in Id : x # c => vm'[x] \in {"none", vm[x]}
    BY <2>1 DEF AInv, Shapes
  <2>3. Tracked' \subseteq Tracked \cup {c}
    BY <2>2 DEF Tracked
  <2>4. \A w \in Warm : w # c /\ w \in Id
    BY Kinds
  <2> QED BY <2>2, <2>3, <2>4 DEF LiveWarm, OneMore
<1>5. PoolTypes'
  BY <1>2, <1>3 DEF PoolInv, PoolTypes
<1>6. PoolIsBounded'
  <2>1. /\ Len(pool) \in Nat /\ Cardinality(preparing) \in Nat /\ config.pool \in Nat
        /\ Len(pool) + Cardinality(preparing) <= config.pool /\ Len(pool') \in Nat
    BY <1>3, Counted DEF PoolInv, PoolIsBounded
  <2>2. Len(pool') + Cardinality(preparing) <= config.pool
    BY <1>3, <2>1
  <2> QED BY <1>2, <1>3, <2>2 DEF PoolIsBounded
<1>7. Done' = Done /\ Begun' = Begun /\ Running' = Running
  BY <1>2 DEF Done, Begun, Running
<1>8. (ready \cap LiveWarm \subseteq ToSet(pool) \cup late)'
  BY <1>2, <1>3, <1>4 DEF PoolInv
<1>9. /\ (ToSet(pool) \cup ready \subseteq Done)'
      /\ (preparing \subseteq Begun)'
      /\ (Running \subseteq late \cup preparing)'
  BY <1>2, <1>3, <1>7 DEF PoolInv
<1>10. IsFiniteSet(Tracked')
  BY <1>4, FewMachines DEF PoolInv
<1> QED BY <1>5, <1>6, <1>8, <1>9, <1>10 DEF PoolInv
\* Steps of a preparation that give no id to the pool: it goes on, and stops
\* being counted only once it is late or over.
PrepQuiet == /\ UNCHANGED <<config, pool, ready>>
             /\ late \subseteq late' /\ late' \subseteq Warm
             /\ preparing' \subseteq preparing
             /\ prep' \in [Warm -> {"new", "queued", "restoring", "verifying",
                                    "failing", "over"}]
             /\ Done \subseteq Done' /\ Begun \subseteq Begun'
             /\ Running' \subseteq late' \cup preparing'
             /\ ready \cap LiveWarm' \subseteq LiveWarm
             /\ OneMore

LEMMA PrepQuietSteps == PoolInv /\ PrepQuiet => PoolInv'
<1> SUFFICES ASSUME PoolInv, PrepQuiet PROVE PoolInv'
  OBVIOUS
<1>1. PoolTypes'
  BY DEF PoolInv, PoolTypes, PrepQuiet
<1>2. PoolIsBounded'
  <2>1. IsFiniteSet(preparing) /\ preparing' \in SUBSET preparing
    BY Counted DEF PoolInv, PrepQuiet
  <2>2. Cardinality(preparing') <= Cardinality(preparing)
    BY <2>1, FS_Subset
  <2>3. /\ Cardinality(preparing') \in Nat /\ Cardinality(preparing) \in Nat
        /\ config.pool \in Nat /\ Len(pool) \in Nat
    BY <1>1, <2>1, Counted, FS_Subset, FS_CardinalityType DEF PoolInv
  <2>4. Len(pool) + Cardinality(preparing') <= config.pool
    BY <2>2, <2>3 DEF PoolInv, PoolIsBounded
  <2> QED BY <2>4 DEF PoolInv, PoolIsBounded, PrepQuiet
<1>3. (ready \cap LiveWarm \subseteq ToSet(pool) \cup late)'
  BY DEF PoolInv, PrepQuiet
<1>4. /\ (ToSet(pool) \cup ready \subseteq Done)'
      /\ (preparing \subseteq Begun)'
      /\ (Running \subseteq late \cup preparing)'
  BY DEF PoolInv, PrepQuiet
<1>5. IsFiniteSet(Tracked')
  BY FewMachines DEF PoolInv, PrepQuiet
<1> QED BY <1>1, <1>2, <1>3, <1>4, <1>5 DEF PoolInv

\* The machine of a preparation under way is no warm VM yet.
LEMMA PrepStepKeepsPool ==
    ASSUME PoolInv, AInv, NEW w \in Warm, PrepStep(w), ~ PrepEnds(w)
    PROVE  PoolInv'
<1> USE DEF PoolInv, PoolTypes
<1>0. w \in Id /\ vm \in [Id -> {"none", "up", "exited"}]
  BY Kinds DEF AInv, Shapes
<1>1. \/ PrepBegins(w) \/ PrepSpawns(w) \/ PrepFails(w)
      \/ PrepThrows(w) \/ PrepTimesOut(w) \/ PrepGivenUp(w)
  BY DEF PrepStep
<1>2. /\ UNCHANGED <<config, pool, ready>>
      /\ late \subseteq late' /\ late' \subseteq Warm
      /\ preparing' \subseteq preparing
  BY <1>1 DEF PrepBegins, PrepSpawns, PrepFails, PrepThrows, PrepTimesOut, PrepGivenUp
<1>3. OneMore
  <2>1. vm' = vm \/ \E v : vm' = [vm EXCEPT ![w] = v]
    BY <1>1 DEF PrepBegins, PrepSpawns, PrepFails, PrepThrows, PrepTimesOut, PrepGivenUp
  <2>2. \A x \in Id : x # w => vm'[x] = vm[x]
    BY <1>0, <2>1
  <2>3. Tracked' \subseteq Tracked \cup {w}
    BY <2>2 DEF Tracked
  <2> QED BY <2>3 DEF OneMore
<1>4. ready \cap LiveWarm' \subseteq LiveWarm
  <2>1. \/ vm' = vm \/ vm' = [vm EXCEPT ![w] = "none"]
        \/ (vm' = [vm EXCEPT ![w] = "up"] /\ prep[w] = "restoring")
    BY <1>1 DEF PrepBegins, PrepSpawns, PrepFails, PrepThrows, PrepTimesOut, PrepGivenUp
  <2>2. prep[w] = "restoring" => w \notin ready
    BY DEF Done
  <2>3. \A x \in Warm : x \in Id
    BY Kinds
  <2> QED BY <1>0, <2>1, <2>2, <2>3 DEF LiveWarm
<1>5. \/ UNCHANGED prep
      \/ /\ prep[w] \in {"queued", "restoring", "verifying"}
         /\ \E v \in {"restoring", "verifying", "failing"} :
               prep' = [prep EXCEPT ![w] = v]
         /\ UNCHANGED <<late, preparing>>
      \/ /\ prep[w] = "failing"
         /\ prep' = [prep EXCEPT ![w] = "over"]
  BY <1>1 DEF PrepBegins, PrepSpawns, PrepFails, PrepThrows, PrepTimesOut, PrepGivenUp
<1>6. /\ prep' \in [Warm -> {"new", "queued", "restoring", "verifying",
                             "failing", "over"}]
      /\ Done \subseteq Done' /\ Begun \subseteq Begun'
      /\ Running' \subseteq Running
  BY <1>5 DEF Done, Begun, Running
<1>7. Running' \subseteq late' \cup preparing'
  <2>1. ASSUME NEW x \in Running' PROVE x \in late' \cup preparing'
    <3>1. x \in late \cup preparing
      BY <1>6
    <3>2. CASE x # w
      <4>1. preparing \ {w} \subseteq preparing'
        BY <1>1 DEF PrepBegins, PrepSpawns, PrepFails, PrepThrows, PrepTimesOut,
                    PrepGivenUp
      <4> QED BY <1>2, <3>1, <3>2, <4>1
    <3>3. CASE x = w
      <4>1. ~ PrepThrows(w)
        BY <2>1, <3>3 DEF PrepThrows, Running
      <4>2. w \in late' \/ preparing' = preparing
        BY <1>1, <4>1 DEF PrepBegins, PrepSpawns, PrepFails, PrepTimesOut, PrepGivenUp
      <4> QED BY <1>2, <3>1, <3>3, <4>2
    <3> QED BY <3>2, <3>3
  <2> QED BY <2>1
<1>8. PrepQuiet
  BY <1>2, <1>3, <1>4, <1>6, <1>7 DEF PrepQuiet
<1> QED BY <1>8, PrepQuietSteps

\* A preparation that ends in time takes a place of the pool for the one it
\* had while it was counted; one that ends late takes none.
LEMMA PrepEndsKeepsPool ==
    ASSUME PoolInv, AInv, NEW w \in Warm, PrepEnds(w) PROVE PoolInv'
<1>1. /\ PoolTypes /\ prep[w] = "verifying" /\ ready' = ready \cup {w}
      /\ prep' = [prep EXCEPT ![w] = "over"] /\ UNCHANGED <<config, vm, late>>
  BY DEF PrepEnds, PoolInv
<1>2. /\ prep' \in [Warm -> {"new", "queued", "restoring", "verifying",
                             "failing", "over"}]
      /\ Done' = Done \cup {w} /\ Begun' = Begun /\ Running' = Running \ {w}
      /\ LiveWarm' = LiveWarm /\ Tracked' = Tracked /\ w \notin Done /\ w \in Running
  BY <1>1 DEF PoolTypes, Done, Begun, Running, LiveWarm, Tracked
<1>3. w \notin ToSet(pool)
  BY <1>2 DEF PoolInv
<1>4. CASE w \in late
  <2>1. UNCHANGED <<pool, preparing>>
    BY <1>4 DEF PrepEnds
  <2>2. PoolTypes' /\ PoolIsBounded'
    BY <1>1, <1>2, <2>1 DEF PoolInv, PoolTypes, PoolIsBounded
  <2>3. /\ (ready \cap LiveWarm \subseteq ToSet(pool) \cup late)'
        /\ (ToSet(pool) \cup ready \subseteq Done)'
        /\ (preparing \subseteq Begun)'
        /\ (Running \subseteq late \cup preparing)'
    BY <1>1, <1>2, <1>4, <2>1 DEF PoolInv
  <2> QED BY <1>2, <2>2, <2>3 DEF PoolInv
<1>5. CASE w \notin late
  <2>1. pool' = Append(pool, w) /\ preparing' = preparing \ {w}
    BY <1>5 DEF PrepEnds
  <2>2. pool \in Seq(Warm) /\ IsInjective(pool) /\ w \in preparing
    BY <1>1, <1>2, <1>5 DEF PoolInv, PoolTypes, PoolIsBounded
  <2>3. /\ pool' \in Seq(Warm) /\ IsInjective(pool')
        /\ ToSet(pool') = ToSet(pool) \cup {w}
    BY <1>3, <2>1, <2>2, LongerList
  <2>4. PoolTypes'
    BY <1>1, <1>2, <2>1, <2>3 DEF PoolTypes
  <2>5. PoolIsBounded'
    <3>1. Len(pool') = Len(pool) + 1
      BY <2>1, <2>2
    <3>2. Cardinality(preparing') = Cardinality(preparing) - 1
      BY <1>1, <2>1, <2>2, Counted, FS_RemoveElement
    <3>3. /\ Len(pool) \in Nat /\ Cardinality(preparing) \in Nat
          /\ config.pool \in Nat
          /\ Len(pool) + Cardinality(preparing) <= config.pool
      BY <1>1, Counted DEF PoolInv, PoolIsBounded
    <3>4. Len(pool') + Cardinality(preparing') <= config.pool
      BY <3>1, <3>2, <3>3
    <3> QED BY <1>1, <2>3, <3>4 DEF PoolIsBounded
  <2>6. /\ (ready \cap LiveWarm \subseteq ToSet(pool) \cup late)'
        /\ (ToSet(pool) \cup ready \subseteq Done)'
        /\ (preparing \subseteq Begun)'
        /\ (Running \subseteq late \cup preparing)'
    BY <1>1, <1>2, <2>1, <2>3 DEF PoolInv
  <2> QED BY <1>2, <2>4, <2>5, <2>6 DEF PoolInv
<1> QED BY <1>4, <1>5

\* The fill target leaves room for what is in the pool and on the way to it.
LEMMA FillTargetFits ==
    ASSUME PoolTypes, IsFiniteSet(Tracked), NEW depth \in Nat
    PROVE  /\ FillTarget(depth) \in Int
           /\ \/ FillTarget(depth) = 0
              \/ FillTarget(depth) <= (config.pool - depth) - Cardinality(preparing)
<1> DEFINE missing == config.pool - depth - Cardinality(preparing)
           room == config.microvms - Cardinality(Tracked) - Cardinality(preparing)
           floor == Max({2, config.pool \div 4})
           half == FillConcurrency \div (IF depth >= floor THEN 2 ELSE 1)
           cap == Max({1, half})
<1>1. /\ Cardinality(preparing) \in Nat /\ config.pool \in Nat
      /\ config.microvms \in Nat /\ Cardinality(Tracked) \in Nat
      /\ FillConcurrency \in Nat
  BY Counted, AgentAssumption, FS_CardinalityType
<1>2. missing \in Int /\ room \in Int /\ half \in Int
  BY <1>1
<1>3. FillTarget(depth) = IF missing <= 0 \/ room <= 0 THEN 0
                          ELSE Min({missing, room, cap})
  BY DEF FillTarget
<1> HIDE DEF missing, room, floor, half
<1>4. cap \in Int
  BY <1>2, MaxTwo
<1> HIDE DEF cap
<1>5. Min({missing, room, cap}) \in Int /\ Min({missing, room, cap}) <= missing
  BY <1>2, <1>4, MinThree
<1>6. FillTarget(depth) \in Int /\ (FillTarget(depth) = 0 \/ FillTarget(depth) <= missing)
  BY <1>3, <1>5
<1>7. missing = (config.pool - depth) - Cardinality(preparing)
  BY DEF missing
<1> QED BY <1>6, <1>7

\* The pool keeps its live ids, and no more preparations start than are missing.
LEMMA BuildKeepsPool == ASSUME PoolInv, AInv, Build PROVE PoolInv'
<1> DEFINE fresh == {w \in Warm : prep[w] = "new"}
<1>1. /\ PoolTypes /\ IsFiniteSet(Tracked) /\ UNCHANGED <<config, vm, ready, late>>
  BY DEF Build, PoolInv
<1>2. PICK kept : kept = Kept(pool, {w \in Warm : vm[w] = "up"})
  OBVIOUS
<1>3. PICK k : k = Min({FillTarget(Len(kept)), Cardinality(fresh)})
  OBVIOUS
<1>4. PICK W \in kSubset(k, fresh) :
          /\ pool' = kept
          /\ prep' = [w \in Warm |-> IF w \in W THEN "queued" ELSE prep[w]]
          /\ preparing' = preparing \cup W
  BY <1>2, <1>3 DEF Build
<1>5. IsFiniteSet(fresh) /\ Cardinality(fresh) \in Nat
  BY AgentAssumption, FS_Subset, FS_CardinalityType
<1>6. W \subseteq fresh /\ IsFiniteSet(W) /\ Cardinality(W) = k
  BY <1>4, <1>5, SomeOfThem
<1>7. W \subseteq Warm /\ W \cap Begun = {}
  BY <1>6 DEF Begun
<1>8. /\ kept \in Seq(Warm) /\ Len(kept) <= Len(pool) /\ IsInjective(kept)
      /\ ToSet(kept) = ToSet(pool) \cap LiveWarm
  BY <1>1, <1>2, KeptList DEF PoolTypes, PoolInv, PoolIsBounded, LiveWarm
<1>9. Len(kept) \in Nat /\ Len(pool) \in Nat
  BY <1>1, <1>8 DEF PoolTypes
<1>10. k \in Nat /\ (k = 0 \/ k <= (config.pool - Len(kept)) - Cardinality(preparing))
  <2>1. /\ FillTarget(Len(kept)) \in Int
        /\ \/ FillTarget(Len(kept)) = 0
           \/ FillTarget(Len(kept)) <= (config.pool - Len(kept)) - Cardinality(preparing)
    BY <1>1, <1>9, FillTargetFits
  <2>2. k <= FillTarget(Len(kept))
    <3>1. PICK a \in Int : a = FillTarget(Len(kept))
      BY <2>1
    <3>2. PICK b \in Int : b = Cardinality(fresh)
      BY <1>5
    <3>3. k = Min({a, b})
      BY <1>3, <3>1, <3>2
    <3>4. Min({a, b}) <= a
      BY MinTwo
    <3> QED BY <3>1, <3>3, <3>4
  <2>3. k \in Nat
    BY <1>6, FS_CardinalityType
  <2>4. config.pool \in Nat /\ Cardinality(preparing) \in Nat
    BY <1>1, Counted
  <2> QED BY <1>9, <2>1, <2>2, <2>3, <2>4
<1> HIDE DEF fresh
<1>11. PoolTypes'
  <2>1. prep' \in [Warm -> {"new", "queued", "restoring", "verifying",
                            "failing", "over"}]
    BY <1>1, <1>4 DEF PoolTypes
  <2> QED BY <1>1, <1>4, <1>7, <1>8, <2>1 DEF PoolTypes
<1>12. PoolIsBounded'
  <2>1. W \cap preparing = {}
    BY <1>7 DEF PoolInv
  <2>2. Cardinality(preparing') = Cardinality(preparing) + k
    <3>1. IsFiniteSet(preparing) /\ Cardinality(preparing) \in Nat
      BY <1>1, Counted
    <3>2. Cardinality(preparing \cup W) = Cardinality(preparing) + Cardinality(W)
                                          - Cardinality(preparing \cap W)
      BY <1>6, <3>1, FS_Union, Zenon
    <3>3. preparing \cap W = {} /\ Cardinality({}) = 0
      BY <2>1, FS_EmptySet
    <3>4. Cardinality(preparing \cap W) = 0
      BY <3>3
    <3> QED BY <1>4, <1>6, <1>10, <3>1, <3>2, <3>4
  <2>3. /\ config.pool \in Nat /\ Cardinality(preparing) \in Nat
        /\ Len(pool) + Cardinality(preparing) <= config.pool
    BY <1>1, Counted DEF PoolInv, PoolIsBounded
  <2>4. Len(kept) + (Cardinality(preparing) + k) <= config.pool
    BY <1>8, <1>9, <1>10, <2>3
  <2> QED BY <1>1, <1>4, <1>8, <2>2, <2>4 DEF PoolIsBounded
<1>13. Done' = Done /\ Begun' = Begun \cup W /\ Running' = Running \cup W
  <2>1. \A w \in W : prep[w] = "new"
    BY <1>6 DEF fresh
  <2> QED BY <1>4, <1>7, <2>1 DEF Done, Begun, Running
<1>14. LiveWarm' = LiveWarm /\ Tracked' = Tracked
  BY <1>1 DEF LiveWarm, Tracked
<1>15. /\ (ready \cap LiveWarm \subseteq ToSet(pool) \cup late)'
       /\ (ToSet(pool) \cup ready \subseteq Done)'
       /\ (preparing \subseteq Begun)'
       /\ (Running \subseteq late \cup preparing)'
  BY <1>1, <1>4, <1>8, <1>13, <1>14 DEF PoolInv
<1> QED BY <1>1, <1>11, <1>12, <1>14, <1>15 DEF PoolInv
LEMMA PoolInvNext == PoolInv /\ AInv /\ [Next]_vars => PoolInv'
<1> SUFFICES ASSUME PoolInv, AInv, [Next]_vars PROVE PoolInv'
  OBVIOUS
<1>1. CASE UNCHANGED vars
  <2>1. UNCHANGED <<config, pool, prep, late, preparing, ready, vm>>
    BY <1>1 DEF vars, warming
  <2>2. PoolQuiet
    BY <2>1 DEF PoolQuiet, LiveWarm, OneMore, Tracked
  <2> QED BY <2>2, PoolQuietSteps
<1>2. ASSUME NEW c \in Call,
             Admit(c) \/ Refuse(c) \/ CallStep(c) \/ Terminate(c) \/ EndReported(c)
      PROVE  PoolInv'
  BY <1>2, CallStepSparesPool, ClaimKeepsPool, PoolQuietSteps
<1>3. ASSUME NEW w \in Warm, PrepStep(w) PROVE PoolInv'
  BY <1>3, PrepStepKeepsPool, PrepEndsKeepsPool
<1>4. CASE Build
  BY <1>4, BuildKeepsPool
<1>5. CASE \/ Maintain \/ FillEnds
           \/ \E w \in Warm : Probe(w) \/ ProbeAnswered(w) \/ ProbeFails(w)
  BY <1>5, FillSparesPool, PoolQuietSteps
<1>6. CASE MonitorStep \/ \E x \in Id : Exit(x)
  BY <1>6, MonitorSparesPool, PoolQuietSteps
<1> QED BY <1>1, <1>2, <1>3, <1>4, <1>5, <1>6 DEF Next, FillStep

-------------------------------------------------------------------------------
(***************************************************************************)
(* What is left of the types                                               *)
(***************************************************************************)
RestTypes == /\ from \in [Call -> Warm \cup {NoWarm}]
             /\ {reserved, marked} \subseteq SUBSET Call
             /\ fill \in {"idle", "probing", "building"}
             /\ probes \subseteq Warm
             /\ probe \in Warm \cup {NoWarm}

LEMMA RestTypesKept == RestTypes /\ PoolTypes /\ [Next]_vars => RestTypes'
<1> SUFFICES ASSUME RestTypes, PoolTypes, [Next]_vars PROVE RestTypes'
  OBVIOUS
<1>1. CASE UNCHANGED vars
  BY <1>1 DEF vars, calls, warming, reports, RestTypes
<1>2. ASSUME NEW c \in Call, Claim(c) PROVE RestTypes'
  <2>1. PICK i : i = SelectInSeq(pool, Claimable)
    OBVIOUS
  <2>2. i = 0 \/ (i \in 1..Len(pool) /\ pool[i] \in Warm)
    BY <2>1, ClaimPlace DEF PoolTypes
  <2>3. from' = from \/ (i # 0 /\ from' = [from EXCEPT ![c] = pool[i]])
    BY <1>2, <2>1 DEF Claim
  <2>4. UNCHANGED <<reserved, marked, fill, probes, probe>>
    BY <1>2 DEF Claim, reports
  <2>5. from' \in [Call -> Warm \cup {NoWarm}]
    BY <2>2, <2>3 DEF RestTypes
  <2> QED BY <2>4, <2>5 DEF RestTypes
<1>3. ASSUME NEW c \in Call, ~ Claim(c),
             Admit(c) \/ Refuse(c) \/ CallStep(c) \/ Terminate(c) \/ EndReported(c)
      PROVE  RestTypes'
  <2>1. UNCHANGED <<from, fill, probes, probe>>
    BY <1>3 DEF Admit, Refuse, CallStep, HandOver, HandOverFails, GiveUp, CheckPasses,
         CheckFails, Spawn, Restored, RestoreFails, Undone, Terminate, EndSession,
         EndReported, warming, calls
  <2>2. reserved' \subseteq reserved \cup {c}
    BY <1>3 DEF Admit, Refuse, CallStep, HandOver, HandOverFails, GiveUp, CheckPasses,
         CheckFails, Spawn, Restored, RestoreFails, Undone, Terminate, EndReported,
         Succeed, Fail, calls
  <2>3. marked' \subseteq marked \cup {c}
    BY <1>3 DEF Admit, Refuse, CallStep, HandOver, HandOverFails, GiveUp, CheckPasses,
         CheckFails, Spawn, Restored, RestoreFails, Undone, Terminate, EndSession,
         EndReported, reports
  <2> QED BY <2>1, <2>2, <2>3 DEF RestTypes
<1>4. ASSUME NEW w \in Warm, PrepStep(w) PROVE RestTypes'
  <2>1. UNCHANGED <<from, reserved, marked, fill, probes, probe>>
    BY <1>4 DEF PrepStep, PrepBegins, PrepSpawns, PrepEnds, PrepFails, PrepThrows,
         PrepTimesOut, PrepGivenUp, calls, reports
  <2> QED BY <2>1 DEF RestTypes
<1>5. CASE Maintain \/ FillStep
  <2>1. UNCHANGED <<from, reserved, marked>>
    BY <1>5 DEF Maintain, FillStep, Probe, ProbeAnswered, ProbeFails, Build, FillEnds,
         calls, reports
  <2>2. /\ fill' \in {fill, "idle", "probing", "building"}
        /\ probes' \subseteq probes \cup ready
    BY <1>5 DEF Maintain, FillStep, Probe, ProbeAnswered, ProbeFails, Build, FillEnds
  <2>3. probe' \in Warm \cup {probe, NoWarm}
    BY <1>5 DEF Maintain, FillStep, Probe, ProbeAnswered, ProbeFails, Build, FillEnds
  <2> QED BY <2>1, <2>2, <2>3 DEF RestTypes, PoolTypes
<1>6. CASE MonitorStep \/ \E x \in Id : Exit(x)
  <2>1. UNCHANGED <<from, reserved, fill, probes, probe>>
    BY <1>6 DEF MonitorStep, MonitorBegins, Reconcile, MonitorEnds, Visit,
         MonitorReports, MonitorGoesOn, MonitorExpires, ReconcileKills, Exit,
         calls, warming
  <2>2. marked' = marked \/ \E c \in Call : MonitorExpires(c)
    BY <1>6 DEF MonitorStep, MonitorBegins, Reconcile, MonitorEnds, Visit,
         MonitorReports, MonitorGoesOn, ReconcileKills, Exit, reports
  <2>3. marked' \subseteq marked \cup Call
    BY <2>2 DEF MonitorExpires, EndSession
  <2> QED BY <2>1, <2>3 DEF RestTypes
<1> QED BY <1>1, <1>2, <1>3, <1>4, <1>5, <1>6 DEF Next

AgentInv == AInv /\ PoolInv /\ Lines /\ RestTypes

LEMMA AgentInvInit == Init => AgentInv
<1> SUFFICES ASSUME Init PROVE Lines /\ RestTypes
  BY AInvInit, PoolInvInit DEF AgentInv
<1> QED BY DEF Init, Lines, RestTypes

LEMMA AgentInvNext == AgentInv /\ [Next]_vars => AgentInv'
<1> SUFFICES ASSUME AgentInv, [Next]_vars PROVE AgentInv'
  OBVIOUS
<1>1. AInv /\ PoolInv /\ PoolTypes /\ Lines /\ RestTypes
  BY DEF AgentInv, PoolInv
<1> QED BY <1>1, AInvNext, PoolInvNext, LinesKept, RestTypesKept DEF AgentInv

LEMMA AgentInvHolds == Spec => []AgentInv
  BY AgentInvInit, AgentInvNext, PTL DEF Spec

\* The state of the agent keeps its types.
THEOREM AgentTypesKept == Spec => []TypeOK
<1>1. AgentInv => TypeOK
  BY DEF AgentInv, AInv, Shapes, PoolInv, PoolTypes, Lines, RestTypes, TypeOK
<1> QED BY <1>1, AgentInvHolds, PTL

\* For any pool size, fill concurrency and number of preparations, late ones
\* included, the pool never has more VMs than warmPoolSize, ready or on the
\* way, and none twice (ensureWarmPool and prepareWarmSession of agent.ts).
THEOREM PoolStaysBounded == Spec => []PoolIsBounded
<1>1. AgentInv => PoolIsBounded
  BY DEF AgentInv, PoolInv
<1> QED BY <1>1, AgentInvHolds, PTL

\* A warm VM that is ready and lives is in the pool, unless its preparation
\* timed out: no claim, probe, exit or reconciliation takes it off the pool
\* and leaves it ready (#acquireWarmFirecrackerRuntimeExclusive of agent.ts,
\* claimWarmSession and revalidateWarmSessions of firecracker.ts).
THEOREM WarmVMsStayClaimable == Spec => []WarmVMsAreClaimable
<1>1. AgentInv => WarmVMsAreClaimable
  BY DEF AgentInv, PoolInv, PoolTypes, LiveWarm, WarmVMsAreClaimable
<1> QED BY <1>1, AgentInvHolds, PTL
=============================================================================
