----------------------------- MODULE SessionReads -----------------------------
(***************************************************************************)
(* Requests about one session that go through to its agent: activity       *)
(* updates and log reads (updateSessionActivityFromRequest and the routes  *)
(* of src/api/server.ts, fetchRemoteSessionLogs and                        *)
(* markRemoteSessionActivity of src/api/client.ts, the agent's answers in  *)
(* src/node-agent/agent.ts).  A handler reads the record first and acts on *)
(* what it has read after the agent's answer, while the session may end.   *)
(***************************************************************************)
EXTENDS Naturals, Sequences, FiniteSets

CONSTANTS Asker,     \* requests
          Reported,   \* activity states
          Resends     \* of a call to the agent: 1 in the code

VARIABLES sessionRecord, \* its status, and whether it has recentLogs
          runs,          \* the agent tracks the session
          active,        \* its activity, as the agent has it
          asks,          \* asks[q]: where request q is
          trail,         \* activities in the event log, in the order written
          taken          \* history: [by, activity] of the updates the agent took

readVars == <<sessionRecord, runs, active, asks, trail, taken>>

Launching == "launching"
Nothing == [at |-> "none", activity |-> Launching, sends |-> 0]
Places == {"none", "calling", "told", "done", "404", "409", "502",
           "live", "recorded", "empty"}
Kept == [status : {"running", "terminated"}, logs : BOOLEAN]

ReadTypeOK ==
    /\ sessionRecord \in Kept /\ runs \in BOOLEAN
    /\ active \in Reported \cup {Launching}
    /\ DOMAIN asks = Asker
    /\ \A q \in Asker : /\ asks[q].at \in Places
                        /\ asks[q].activity \in Reported \cup {Launching, "logs"}
                        /\ asks[q].sends \in 0..(Resends + 1)
    /\ {trail[i].by : i \in DOMAIN trail} \subseteq Asker
    /\ \A e \in taken : e.by \in Asker /\ e.activity \in Reported

ReadInit == /\ sessionRecord = [status |-> "running", logs |-> FALSE]
            /\ runs = TRUE
            /\ active = Launching
            /\ asks = [q \in Asker |-> Nothing]
            /\ trail = <<>> /\ taken = {}

Goes(q, place) == asks' = [asks EXCEPT ![q].at = place]

\* The agent ends the session and reports it with the last of its logs; the
\* report arrives later.
AgentEndsIt == /\ runs /\ runs' = FALSE
               /\ UNCHANGED <<sessionRecord, active, asks, trail, taken>>

RecordEnds == /\ ~runs
              /\ \E logs \in {sessionRecord.logs, TRUE} :
                   sessionRecord' = [status |-> "terminated", logs |-> logs]
              /\ UNCHANGED <<runs, active, asks, trail, taken>>

\* An asynchronous delete writes the end first, the agent acts later.
DeleteCommits == /\ sessionRecord.status = "running"
                 /\ sessionRecord' = [sessionRecord EXCEPT !.status = "terminated"]
                 /\ UNCHANGED <<runs, active, asks, trail, taken>>

\* The handlers read the record: the host of the session is known, or not.
AsksActivity(q, a) ==
    /\ asks[q].at = "none"
    /\ \/ asks' = [asks EXCEPT ![q] = [at |-> "calling", activity |-> a, sends |-> 1]]
       \/ Goes(q, "409")
    /\ UNCHANGED <<sessionRecord, runs, active, trail, taken>>

\* Logs are asked of the agent while the record says the session runs.
AsksLogs(q) ==
    /\ asks[q].at = "none"
    /\ \/ /\ sessionRecord.status = "running"
          /\ asks' = [asks EXCEPT ![q] = [at |-> "calling", activity |-> "logs",
                                          sends |-> 1]]
       \/ Goes(q, IF sessionRecord.logs THEN "recorded" ELSE "empty")
    /\ UNCHANGED <<sessionRecord, runs, active, trail, taken>>

Updating(q) == asks[q].at = "calling" /\ asks[q].activity \in Reported
Reading(q) == asks[q].at = "calling" /\ asks[q].activity = "logs"

MarkActivity(q) == /\ active' = asks[q].activity
                   /\ taken' = taken \cup {[by |-> q, activity |-> asks[q].activity]}

\* NodeAgent.markSessionActivity, then 204.
Marked(q) == /\ Updating(q) /\ runs
             /\ MarkActivity(q) /\ Goes(q, "told")
             /\ UNCHANGED <<sessionRecord, runs, trail>>

\* The answer is lost: a transient error, and the update is sent again.
Unheard(q) == /\ Updating(q)
              /\ \/ runs /\ MarkActivity(q)
                 \/ UNCHANGED <<active, taken>>
              /\ IF asks[q].sends <= Resends
                    THEN asks' = [asks EXCEPT ![q].sends = @ + 1]
                    ELSE Goes(q, "502")
              /\ UNCHANGED <<sessionRecord, runs, trail>>

\* A fault: an agent without the session is no error to the caller.
RefusedUnnoticed(q) == /\ Updating(q) /\ ~runs
                       /\ Goes(q, "told")
                       /\ UNCHANGED <<sessionRecord, runs, active, trail, taken>>

\* 404 of the agent; assertOk throws.
Refused(q) == /\ Updating(q) /\ ~runs
              /\ Goes(q, "502")
              /\ UNCHANGED <<sessionRecord, runs, active, trail, taken>>

\* The event tells the activity and the status that were read.
WritesEvent(q) ==
    /\ asks[q].at = "told"
    /\ trail' = Append(trail, [by |-> q, activity |-> asks[q].activity])
    /\ Goes(q, "done")
    /\ UNCHANGED <<sessionRecord, runs, active, taken>>

\* The logs of the agent, while it has the session.
ReadsLive(q) == /\ Reading(q) /\ runs
                /\ Goes(q, "live")
                /\ UNCHANGED <<sessionRecord, runs, active, trail, taken>>

\* Otherwise, or with errors, the logs in the record as it was read: it ran,
\* so there were none.
ReadsNothing(q) == /\ Reading(q)
                   /\ Goes(q, "empty")
                   /\ UNCHANGED <<sessionRecord, runs, active, trail, taken>>

ReadNext == \/ AgentEndsIt \/ RecordEnds \/ DeleteCommits
            \/ \E q \in Asker :
                 \/ \E a \in Reported : AsksActivity(q, a)
                 \/ AsksLogs(q) \/ Marked(q) \/ Unheard(q) \/ Refused(q)
                 \/ WritesEvent(q) \/ ReadsLive(q) \/ ReadsNothing(q)

ReadSpec == ReadInit /\ [][ReadNext]_readVars

\* The event log tells no activity that the agent did not take, and each request
\* once, however often it was sent: not one of a session that had ended, nor
\* one whose call failed.
LoggedActivityHappened ==
    \A i \in DOMAIN trail :
      /\ trail[i] \in taken
      /\ \A j \in DOMAIN trail : trail[i].by = trail[j].by => i = j
=============================================================================
