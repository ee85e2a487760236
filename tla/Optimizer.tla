------------------------------- MODULE Optimizer -------------------------------
(***************************************************************************)
(* The search over benchmark settings (src/bench/optimizer.ts): candidates *)
(* come from a file or the built-in list, and from a language model; each  *)
(* safe one is benchmarked in turn, and one report at the end ranks them.  *)
(* A step that throws outside the try of runCandidate ends the program     *)
(* without a report.                                                       *)
(***************************************************************************)
EXTENDS Integers, Sequences, FiniteSets, FiniteSetsExt, SequencesExt

CONSTANTS CandidateId, SpelledAs, \* ids, and spellings of each (a set per id)
          MaxProposals,  \* proposals gathered (a bound)
          MaxCandidates, \* BENCH_OPTIMIZER_MAX_CANDIDATES
          MaxTime,       \* of a benchmark
          Penalty,       \* 100_000 for each part of failures
          Infinity

VARIABLES dryRun, step, proposals, candidates, ranked

optimizerVars == <<dryRun, step, proposals, candidates, ranked>>

\* What a proposal says: some setting that is not to be used may be in it, as
\* text or as a JSON number.
Proposal == [spelled : UNION {SpelledAs[i] : i \in CandidateId},
             harm : BOOLEAN, as : {"text", "number"}]
Candidate == [id : CandidateId, harm : BOOLEAN, as : {"text", "number"}]
Outcome == [of : Candidate, status : {"planned", "failed"}]
             \cup [of : Candidate, status : {"completed"},
                   time : 0..MaxTime, failures : 0..2]

OptimizerTypeOK ==
    /\ dryRun \in BOOLEAN
    /\ step \in {"gathering", "running", "reported", "lost"}
    /\ \A p \in ToSet(proposals) : p \in Proposal
    /\ Len(proposals) <= MaxProposals
    /\ \A c \in ToSet(candidates) : c \in Candidate
    /\ \A r \in ToSet(ranked) : r \in Outcome

OptimizerInit == /\ dryRun \in BOOLEAN /\ step = "gathering"
                 /\ proposals = <<>> /\ candidates = <<>> /\ ranked = <<>>

\* sanitizeId maps the spellings of an id to it; every value becomes text.
Normalized(p) == [id |-> CHOOSE i \in CandidateId : p.spelled \in SpelledAs[i],
                  harm |-> p.harm, as |-> "text"]

\* candidateIsSafe compares with texts.
IsSafe(c) == ~(c.harm /\ c.as = "text")

\* A Map by id: an id keeps its first place and gets its last value.
ById(cs) ==
    LET first == {i \in DOMAIN cs : \A j \in 1..(i - 1) : cs[j].id # cs[i].id}
        places == SetToSortSeq(first, <)
    IN  [k \in DOMAIN places |->
           LET id == cs[places[k]].id IN cs[SelectLastInSeq(cs, LAMBDA c : c.id = id)]]

Upto(n, s) == SubSeq(s, 1, IF Len(s) < n THEN Len(s) ELSE n)

\* A fault: the proposals are judged as they came.
GatheredUnread(ps) ==
    LET kept == SelectSeq(ps, IsSafe)
    IN  Upto(MaxCandidates, ById([i \in DOMAIN kept |-> Normalized(kept[i])]))

Gathered(ps) ==
    LET read == [i \in DOMAIN ps |-> Normalized(ps[i])]
    IN  Upto(MaxCandidates, ById(SelectSeq(read, IsSafe)))

\* getCandidates; an error of the language model leaves the seeds alone.
GetCandidates ==
    /\ step = "gathering"
    /\ \E n \in 0..MaxProposals : \E ps \in [1..n -> Proposal] :
         proposals' = ps /\ candidates' = Gathered(ps)
    /\ step' = "running"
    /\ UNCHANGED <<dryRun, ranked>>

\* runCandidate: planned, or the outcome of the benchmark.
RunCandidate ==
    /\ step = "running" /\ Len(ranked) < Len(candidates)
    /\ LET c == candidates[Len(ranked) + 1]
       IN  IF dryRun
              THEN ranked' = Append(ranked, [of |-> c, status |-> "planned"])
              ELSE \/ ranked' = Append(ranked, [of |-> c, status |-> "failed"])
                   \/ \E t \in 0..MaxTime, f \in 0..2 :
                        ranked' = Append(ranked, [of |-> c, status |-> "completed",
                                                  time |-> t, failures |-> f])
    /\ UNCHANGED <<dryRun, step, proposals, candidates>>

\* The file of candidates, a directory or error.log cannot be read or written.
Throws == /\ step \in {"gathering", "running"}
          /\ step' = "lost"
          /\ UNCHANGED <<dryRun, proposals, candidates, ranked>>

\* scoreBenchmark; a candidate that failed or was not run has no score.
Score(r) == IF r.status = "completed" THEN r.time + Penalty * r.failures ELSE Infinity

\* Array.sort is stable.
Report ==
    /\ step = "running" /\ Len(ranked) = Len(candidates)
    /\ LET before(i, j) == \/ Score(ranked[i]) < Score(ranked[j])
                           \/ Score(ranked[i]) = Score(ranked[j]) /\ i < j
           order == SetToSortSeq(DOMAIN ranked, before)
       IN  ranked' = [k \in DOMAIN order |-> ranked[order[k]]]
    /\ step' = "reported"
    /\ UNCHANGED <<dryRun, proposals, candidates>>

OptimizerNext == GetCandidates \/ RunCandidate \/ Throws \/ Report

OptimizerSpec == OptimizerInit /\ [][OptimizerNext]_optimizerVars

\* What is worse, in words: a benchmark that failed, more failures, more time.
Worse(r, s) ==
    /\ s.status = "completed"
    /\ \/ r.status # "completed"
       \/ r.failures > s.failures
       \/ r.failures = s.failures /\ r.time > s.time

\* Nothing with a setting that is not to be used is benchmarked, however it was
\* proposed; and the report has each id once, as many as there were safe
\* proposals for up to the limit, and none before one that did better.
ReportIsWhole ==
    /\ \A r \in ToSet(ranked) : ~r.of.harm
    /\ step = "reported" =>
         LET proposed == {Normalized(p).id : p \in {q \in ToSet(proposals) : ~q.harm}}
             ids == {r.of.id : r \in ToSet(ranked)}
         IN  /\ ids \subseteq proposed
             /\ Cardinality(ids) = Len(ranked)
             /\ Len(ranked) = Min({Cardinality(proposed), MaxCandidates})
             /\ \A i, j \in DOMAIN ranked : i < j => ~Worse(ranked[i], ranked[j])
=============================================================================
