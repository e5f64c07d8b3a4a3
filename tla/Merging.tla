------------------------------ MODULE Merging ------------------------------
(***************************************************************************)
(* MergeSearcherAnswers of app/include/Merging.h: the Coordinator fuses    *)
(* the ranked answers of the searchers by reciprocal ranks.                *)
(*                                                                         *)
(* Scores are exact: a double score is scaled by the product of the        *)
(* denominators that occur.  Different totals differ by far more than the  *)
(* rounding of doubles; equal ones may come out of the rounding, the hash  *)
(* map and the unstable sort in any order.                                 *)
(***************************************************************************)
EXTENDS Integers, Sequences, FiniteSets, TLC, SequencesExt

CONSTANTS
  Answers,       \* the answers a searcher can give: sequences of documents
  MaxResponses,  \* bound: searchers that answered
  MaxLen         \* bound: length of an answer

ASSUME MergingAssumption ==
  /\ MaxResponses \in Nat /\ MaxLen \in Nat
  /\ \A a \in Answers : a \in Seq(ToSet(a)) /\ Len(a) <= MaxLen

VARIABLES
  responses, num_requested,  \* the arguments
  out, in,                   \* loop counters, from 1
  doc_to_score,
  final_response,
  phase                      \* "score" or "done"

merge_vars == <<responses, num_requested, out, in, doc_to_score, final_response, phase>>

(* Mutant: plain reciprocal ranks.                                         *)
NoConst == 0

RFF_CONST == 60

Scale == FoldLeft(LAMBDA x, i : x * (RFF_CONST + i), 1, [i \in 1..MaxLen |-> i])

GetScore(id) == Scale \div (RFF_CONST + id + 1)

MergeInit ==
  /\ responses \in UNION {[1..n -> Answers] : n \in 0..MaxResponses}
  /\ num_requested \in 0..MaxLen
  /\ out = 1 /\ in = 1 /\ doc_to_score = <<>>
  /\ final_response = <<>> /\ phase = "score"

(* doc_to_score[id] = score, with or without an entry for id before.       *)
Assigned(id, score) ==
  [d \in DOMAIN doc_to_score \cup {id} |-> IF d = id THEN score ELSE doc_to_score[d]]

(* Mutant: the score of the last answer counts.                            *)
LastScore(id, score) == Assigned(id, score)

Added(id, score) ==
  IF id \in DOMAIN doc_to_score THEN Assigned(id, doc_to_score[id] + score)
                                ELSE Assigned(id, score)

Score ==
  /\ phase = "score" /\ out <= Len(responses) /\ in <= Len(responses[out])
  /\ doc_to_score' = Added(responses[out][in], GetScore(in - 1))
  /\ in' = in + 1
  /\ UNCHANGED <<responses, num_requested, out, final_response, phase>>

NextResponse ==
  /\ phase = "score" /\ out <= Len(responses) /\ in > Len(responses[out])
  /\ out' = out + 1 /\ in' = 1
  /\ UNCHANGED <<responses, num_requested, doc_to_score, final_response, phase>>

(* The documents by decreasing score, cut to the number requested.         *)
SortAndCut ==
  /\ phase = "score" /\ out > Len(responses)
  /\ \E sorted \in SetToSeqs(DOMAIN doc_to_score) :
       /\ IsSorted(sorted, LAMBDA d, e : doc_to_score[d] >= doc_to_score[e])
       /\ final_response' =
            SubSeq(sorted, 1, IF num_requested < Len(sorted) THEN num_requested
                                                            ELSE Len(sorted))
  /\ phase' = "done"
  /\ UNCHANGED <<responses, num_requested, out, in, doc_to_score>>

MergeNext == Score \/ NextResponse \/ SortAndCut

MergeSpec == MergeInit /\ [][MergeNext]_merge_vars
-----------------------------------------------------------------------------
In(d, s) == \E i \in DOMAIN s : s[i] = d
Docs == UNION {ToSet(a) : a \in Answers}
Precedes(d, e, s) == \E i, j \in DOMAIN s : s[i] = d /\ s[j] = e /\ i < j

(* d is in the result, before e, if e is.                                  *)
Ranked(d, e) == In(e, final_response) => Precedes(d, e, final_response)

(* The places a document was read at, <<answer, rank>>, and what it is     *)
(* worth there.  An answer can name a document twice: a searcher appends   *)
(* the results of its segments and of its shards.                          *)
Places == (1..MaxResponses) \X (1..MaxLen)
Read(d) == {p \in Places : /\ p[1] <= Len(responses) /\ p[2] <= Len(responses[p[1]])
                           /\ p[1] < out \/ (p[1] = out /\ p[2] < in)
                           /\ responses[p[1]][p[2]] = d}
Reciprocal(p) == Scale \div (60 + p[2])

(* Each time an answer names e it has named d before, once for each.       *)
Ranks(d, answer) == {i \in DOMAIN answer : answer[i] = d}
Ahead(d, e, answer) ==
  \E f \in Injection(Ranks(e, answer), Ranks(d, answer)) : \A i \in Ranks(e, answer) : f[i] < i

(* A document that is ahead of e in every answer is never returned after   *)
(* e, nor cut in its favour (MergeSearcherAnswers).                        *)
Dominance ==
  phase = "done" => \A d, e \in Docs :
    Read(e) # {} /\ (\A o \in DOMAIN responses : Ahead(d, e, responses[o])) => Ranked(d, e)

(* A document named more often is ranked before one named less often,      *)
(* whatever the positions: RFF_CONST outweighs them, as long as the        *)
(* answers are short or the second one is named rarely.                    *)
Consensus ==
  phase = "done" => \A d, e \in Docs :
    /\ Cardinality(Read(d)) > Cardinality(Read(e))
    /\ Cardinality(Read(e)) * (MaxLen - 1) <= 60
    => Ranked(d, e)

(* The map holds the sum, over all places a document was read at, of the   *)
(* reciprocal rank there, also when one answer repeats a document.         *)
ScoresExact ==
  \A d \in Docs : IF Read(d) = {} THEN d \notin DOMAIN doc_to_score
                  ELSE /\ d \in DOMAIN doc_to_score
                       /\ doc_to_score[d] = MapThenSumSet(Reciprocal, Read(d))
============================================================================
