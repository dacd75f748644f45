----------------------------- MODULE PorthMetric ----------------------------
(***************************************************************************)
(* include/porth/PorthMetric.hpp: a sample buffer filled in order and the  *)
(* percentiles read from a sorted copy of it.  Percentiles are given in    *)
(* hundredths of a percent, so that the index needs no fractions.          *)
(***************************************************************************)
EXTENDS Naturals, Sequences, FiniteSets

CONSTANT MetricCapacity

ASSUME MetricAssumption == MetricCapacity \in Nat \ {0}

(* record(): a full buffer ignores the sample.                             *)
Record(samples, latency) ==
  IF Len(samples) < MetricCapacity THEN Append(samples, latency) ELSE samples

(* Faulty variant of Sorted: the samples are taken as they were recorded.  *)
SortedNot(samples) == samples

(* The ways to rearrange the samples in ascending order.                   *)
Orders(samples) ==
  {f \in [DOMAIN samples -> DOMAIN samples] :
     /\ \A i \in DOMAIN samples : \E k \in DOMAIN samples : f[k] = i
     /\ \A k, l \in DOMAIN samples : k < l => samples[f[k]] <= samples[f[l]]}

(* get_sorted_samples(): what std::ranges::sort makes of a copy.           *)
Sorted(samples) ==
  LET f == CHOOSE f \in Orders(samples) : TRUE
  IN  [k \in DOMAIN samples |-> samples[f[k]]]

(* get_percentile_ns() of a buffer that is not empty, in cycles.           *)
Percentile(samples, p) ==
  LET idx == (p * Len(samples)) \div 10000
      capped == IF idx >= Len(samples) THEN Len(samples) - 1 ELSE idx
  IN  Sorted(samples)[capped + 1]

PERCENTILE_Q1 == 2500
PERCENTILE_P50 == 5000
PERCENTILE_Q3 == 7500
PERCENTILE_P99_9 == 9990
PERCENTILE_P99_99 == 9999

(* What print_stats() and save_markdown_report() read off the samples,     *)
(* nothing when there are none.                                            *)
Reported == {0, PERCENTILE_Q1, PERCENTILE_P50, PERCENTILE_Q3,
             PERCENTILE_P99_9, PERCENTILE_P99_99, 10000}
Report(samples) ==
  IF samples = << >> THEN << >> ELSE [p \in Reported |-> Percentile(samples, p)]

(* The reference: v is a p-th percentile of the samples if at most p of    *)
(* them are below it, and more than p of them, or all, are not above it.   *)
IsPercentile(samples, p, v) ==
  LET below == {i \in DOMAIN samples : samples[i] < v}
      notAbove == {i \in DOMAIN samples : samples[i] <= v}
  IN  /\ 10000 * Cardinality(below) <= p * Len(samples)
      /\ \/ 10000 * Cardinality(notAbove) > p * Len(samples)
         \/ notAbove = DOMAIN samples
=============================================================================
