---------------------------- MODULE MCLeakDetector ----------------------------
EXTENDS LeakDetector

\* Four points of different fitness, and the confidence of the swarm at each: above
\* both thresholds, between them, below them.
MCPosition == {1000, 1400}
MCFitness == [x \in MCPosition \X {1, 2} |->
                IF x[1] = 1000 THEN x[2] ELSE IF x[2] = 1 THEN 0 ELSE 3]
MCLogProb == {-5000, -4000, -67}
MCConfidence == [f \in 0..3 |-> IF f = 0 THEN 90 ELSE IF f = 1 THEN 45 ELSE 20]

\* Readings good enough for Bayesian inference, too few, too uniform, implausible.
MCInitialReadings ==
  {<<30, 30, 40, 2, 2>>, <<30, 30, 40, Silent, Silent>>, <<30, 30, 31, 30, 30>>,
   <<2000, 30, 30, 60, 2000>>}
===============================================================================
