----------------------------- MODULE MCScheduling -----------------------------
EXTENDS Scheduling

CONSTANTS w1, w2, k1

Timings ==
  {[kind |-> "cron", catchUp |-> "skip", page |-> 2],
   [kind |-> "cron", catchUp |-> "latest", page |-> 1],
   [kind |-> "once", catchUp |-> "skip", page |-> 1]}
=============================================================================
