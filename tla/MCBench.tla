------------------------------ MODULE MCBench ------------------------------
EXTENDS Bench

MCItems == [from : Producers, no : 1 .. PER]
MCThreads == Producers \cup Consumers
=============================================================================
