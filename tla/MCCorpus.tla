------------------------------- MODULE MCCorpus -------------------------------
EXTENDS Corpus, TLC
CONSTANTS m1, m2
MCCreated == (m1 :> 0) @@ (m2 :> 1)
===============================================================================
