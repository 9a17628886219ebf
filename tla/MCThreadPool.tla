---------------------------- MODULE MCThreadPool ----------------------------
EXTENDS ThreadPool

\* Two phases with work and one without, as in a program with no @Sek node.
MCBatchLists == { << <<"t1", "t2">>, <<>>, <<"t3", "t4">> >> }

=============================================================================
