----------------------------- MODULE MCDmaBridge ------------------------------
EXTENDS DmaBridge

\* A command as long as the burst-length register can count: m_rows = LEN_MOD.
MCLongJobs == {[w |-> 0, a |-> 2, c |-> 0, m |-> 4]}

\* A command without rows, and one to follow it.
MCEmptyJobs == {[w |-> 0, a |-> 2, c |-> 0, m |-> 0],
                [w |-> 5, a |-> 0, c |-> 5, m |-> 1]}
===============================================================================
