----------------------------- MODULE MCKernelLock ------------------------------
EXTENDS KernelLockProperties

\* Cores are alike, and so are the nodes of the queue.
Symmetry == Permutations(Cores) \cup Permutations(Nodes)

================================================================================
